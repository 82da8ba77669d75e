---------------------------- MODULE CommandRouter ----------------------------
(***************************************************************************)
(* DiscordBot: the components register the commands they serve, each       *)
(* interaction is routed to one handler by the id it carries, and Discord  *)
(* is told of the slash commands when a connection is ready.               *)
(*                                                                         *)
(* An id is a sequence of fragments, cut where the program's ids differ;   *)
(* only which ids begin alike matters.                                     *)
(***************************************************************************)
EXTENDS Naturals, Sequences

CONSTANTS
    Fragment,   \* the pieces ids are made of
    Id,         \* the ids interactions may carry
    Declared,   \* for each possible program: what its components declare, in order
    MaxReady    \* bound: how often a connection is ready

Kind == {"slash", "button", "select", "form"}
MatchType == {"EXACT", "PREFIX"}

Declaration == [kind : Kind, id : Seq(Fragment), type : MatchType]

ASSUME RouterAssumption ==
    /\ Id \subseteq Seq(Fragment)
    /\ Declared \subseteq Seq(Declaration)
    /\ \A d \in Declared : \A i \in DOMAIN d : d[i].kind = "slash" => d[i].type = "EXACT"
    /\ MaxReady \in Nat

VARIABLES
    declared,   \* the commands of all the components, in registration order
    next,       \* the command addComponent looks at next
    exact,      \* the handler of each exact id, per kind
    prefixes,   \* the prefix commands of each kind, in the order of their vector
    ready,      \* how many connections have become ready
    registered  \* Discord: the slash commands of the application

vars == <<declared, next, exact, prefixes, ready, registered>>

\* A handler is known by the place of its declaration; 0 is no handler.
NoHandler == 0
Done == next > Len(declared)

StartsWith(id, prefix) ==
    /\ Len(prefix) <= Len(id)
    /\ \A i \in 1 .. Len(prefix) : prefix[i] = id[i]

Init ==
    /\ declared \in Declared
    /\ next = 1
    /\ exact = [k \in Kind |-> [id \in {} |-> NoHandler]]
    /\ prefixes = [k \in Kind |-> <<>>]
    /\ ready = 0
    /\ registered = {}

-----------------------------------------------------------------------------
(* addComponent *)

\* Variation: the iterator has moved on.
ThisHandlerNext == next + 1

\* The handler of the command at hand.
ThisHandler == next

\* Variation: only an id that begins with a registered one is refused.
ConflictsWithShorter(p, id) == StartsWith(id, p)

\* Neither prefix may begin with the other.
Conflicts(p, id) == StartsWith(p, id) \/ StartsWith(id, p)

\* The first registration of an id stays.
MayAdd(k, id) == id \notin DOMAIN exact[k]

AddExact(d) ==
    /\ d.type = "EXACT"
    /\ exact' = IF MayAdd(d.kind, d.id)
                THEN [exact EXCEPT ![d.kind] =
                        [id \in DOMAIN @ \cup {d.id} |-> IF id = d.id THEN ThisHandler ELSE @[id]]]
                ELSE exact
    /\ UNCHANGED prefixes

AddPrefix(d) ==
    /\ d.type = "PREFIX"
    /\ prefixes' = IF \E i \in DOMAIN prefixes[d.kind] : Conflicts(prefixes[d.kind][i].id, d.id)
                   THEN prefixes
                   ELSE [prefixes EXCEPT ![d.kind] = Append(@, [id |-> d.id, handler |-> ThisHandler])]
    /\ UNCHANGED exact

\* One command of a component: a refusal is logged, and that is all.
Add ==
    /\ ~Done
    /\ AddExact(declared[next]) \/ AddPrefix(declared[next])
    /\ next' = next + 1
    /\ UNCHANGED <<declared, ready, registered>>

-----------------------------------------------------------------------------
(* onReady *)

SlashNames == {declared[i].id : i \in {j \in DOMAIN declared : declared[j].kind = "slash"}}

\* run_once: the commands are collected the first time only.
Collected == IF ready = 0 THEN SlashNames ELSE {}

\* The list replaces the application's commands.  D++ is taken to send nothing
\* when the list is empty, as it is each time but the first.
global_bulk_command_create(commands) ==
    registered' = IF commands = {} THEN registered ELSE commands

Ready ==
    /\ Done
    /\ ready < MaxReady
    /\ ready' = ready + 1
    /\ global_bulk_command_create(Collected)
    /\ UNCHANGED <<declared, next, exact, prefixes>>

Next == Add \/ Ready

Spec == Init /\ [][Next]_vars

-----------------------------------------------------------------------------
(* onSlashCommand, onButtonClick, onSelectClick, onFormSubmit *)

\* The registered prefixes an id begins with, by their place in the vector.
Matches(k, id) == {i \in DOMAIN prefixes[k] : StartsWith(id, prefixes[k][i].id)}

\* An exact id first, then the first prefix that matches, else nobody.
Route(k, id) ==
    IF id \in DOMAIN exact[k] THEN exact[k][id]
    ELSE IF Matches(k, id) # {}
    THEN prefixes[k][CHOOSE i \in Matches(k, id) : \A j \in Matches(k, id) : i <= j].handler
    ELSE NoHandler

-----------------------------------------------------------------------------
(* The program's own declarations, in the order of its components *)

Slash(name) == [kind |-> "slash", id |-> <<name>>, type |-> "EXACT"]
Exact(k, name) == [kind |-> k, id |-> name, type |-> "EXACT"]
Prefix(k, name) == [kind |-> k, id |-> name, type |-> "PREFIX"]

LogCommands == <<Slash("setlogchannel")>>
PairCommands == <<Slash("pair"), Slash("shareagent")>>
YippeeCommands == <<Slash("yippee")>>

\* Variation: the buttons of a server's settings have a prefix of their own ids.
SettingsPrefixShort == <<"Server", "Settings">>

SettingsPrefix == <<"Server", "Settings", "ButtonID">>

\* The ids of the menus and buttons, cut where two of one kind part.
ServerStatusCommands ==
    <<Slash("setstatuschannel"),
      Prefix("button", <<"Server", "StatusCustomButtonID">>),
      Exact("button", <<"StatusWidgetSettingsButton">>),
      Exact("select", <<"StatusWidgetSettingPinnedServerOption">>),
      Exact("select", <<"StatusWidgetQueryServerOption">>),
      Prefix("button", SettingsPrefix),
      Prefix("button", <<"Server", "Settings", "AddCustomButton">>),
      Prefix("form", <<"Server", "Settings", "AddCustomButton", "Modal">>),
      Prefix("button", <<"Server", "Settings", "RemoveCustomButton">>),
      Prefix("select", <<"Server", "Settings", "RemoveCustomButton", "SelectOption">>),
      Exact("button", <<"AddServerButton">>),
      Exact("button", <<"RemoveServerButton">>),
      Slash("addserver"),
      Exact("form", <<"AddServerModal">>),
      Slash("removeserver"),
      Exact("select", <<"RemoveServerSelectOption">>)>>

Program == LogCommands \o PairCommands \o YippeeCommands \o ServerStatusCommands

\* What a widget puts in a component's id: a prefix is followed by the ids of a
\* server and a button.
ConcreteId(d) == IF d.type = "EXACT" THEN d.id ELSE Append(d.id, "|serverID")

-----------------------------------------------------------------------------
(* Properties *)

\* Every variable has its type.
TypeOK ==
    /\ declared \in Declared
    /\ next \in 1 .. (Len(declared) + 1)
    /\ DOMAIN exact = Kind
    /\ \A k \in Kind : /\ DOMAIN exact[k] \subseteq Seq(Fragment)
                       /\ \A id \in DOMAIN exact[k] : exact[k][id] \in 1 .. (next - 1)
    /\ prefixes \in [Kind -> Seq([id : Seq(Fragment), handler : Nat \ {0}])]
    /\ ready \in 0 .. MaxReady
    /\ registered \subseteq Seq(Fragment)

\* Whatever the components declare and in whatever order, an id begins with one
\* registered prefix at most, so that the order of the vector never decides
\* which handler an interaction gets.
Unambiguous ==
    \A k \in Kind, id \in Id : \A i, j \in Matches(k, id) : i = j

\* None of the program's own commands is refused or shadowed: each id a widget
\* carries reaches the handler declared for it.
ProgramServed ==
    declared = Program /\ Done =>
        \A i \in DOMAIN Program : Route(Program[i].kind, ConcreteId(Program[i])) = i
=============================================================================
