-------------------------- MODULE CommandRouterProofs --------------------------
(***************************************************************************)
(* For any lists of commands the components may declare: an id belongs to  *)
(* one registered prefix at most, and a list without two commands that     *)
(* get in each other's way is served in full.  The program's own list is   *)
(* one of those.                                                           *)
(***************************************************************************)
EXTENDS CommandRouter, TLAPS

PrefixCommand == [id : Seq(Fragment), handler : Nat]

\* What addComponent maintains: no registered prefix begins with another one.
PrefixFree ==
    \A k \in Kind : \A i, j \in DOMAIN prefixes[k] :
        i # j => ~Conflicts(prefixes[k][i].id, prefixes[k][j].id)

Progress ==
    /\ declared \in Seq(Declaration)
    /\ next \in Nat \ {0}
    /\ prefixes \in [Kind -> Seq(PrefixCommand)]

Routed == Progress /\ PrefixFree

\* Two prefixes of one id: the shorter is a prefix of the longer.
LEMMA PrefixesCompare ==
    ASSUME NEW id, NEW p, NEW q, Len(p) \in Nat, Len(q) \in Nat,
           StartsWith(id, p), StartsWith(id, q)
    PROVE  Conflicts(p, q)
<1>1. CASE Len(p) <= Len(q)
  <2>1. \A i \in 1 .. Len(p) : p[i] = q[i]
    BY <1>1 DEF StartsWith
  <2> QED
    BY <1>1, <2>1 DEF StartsWith, Conflicts
<1>2. CASE Len(q) <= Len(p)
  <2>1. \A i \in 1 .. Len(q) : q[i] = p[i]
    BY <1>2 DEF StartsWith
  <2> QED
    BY <1>2, <2>1 DEF StartsWith, Conflicts
<1> QED
  BY <1>1, <1>2

\* Conflicts does not depend on which of the two came first.
LEMMA ConflictsSymmetric ==
    \A p, q : Conflicts(p, q) <=> Conflicts(q, p)
BY DEF Conflicts

\* No prefix is registered when the program starts.
LEMMA RoutedInitially == Init => Routed
BY RouterAssumption DEF Init, Routed, Progress, PrefixFree

\* Appending a prefix that conflicts with none keeps the table prefix-free.
LEMMA AppendKeepsPrefixFree ==
    ASSUME Routed, NEW kind \in Kind, NEW new \in PrefixCommand,
           \A i \in DOMAIN prefixes[kind] : ~Conflicts(prefixes[kind][i].id, new.id),
           prefixes' = [prefixes EXCEPT ![kind] = Append(@, new)]
    PROVE  PrefixFree' /\ prefixes' \in [Kind -> Seq(PrefixCommand)]
<1> DEFINE old == prefixes[kind]
           longer == prefixes'[kind]
<1>1. old \in Seq(PrefixCommand)
  BY DEF Routed, Progress
<1>2. longer = Append(old, new)
  BY DEF Routed, Progress
<1>3. /\ DOMAIN longer = 1 .. Len(old) + 1
      /\ \A i \in 1 .. Len(old) : longer[i] = old[i]
      /\ longer[Len(old) + 1] = new
  BY <1>1, <1>2
<1>4. DOMAIN old = 1 .. Len(old) /\ Len(old) \in Nat
  BY <1>1
<1>5. ASSUME NEW i \in DOMAIN longer, NEW j \in DOMAIN longer, i # j
      PROVE  ~Conflicts(longer[i].id, longer[j].id)
  <2>1. CASE i \in DOMAIN old /\ j \in DOMAIN old
    BY <1>3, <1>4, <1>5, <2>1 DEF Routed, PrefixFree
  <2>2. CASE i = Len(old) + 1 /\ j \in DOMAIN old
    BY <1>3, <1>4, <2>2, ConflictsSymmetric
  <2>3. CASE j = Len(old) + 1 /\ i \in DOMAIN old
    BY <1>3, <1>4, <2>3
  <2> QED
    BY <1>3, <1>4, <1>5, <2>1, <2>2, <2>3
<1>6. \A k \in Kind \ {kind} : prefixes'[k] = prefixes[k]
  BY DEF Routed, Progress
<1>7. PrefixFree'
  BY <1>5, <1>6 DEF Routed, PrefixFree
<1> QED
  BY <1>7 DEF Routed, Progress

\* Whatever command comes next, the table stays prefix-free.
LEMMA RoutedKept == Routed /\ [Next]_vars => Routed'
<1> SUFFICES ASSUME Routed, [Next]_vars PROVE Routed'
  OBVIOUS
<1> DEFINE d == declared[next]
<1>1. CASE Add
  <2>1. declared' = declared /\ next' \in Nat \ {0}
    BY <1>1 DEF Add, Routed, Progress
  <2>2. d \in Declaration
    BY <1>1 DEF Add, Done, Routed, Progress
  <2>3. CASE AddExact(d)
    BY <2>1, <2>3 DEF AddExact, Routed, Progress, PrefixFree
  <2>4. CASE AddPrefix(d)
    <3>1. CASE UNCHANGED prefixes
      BY <2>1, <3>1 DEF Routed, Progress, PrefixFree
    <3>2. CASE ~\E i \in DOMAIN prefixes[d.kind] : Conflicts(prefixes[d.kind][i].id, d.id)
      <4> DEFINE new == [id |-> d.id, handler |-> ThisHandler]
      <4>1. new \in PrefixCommand /\ d.kind \in Kind
        BY <2>2 DEF Declaration, PrefixCommand, ThisHandler, Routed, Progress
      <4>2. prefixes' = [prefixes EXCEPT ![d.kind] = Append(@, new)]
        BY <2>4, <3>2 DEF AddPrefix
      <4>3. new.id = d.id
        OBVIOUS
      <4>4. \A i \in DOMAIN prefixes[d.kind] : ~Conflicts(prefixes[d.kind][i].id, new.id)
        BY <3>2, <4>3
      <4> HIDE DEF new, d
      <4>5. PrefixFree' /\ prefixes' \in [Kind -> Seq(PrefixCommand)]
        BY <4>1, <4>2, <4>4, AppendKeepsPrefixFree
      <4> QED
        BY <2>1, <4>5 DEF Routed, Progress
    <3> QED
      BY <2>4, <3>1, <3>2 DEF AddPrefix
  <2> QED
    BY <1>1, <2>3, <2>4 DEF Add
<1>2. CASE Ready
  BY <1>2 DEF Ready, Routed, Progress, PrefixFree
<1>3. CASE UNCHANGED vars
  BY <1>3 DEF vars, Routed, Progress, PrefixFree
<1> QED
  BY <1>1, <1>2, <1>3 DEF Next

\* The order of the prefix vector never decides which handler an interaction
\* gets, for any components and any order of their commands.
THEOREM PrefixesUnambiguous == Spec => []Unambiguous
<1>1. Routed => Unambiguous
  <2> SUFFICES ASSUME Routed, NEW k \in Kind, NEW id \in Id,
                      NEW i \in Matches(k, id), NEW j \in Matches(k, id), i # j
               PROVE  FALSE
    BY DEF Unambiguous
  <2>1. /\ i \in DOMAIN prefixes[k] /\ StartsWith(id, prefixes[k][i].id)
        /\ j \in DOMAIN prefixes[k] /\ StartsWith(id, prefixes[k][j].id)
    BY DEF Matches
  <2>2. prefixes[k][i].id \in Seq(Fragment) /\ prefixes[k][j].id \in Seq(Fragment)
    <3>1. prefixes[k] \in Seq(PrefixCommand)
      BY DEF Routed, Progress
    <3>2. prefixes[k][i] \in PrefixCommand /\ prefixes[k][j] \in PrefixCommand
      BY <2>1, <3>1
    <3> QED
      BY <3>2 DEF PrefixCommand
  <2>3. Conflicts(prefixes[k][i].id, prefixes[k][j].id)
    BY <2>1, <2>2, PrefixesCompare
  <2> QED
    BY <2>1, <2>3 DEF Routed, PrefixFree
<1> QED
  BY <1>1, RoutedInitially, RoutedKept, PTL DEF Spec

-----------------------------------------------------------------------------
(* Types. *)

LEMMA InitRouterTyped == Init => TypeOK
BY RouterAssumption DEF Init, TypeOK, Kind

LEMMA AddExactTyped ==
    ASSUME TypeOK, NEW d \in Declaration, ~Done, AddExact(d), next' = next + 1
    PROVE  /\ DOMAIN exact' = Kind
           /\ \A k \in Kind : /\ DOMAIN exact'[k] \subseteq Seq(Fragment)
                              /\ \A id \in DOMAIN exact'[k] : exact'[k][id] \in 1 .. (next' - 1)
           /\ prefixes' = prefixes
<1>1. d.kind \in Kind /\ d.id \in Seq(Fragment) /\ next \in Nat \ {0} /\ DOMAIN exact = Kind
      BY RouterAssumption DEF Declaration, TypeOK
<1>2. \A k \in Kind : \A id \in DOMAIN exact[k] : exact[k][id] \in 1 .. (next' - 1)
      BY <1>1 DEF TypeOK
<1>3. CASE UNCHANGED exact
      BY <1>2, <1>3 DEF TypeOK, AddExact
<1>4. CASE MayAdd(d.kind, d.id)
      <2>1. exact' = [exact EXCEPT ![d.kind] =
                        [id \in DOMAIN exact[d.kind] \cup {d.id} |->
                            IF id = d.id THEN next ELSE exact[d.kind][id]]]
            BY <1>4 DEF AddExact, ThisHandler
      <2>2. DOMAIN exact' = Kind
            BY <1>1, <2>1
      <2>3. \A k \in Kind \ {d.kind} : exact'[k] = exact[k]
            BY <1>1, <2>1
      <2>4. exact'[d.kind] = [id \in DOMAIN exact[d.kind] \cup {d.id} |->
                                 IF id = d.id THEN next ELSE exact[d.kind][id]]
            BY <1>1, <2>1
      <2>5. /\ DOMAIN exact'[d.kind] \subseteq Seq(Fragment)
            /\ \A id \in DOMAIN exact'[d.kind] : exact'[d.kind][id] \in 1 .. (next' - 1)
            BY <1>1, <1>2, <2>4 DEF TypeOK
      <2>6. QED
            BY <1>2, <2>2, <2>3, <2>5 DEF TypeOK, AddExact
<1>5. QED
      BY <1>3, <1>4 DEF AddExact

LEMMA AddPrefixTyped ==
    ASSUME TypeOK, NEW d \in Declaration, ~Done, AddPrefix(d)
    PROVE  prefixes' \in [Kind -> Seq([id : Seq(Fragment), handler : Nat \ {0}])]
<1> DEFINE Entry == [id : Seq(Fragment), handler : Nat \ {0}]
           new == [id |-> d.id, handler |-> next]
<1>1. new \in Entry /\ d.kind \in Kind
      BY RouterAssumption DEF Declaration, TypeOK
<1>2. prefixes \in [Kind -> Seq(Entry)]
      BY DEF TypeOK
<1>3. \/ prefixes' = prefixes
      \/ prefixes' = [prefixes EXCEPT ![d.kind] = Append(@, new)]
      BY DEF AddPrefix, ThisHandler
<1> HIDE DEF Entry, new
<1>4. Append(prefixes[d.kind], new) \in Seq(Entry)
      BY <1>1, <1>2
<1>5. prefixes' \in [Kind -> Seq(Entry)]
      BY <1>1, <1>2, <1>3, <1>4
<1>6. QED
      BY <1>5 DEF Entry

\* The command at hand is one of the declarations.
LEMMA CommandAtHand ==
    ASSUME TypeOK, ~Done
    PROVE  /\ declared \in Seq(Declaration) /\ Len(declared) \in Nat
           /\ next \in DOMAIN declared /\ declared[next] \in Declaration
           /\ DOMAIN declared = 1 .. Len(declared) /\ next \in Nat \ {0}
<1>1. declared \in Seq(Declaration)
      BY RouterAssumption DEF TypeOK
<1>2. next \in DOMAIN declared /\ next \in Nat \ {0}
      BY <1>1 DEF TypeOK, Done
<1>3. QED
      BY <1>1, <1>2

LEMMA NextRouterTyped == TypeOK /\ [Next]_vars => TypeOK'
<1> SUFFICES ASSUME TypeOK, [Next]_vars PROVE TypeOK'
    OBVIOUS
<1>1. CASE Add
      <2>1. /\ declared[next] \in Declaration /\ next' \in 1 .. (Len(declared) + 1)
            /\ ~Done /\ next' = next + 1
            <3>1. ~Done /\ next' = next + 1
                  BY <1>1 DEF Add
            <3>2. QED
                  BY <3>1, CommandAtHand
      <2>2. CASE AddExact(declared[next])
            <3>1. /\ DOMAIN exact' = Kind
                  /\ \A k \in Kind : /\ DOMAIN exact'[k] \subseteq Seq(Fragment)
                                     /\ \A id \in DOMAIN exact'[k] :
                                           exact'[k][id] \in 1 .. (next' - 1)
                  /\ prefixes' = prefixes
                  BY <2>1, <2>2, AddExactTyped
            <3>2. QED
                  BY <1>1, <2>1, <3>1 DEF Add, TypeOK
      <2>3. CASE AddPrefix(declared[next])
            <3>1. prefixes' \in [Kind -> Seq([id : Seq(Fragment), handler : Nat \ {0}])]
                  BY <2>1, <2>3, AddPrefixTyped
            <3>2. exact' = exact /\ next \in Nat
                  BY <2>1, <2>3, CommandAtHand DEF AddPrefix
            <3>3. \A k \in Kind : \A id \in DOMAIN exact'[k] : exact'[k][id] \in 1 .. (next' - 1)
                  BY <2>1, <3>2 DEF TypeOK
            <3>4. QED
                  BY <1>1, <2>1, <3>1, <3>2, <3>3 DEF Add, TypeOK
      <2>4. QED
            BY <1>1, <2>2, <2>3 DEF Add
<1>2. CASE Ready
      <2>1. SlashNames \subseteq Seq(Fragment)
            <3>1. \A j \in DOMAIN declared : declared[j] \in Declaration
                  BY RouterAssumption DEF TypeOK
            <3>2. QED
                  BY <3>1 DEF SlashNames, Declaration
      <2>2. ready' \in 0 .. MaxReady
            <3>1. ready \in Nat /\ ready' = ready + 1 /\ ready < MaxReady
                  BY <1>2, RouterAssumption DEF Ready, TypeOK
            <3>2. QED
                  BY <3>1, RouterAssumption
      <2>3. registered' \subseteq Seq(Fragment)
            BY <1>2, <2>1 DEF Ready, Collected, global_bulk_command_create, TypeOK
      <2>4. QED
            BY <1>2, <2>2, <2>3 DEF Ready, TypeOK
<1>3. CASE UNCHANGED vars
      BY <1>3 DEF vars, TypeOK
<1>4. QED
      BY <1>1, <1>2, <1>3 DEF Next

\* Every variable keeps its type: handlers are those of commands seen so far.
THEOREM TypeCorrect == Spec => []TypeOK
BY InitRouterTyped, NextRouterTyped, PTL DEF Spec

-----------------------------------------------------------------------------
(***************************************************************************)
(* Who serves an id.  Whatever the components declare, a handler that is   *)
(* registered is that of a declaration of its kind and id.  If in addition *)
(* no two declarations of a kind get in each other's way, none is refused. *)
(***************************************************************************)

\* What an exact command and a prefix must not do to another of their kind.
Apart(c, d) ==
    /\ c.type = "EXACT" /\ d.type = "EXACT" => c.id # d.id
    /\ c.type = "PREFIX" /\ d.type = "PREFIX" => ~Conflicts(c.id, d.id)
    /\ c.type = "PREFIX" /\ d.type = "EXACT" => ConcreteId(c) # d.id

Clean(list) ==
    \A i, j \in DOMAIN list : i # j /\ list[i].kind = list[j].kind => Apart(list[i], list[j])

\* What is registered was declared.
Sound ==
    /\ \A k \in Kind : \A id \in DOMAIN exact[k] :
          /\ exact[k][id] \in DOMAIN declared /\ exact[k][id] < next
          /\ declared[exact[k][id]] = [kind |-> k, id |-> id, type |-> "EXACT"]
    /\ \A k \in Kind : \A m \in DOMAIN prefixes[k] :
          /\ prefixes[k][m].handler \in DOMAIN declared /\ prefixes[k][m].handler < next
          /\ declared[prefixes[k][m].handler]
                = [kind |-> k, id |-> prefixes[k][m].id, type |-> "PREFIX"]

\* What was declared is registered.
Complete ==
    Clean(declared) =>
        \A j \in DOMAIN declared : j < next =>
            /\ declared[j].type = "EXACT" => declared[j].id \in DOMAIN exact[declared[j].kind]
            /\ declared[j].type = "PREFIX" =>
                  \E m \in DOMAIN prefixes[declared[j].kind] :
                      prefixes[declared[j].kind][m].handler = j

Tables == TypeOK /\ Routed /\ Sound /\ Complete

LEMMA InitTables == Init => Tables
<1> SUFFICES ASSUME Init PROVE Tables
    OBVIOUS
<1>1. declared \in Seq(Declaration) /\ next = 1
      BY RouterAssumption DEF Init
<1>2. Sound
      BY DEF Init, Sound
<1>3. Complete
      BY <1>1 DEF Complete
<1>4. QED
      BY <1>2, <1>3, InitRouterTyped, RoutedInitially DEF Tables

\* The command at hand goes into its table, or the table has one in its way.
LEMMA AddExactTables ==
    ASSUME Tables, ~Done, AddExact(declared[next]), next' = next + 1, declared' = declared
    PROVE  Sound' /\ Complete'
<1> DEFINE d == declared[next]
<1>1. /\ d \in Declaration /\ d.type = "EXACT" /\ next \in DOMAIN declared
      /\ DOMAIN declared \subseteq Nat /\ next \in Nat
      BY CommandAtHand DEF Tables, AddExact
<1>2. d.kind \in Kind /\ d = [kind |-> d.kind, id |-> d.id, type |-> "EXACT"]
      <2> HIDE DEF d
      <2>1. QED
            BY <1>1 DEF Declaration
<1>3. prefixes' = prefixes /\ DOMAIN exact = Kind
      BY DEF AddExact, Tables, TypeOK
<1>4. CASE ~MayAdd(d.kind, d.id)
      <2>1. exact' = exact /\ d.id \in DOMAIN exact[d.kind]
            BY <1>4 DEF AddExact, MayAdd
      <2>2. Sound'
            BY <1>1, <1>3, <2>1 DEF Tables, Sound
      <2>3. Complete'
            <3>1. \A j \in DOMAIN declared : j < next' => j < next \/ j = next
                  BY <1>1
            <3>2. QED
                  BY <1>1, <1>3, <2>1, <3>1 DEF Tables, Complete
      <2>4. QED
            BY <2>2, <2>3
<1>5. CASE MayAdd(d.kind, d.id)
      <2>1. exact' = [exact EXCEPT ![d.kind] =
                        [id \in DOMAIN exact[d.kind] \cup {d.id} |->
                            IF id = d.id THEN next ELSE exact[d.kind][id]]]
            BY <1>5 DEF AddExact, ThisHandler
      <2>2. /\ \A k \in Kind \ {d.kind} : exact'[k] = exact[k]
            /\ exact'[d.kind] = [id \in DOMAIN exact[d.kind] \cup {d.id} |->
                                   IF id = d.id THEN next ELSE exact[d.kind][id]]
            BY <1>2, <1>3, <2>1
      <2>3. \A k \in Kind : DOMAIN exact[k] \subseteq DOMAIN exact'[k]
            BY <2>2
      <2>4. \A k \in Kind : \A id \in DOMAIN exact'[k] :
               \/ k = d.kind /\ id = d.id /\ exact'[k][id] = next
               \/ id \in DOMAIN exact[k] /\ exact'[k][id] = exact[k][id]
            BY <2>2
      <2>5. Sound'
            <3>1. ASSUME NEW k \in Kind, NEW id \in DOMAIN exact'[k]
                  PROVE  /\ exact'[k][id] \in DOMAIN declared /\ exact'[k][id] < next'
                         /\ declared[exact'[k][id]] = [kind |-> k, id |-> id, type |-> "EXACT"]
                  <4>1. CASE k = d.kind /\ id = d.id /\ exact'[k][id] = next
                        BY <1>1, <1>2, <4>1
                  <4>2. CASE id \in DOMAIN exact[k] /\ exact'[k][id] = exact[k][id]
                        BY <1>1, <4>2 DEF Tables, Sound
                  <4>3. QED
                        BY <2>4, <4>1, <4>2
            <3>2. QED
                  BY <1>1, <1>3, <3>1 DEF Tables, Sound
      <2>6. Complete'
            <3>1. \A j \in DOMAIN declared : declared[j].kind \in Kind
                  <4>1. declared \in Seq(Declaration)
                        BY CommandAtHand DEF Tables
                  <4>2. \A j \in DOMAIN declared : declared[j] \in Declaration
                        BY <4>1
                  <4>3. QED
                        BY <4>2 DEF Declaration
            <3>2. \A j \in DOMAIN declared : j < next' => j < next \/ j = next
                  BY <1>1
            <3>3. d.id \in DOMAIN exact'[d.kind]
                  BY <2>2
            <3>4. QED
                  BY <1>1, <1>3, <2>3, <3>1, <3>2, <3>3 DEF Tables, Complete
      <2>7. QED
            BY <2>5, <2>6
<1>6. QED
      BY <1>4, <1>5

LEMMA AddPrefixTables ==
    ASSUME Tables, ~Done, AddPrefix(declared[next]), next' = next + 1, declared' = declared
    PROVE  Sound' /\ Complete'
<1> DEFINE d == declared[next]
<1>1. /\ d \in Declaration /\ d.type = "PREFIX" /\ next \in DOMAIN declared
      /\ DOMAIN declared \subseteq Nat /\ next \in Nat
      BY CommandAtHand DEF Tables, AddPrefix
<1>2. d.kind \in Kind /\ d = [kind |-> d.kind, id |-> d.id, type |-> "PREFIX"]
      <2> HIDE DEF d
      <2>1. QED
            BY <1>1 DEF Declaration
<1>3. exact' = exact
      BY DEF AddPrefix
<1>4. \A j \in DOMAIN declared : j < next' <=> j < next \/ j = next
      BY <1>1
<1>5. CASE UNCHANGED prefixes /\ \E m \in DOMAIN prefixes[d.kind] :
                                     Conflicts(prefixes[d.kind][m].id, d.id)
      <2>1. Sound'
            BY <1>1, <1>3, <1>4, <1>5 DEF Tables, Sound
      <2>2. ~Clean(declared)
            <3>1. PICK m \in DOMAIN prefixes[d.kind] : Conflicts(prefixes[d.kind][m].id, d.id)
                  BY <1>5
            <3> DEFINE j == prefixes[d.kind][m].handler
            <3>2. /\ j \in DOMAIN declared /\ j < next
                  /\ declared[j] = [kind |-> d.kind, id |-> prefixes[d.kind][m].id,
                                    type |-> "PREFIX"]
                  BY <1>2, <3>1 DEF Tables, Sound
            <3> HIDE DEF j, d
            <3>3. /\ j # next /\ declared[j].kind = d.kind /\ declared[j].type = "PREFIX"
                  /\ Conflicts(declared[j].id, d.id)
                  BY <1>1, <3>1, <3>2
            <3>4. QED
                  BY <1>1, <3>2, <3>3 DEF Clean, Apart, d
      <2>3. QED
            BY <2>1, <2>2 DEF Complete
<1>6. CASE prefixes' = [prefixes EXCEPT ![d.kind] = Append(@, [id |-> d.id, handler |-> next])]
      <2> DEFINE old == prefixes[d.kind]
                 longer == prefixes'[d.kind]
                 new == [id |-> d.id, handler |-> next]
      <2>1. prefixes \in [Kind -> Seq([id : Seq(Fragment), handler : Nat \ {0}])]
            BY DEF Tables, TypeOK
      <2>2. /\ \A k \in Kind \ {d.kind} : prefixes'[k] = prefixes[k]
            /\ longer = Append(old, new) /\ old \in Seq([id : Seq(Fragment), handler : Nat \ {0}])
            BY <1>2, <1>6, <2>1
      <2> HIDE DEF old, new
      <2>3. /\ DOMAIN old = 1 .. Len(old) /\ DOMAIN longer = 1 .. Len(old) + 1
            /\ \A m \in DOMAIN old : longer[m] = old[m]
            /\ longer[Len(old) + 1] = new /\ Len(old) \in Nat
            BY <2>2
      <2>4. /\ new.id = d.id /\ new.handler = next
            /\ \A m \in DOMAIN longer : m = Len(old) + 1 \/ m \in DOMAIN old
            /\ \A m \in DOMAIN old : m \in DOMAIN longer
            BY <2>3 DEF new
      <2> HIDE DEF d, longer
      <2>5. Sound'
            <3>1. ASSUME NEW k \in Kind, NEW m \in DOMAIN prefixes'[k]
                  PROVE  /\ prefixes'[k][m].handler \in DOMAIN declared
                         /\ prefixes'[k][m].handler < next'
                         /\ declared[prefixes'[k][m].handler]
                               = [kind |-> k, id |-> prefixes'[k][m].id, type |-> "PREFIX"]
                  <4>1. CASE k = d.kind /\ m = Len(old) + 1
                        BY <1>1, <1>2, <1>4, <2>3, <2>4, <4>1 DEF d, longer
                  <4>2. CASE m \in DOMAIN prefixes[k] /\ prefixes'[k][m] = prefixes[k][m]
                        BY <1>4, <3>1, <4>2 DEF Tables, Sound
                  <4>3. CASE k = d.kind /\ m \in DOMAIN old
                        BY <2>3, <4>2, <4>3 DEF old, longer
                  <4>4. k # d.kind => prefixes'[k] = prefixes[k]
                        BY <2>2
                  <4>5. k = d.kind => m = Len(old) + 1 \/ m \in DOMAIN old
                        BY <2>4, <3>1 DEF longer
                  <4>6. QED
                        BY <3>1, <4>1, <4>2, <4>3, <4>4, <4>5
            <3>2. \A k \in Kind : \A id \in DOMAIN exact[k] :
                     exact[k][id] \in DOMAIN declared /\ exact[k][id] < next'
                  BY <1>4 DEF Tables, Sound
            <3>3. QED
                  BY <1>3, <3>1, <3>2 DEF Tables, Sound
      <2>6. Complete'
            <3>1. SUFFICES ASSUME Clean(declared), NEW j \in DOMAIN declared, j < next'
                           PROVE  /\ declared[j].type = "EXACT" =>
                                        declared[j].id \in DOMAIN exact[declared[j].kind]
                                  /\ declared[j].type = "PREFIX" =>
                                        \E m \in DOMAIN prefixes'[declared[j].kind] :
                                            prefixes'[declared[j].kind][m].handler = j
                  BY <1>3 DEF Complete
            <3>2. CASE j = next
                  <4>1. /\ Len(old) + 1 \in DOMAIN prefixes'[d.kind]
                        /\ prefixes'[d.kind][Len(old) + 1].handler = next
                        BY <2>3, <2>4 DEF longer
                  <4>2. QED
                        BY <1>1, <3>2, <4>1 DEF d
            <3>3. CASE j < next
                  <4>1. declared[j].kind \in Kind
                        <5>1. declared \in Seq(Declaration)
                              BY CommandAtHand DEF Tables
                        <5>2. declared[j] \in Declaration
                              BY <5>1
                        <5>3. QED
                              BY <5>2 DEF Declaration
                  <4>2. \A m \in DOMAIN prefixes[declared[j].kind] :
                           /\ m \in DOMAIN prefixes'[declared[j].kind]
                           /\ prefixes'[declared[j].kind][m] = prefixes[declared[j].kind][m]
                        <5>1. CASE declared[j].kind = d.kind
                              BY <2>3, <2>4, <5>1 DEF old, longer
                        <5>2. CASE declared[j].kind # d.kind
                              BY <2>2, <4>1, <5>2
                        <5>3. QED
                              BY <5>1, <5>2
                  <4>3. QED
                        BY <3>1, <3>3, <4>2 DEF Tables, Complete
            <3>4. QED
                  BY <1>4, <3>1, <3>2, <3>3
      <2>7. QED
            BY <2>5, <2>6
<1>7. QED
      BY <1>5, <1>6 DEF AddPrefix, ThisHandler

LEMMA NextTables == Tables /\ [Next]_vars => Tables'
<1> SUFFICES ASSUME Tables, [Next]_vars PROVE Tables'
    OBVIOUS
<1>1. TypeOK' /\ Routed'
      BY NextRouterTyped, RoutedKept DEF Tables
<1>2. CASE Add
      <2>1. Sound' /\ Complete'
            BY <1>2, AddExactTables, AddPrefixTables DEF Add
      <2>2. QED
            BY <1>1, <2>1 DEF Tables
<1>3. CASE UNCHANGED <<declared, next, exact, prefixes>>
      BY <1>1, <1>3 DEF Tables, Sound, Complete
<1>4. QED
      BY <1>2, <1>3 DEF Next, Ready, vars

\* Without refusals each declared id is routed to its declaration.
LEMMA CleanRoutes ==
    ASSUME Tables, Clean(declared), Done, NEW i \in DOMAIN declared
    PROVE  Route(declared[i].kind, ConcreteId(declared[i])) = i
<1> DEFINE d == declared[i]
           id == ConcreteId(d)
<1>1. /\ declared \in Seq(Declaration) /\ next \in Nat /\ i \in Nat /\ i < next
      /\ d \in Declaration
      BY RouterAssumption DEF Tables, TypeOK, Done
<1>2. d.kind \in Kind /\ d.type \in {"EXACT", "PREFIX"} /\ d.id \in Seq(Fragment)
      <2> HIDE DEF d
      <2>1. QED
            BY <1>1 DEF Declaration, MatchType
<1>3. ASSUME NEW e \in DOMAIN exact[d.kind]
      PROVE  /\ exact[d.kind][e] \in DOMAIN declared
             /\ declared[exact[d.kind][e]].kind = d.kind
             /\ declared[exact[d.kind][e]].type = "EXACT"
             /\ declared[exact[d.kind][e]].id = e
      <2>1. declared[exact[d.kind][e]] = [kind |-> d.kind, id |-> e, type |-> "EXACT"]
            BY <1>2, <1>3 DEF Tables, Sound
      <2>2. exact[d.kind][e] \in DOMAIN declared
            BY <1>2, <1>3 DEF Tables, Sound
      <2> HIDE DEF d
      <2>3. QED
            BY <2>1, <2>2
<1>4. CASE d.type = "EXACT"
      <2>1. id = d.id /\ id \in DOMAIN exact[d.kind]
            BY <1>1, <1>4 DEF ConcreteId, Tables, Complete
      <2>2. exact[d.kind][id] = i
            BY <1>3, <1>4, <2>1 DEF Clean, Apart
      <2>3. QED
            BY <2>1, <2>2 DEF Route
<1>5. CASE d.type = "PREFIX"
      <2>1. id = Append(d.id, "|serverID")
            BY <1>5 DEF ConcreteId
      <2>2. id \notin DOMAIN exact[d.kind]
            BY <1>3, <1>5 DEF Clean, Apart
      <2>3. PICK m \in DOMAIN prefixes[d.kind] : prefixes[d.kind][m].handler = i
            BY <1>1, <1>5 DEF Tables, Complete
      <2>4. prefixes[d.kind][m].id = d.id
            <3>1. d = [kind |-> d.kind, id |-> prefixes[d.kind][m].id, type |-> "PREFIX"]
                  BY <1>2, <2>3 DEF Tables, Sound
            <3> HIDE DEF d
            <3>2. QED
                  BY <3>1
      <2> HIDE DEF d, id
      <2>5. StartsWith(id, d.id)
            BY <1>2, <2>1 DEF StartsWith
      <2>6. m \in Matches(d.kind, id)
            BY <2>4, <2>5 DEF Matches
      <2>7. \A n \in Matches(d.kind, id) : n = m
            <3>1. SUFFICES ASSUME NEW n \in Matches(d.kind, id) PROVE n = m
                  OBVIOUS
            <3>2. n \in DOMAIN prefixes[d.kind] /\ StartsWith(id, prefixes[d.kind][n].id)
                  BY DEF Matches
            <3>3. prefixes[d.kind][n].id \in Seq(Fragment)
                  <4>1. prefixes[d.kind] \in Seq(PrefixCommand)
                        BY <1>2 DEF Tables, Routed, Progress
                  <4>2. prefixes[d.kind][n] \in PrefixCommand
                        BY <3>2, <4>1
                  <4>3. QED
                        BY <4>2 DEF PrefixCommand
            <3>4. Len(prefixes[d.kind][n].id) \in Nat /\ Len(d.id) \in Nat
                  BY <1>2, <3>3
            <3>5. Conflicts(prefixes[d.kind][n].id, prefixes[d.kind][m].id)
                  BY <2>4, <2>5, <3>2, <3>4, PrefixesCompare
            <3>6. QED
                  BY <1>2, <2>3, <3>2, <3>5 DEF Tables, Routed, PrefixFree
      <2>8. m \in Nat
            <3>1. prefixes[d.kind] \in Seq([id : Seq(Fragment), handler : Nat \ {0}])
                  BY <1>2 DEF Tables, TypeOK
            <3>2. QED
                  BY <2>3, <3>1
      <2>9. (CHOOSE k \in Matches(d.kind, id) : \A n \in Matches(d.kind, id) : k <= n) = m
            BY <2>6, <2>7, <2>8
      <2>10. Route(d.kind, id) = i
            BY <2>2, <2>3, <2>6, <2>9 DEF Route
      <2>11. QED
            BY <2>10 DEF d, id
<1>6. QED
      BY <1>2, <1>4, <1>5

LEMMA TablesInvariant == Spec => []Tables
BY InitTables, NextTables, PTL DEF Spec

\* Whatever the components declare, as long as no two declarations of a kind get in
\* each other's way: every id a widget carries reaches the handler declared for it,
\* in whatever order the components are added.
THEOREM CleanProgramsServed ==
    Spec => [](Clean(declared) /\ Done =>
                  \A i \in DOMAIN declared :
                      Route(declared[i].kind, ConcreteId(declared[i])) = i)
<1>1. Tables => (Clean(declared) /\ Done =>
                    \A i \in DOMAIN declared :
                        Route(declared[i].kind, ConcreteId(declared[i])) = i)
      BY CleanRoutes
<1>2. QED
      BY <1>1, TablesInvariant, PTL

-----------------------------------------------------------------------------
(* The program's own declarations are of that kind. *)

LEMMA ProgramLength == Len(Program) = 20
BY DEF Program, LogCommands, PairCommands, YippeeCommands, ServerStatusCommands

LEMMA ProgramPlaces ==
    /\ Program[1] = Slash("setlogchannel") /\ Program[2] = Slash("pair")
    /\ Program[3] = Slash("shareagent") /\ Program[4] = Slash("yippee")
    /\ \A i \in 5 .. 20 : Program[i] = ServerStatusCommands[i - 4]
BY DEF Program, LogCommands, PairCommands, YippeeCommands, ServerStatusCommands

LEMMA SlashCommands ==
    /\ Program[1] = Slash("setlogchannel") /\ Program[2] = Slash("pair")
    /\ Program[3] = Slash("shareagent") /\ Program[4] = Slash("yippee")
    /\ Program[5] = Slash("setstatuschannel") /\ Program[17] = Slash("addserver")
    /\ Program[19] = Slash("removeserver")
BY ProgramPlaces DEF ServerStatusCommands

LEMMA ButtonCommands ==
    /\ Program[6] = Prefix("button", <<"Server", "StatusCustomButtonID">>)
    /\ Program[7] = Exact("button", <<"StatusWidgetSettingsButton">>)
    /\ Program[10] = Prefix("button", SettingsPrefix)
    /\ Program[11] = Prefix("button", <<"Server", "Settings", "AddCustomButton">>)
    /\ Program[13] = Prefix("button", <<"Server", "Settings", "RemoveCustomButton">>)
    /\ Program[15] = Exact("button", <<"AddServerButton">>)
    /\ Program[16] = Exact("button", <<"RemoveServerButton">>)
BY ProgramPlaces DEF ServerStatusCommands

LEMMA MenuCommands ==
    /\ Program[8] = Exact("select", <<"StatusWidgetSettingPinnedServerOption">>)
    /\ Program[9] = Exact("select", <<"StatusWidgetQueryServerOption">>)
    /\ Program[12] = Prefix("form", <<"Server", "Settings", "AddCustomButton", "Modal">>)
    /\ Program[14] = Prefix("select", <<"Server", "Settings", "RemoveCustomButton",
                                        "SelectOption">>)
    /\ Program[18] = Exact("form", <<"AddServerModal">>)
    /\ Program[20] = Exact("select", <<"RemoveServerSelectOption">>)
BY ProgramPlaces DEF ServerStatusCommands

LEMMA FragmentDiffers ==
    ASSUME NEW p, NEW q, NEW k \in Nat, Len(p) \in Nat, Len(q) \in Nat,
           k \in 1 .. Len(p), k \in 1 .. Len(q), p[k] # q[k]
    PROVE  ~Conflicts(p, q)
BY DEF Conflicts, StartsWith

LEMMA ProgramClean ==
    ASSUME DOMAIN Program = 1 .. 20
    PROVE  Clean(Program)
<1>1. \A i \in {1, 2, 3, 4, 5, 17, 19} : Program[i].kind = "slash" /\ Program[i].type = "EXACT"
      BY SlashCommands DEF Slash
<1>2. /\ \A i \in {6, 7, 10, 11, 13, 15, 16} : Program[i].kind = "button"
      /\ \A i \in {6, 10, 11, 13} : Program[i].type = "PREFIX"
      /\ \A i \in {7, 15, 16} : Program[i].type = "EXACT"
      BY ButtonCommands DEF Exact, Prefix
<1>3. /\ \A i \in {8, 9, 14, 20} : Program[i].kind = "select"
      /\ \A i \in {12, 18} : Program[i].kind = "form"
      /\ \A i \in {12, 14} : Program[i].type = "PREFIX"
      /\ \A i \in {8, 9, 18, 20} : Program[i].type = "EXACT"
      BY MenuCommands DEF Exact, Prefix
<1>4. \A i, j \in {1, 2, 3, 4, 5, 17, 19} : i # j => Program[i].id # Program[j].id
      <2>1. /\ Program[1].id[1] = "setlogchannel" /\ Program[2].id[1] = "pair"
            /\ Program[3].id[1] = "shareagent" /\ Program[4].id[1] = "yippee"
            /\ Program[5].id[1] = "setstatuschannel" /\ Program[17].id[1] = "addserver"
            /\ Program[19].id[1] = "removeserver"
            BY SlashCommands DEF Slash
      <2>2. QED
            BY <2>1
<1>5. /\ \A i, j \in {7, 15, 16} : i # j => Program[i].id # Program[j].id
      /\ \A i, j \in {8, 9, 20} : i # j => Program[i].id # Program[j].id
      <2>1. /\ Program[7].id[1] = "StatusWidgetSettingsButton"
            /\ Program[15].id[1] = "AddServerButton" /\ Program[16].id[1] = "RemoveServerButton"
            BY ButtonCommands DEF Exact
      <2>2. /\ Program[8].id[1] = "StatusWidgetSettingPinnedServerOption"
            /\ Program[9].id[1] = "StatusWidgetQueryServerOption"
            /\ Program[20].id[1] = "RemoveServerSelectOption"
            BY MenuCommands DEF Exact
      <2>3. QED
            BY <2>1, <2>2
<1>6. /\ ConcreteId(Program[6])[1] = "Server" /\ ConcreteId(Program[10])[1] = "Server"
      /\ ConcreteId(Program[11])[1] = "Server" /\ ConcreteId(Program[13])[1] = "Server"
      /\ ConcreteId(Program[12])[1] = "Server" /\ ConcreteId(Program[14])[1] = "Server"
      BY ButtonCommands, MenuCommands DEF Prefix, ConcreteId, SettingsPrefix
<1>7. \A i \in {7, 8, 9, 15, 16, 18, 20} : Program[i].id[1] # "Server"
      BY ButtonCommands, MenuCommands DEF Exact
<1>8. \A i, j \in {6, 10, 11, 13} : i # j => ~Conflicts(Program[i].id, Program[j].id)
      <2>1. /\ Len(Program[6].id) = 2 /\ Program[6].id[2] = "StatusCustomButtonID"
            /\ \A i \in {10, 11, 13} : Len(Program[i].id) = 3 /\ Program[i].id[2] = "Settings"
            /\ Program[10].id[3] = "ButtonID" /\ Program[11].id[3] = "AddCustomButton"
            /\ Program[13].id[3] = "RemoveCustomButton"
            BY ButtonCommands DEF Prefix, SettingsPrefix
      <2>2. \A i, j \in {10, 11, 13} : i # j => ~Conflicts(Program[i].id, Program[j].id)
            <3>1. \A i, j \in {10, 11, 13} : i # j => Program[i].id[3] # Program[j].id[3]
                  BY <2>1
            <3>2. \A i \in {10, 11, 13} : Len(Program[i].id) = 3
                  BY <2>1
            <3>3. QED
                  BY <3>1, <3>2, FragmentDiffers
      <2>3. \A i \in {10, 11, 13} : ~Conflicts(Program[6].id, Program[i].id)
            <3>1. \A i \in {10, 11, 13} :
                     Len(Program[i].id) = 3 /\ Program[6].id[2] # Program[i].id[2]
                  BY <2>1
            <3>2. QED
                  BY <2>1, <3>1, FragmentDiffers
      <2>4. QED
            BY <2>2, <2>3, ConflictsSymmetric
<1>9. SUFFICES ASSUME NEW i \in 1 .. 20, NEW j \in 1 .. 20, i # j,
                      Program[i].kind = Program[j].kind
               PROVE  Apart(Program[i], Program[j])
      BY DEF Clean
<1>10. CASE i \in {1, 2, 3, 4, 5, 17, 19}
      <2>1. j \in {1, 2, 3, 4, 5, 17, 19}
            BY <1>1, <1>2, <1>3, <1>9, <1>10
      <2>2. QED
            BY <1>1, <1>4, <1>9, <1>10, <2>1 DEF Apart
<1>11. CASE i \in {6, 7, 10, 11, 13, 15, 16}
      <2>1. j \in {6, 7, 10, 11, 13, 15, 16}
            BY <1>1, <1>2, <1>3, <1>9, <1>11
      <2>2. QED
            BY <1>2, <1>5, <1>6, <1>7, <1>8, <1>9, <1>11, <2>1 DEF Apart
<1>12. CASE i \in {8, 9, 14, 20}
      <2>1. j \in {8, 9, 14, 20}
            BY <1>1, <1>2, <1>3, <1>9, <1>12
      <2>2. QED
            BY <1>3, <1>5, <1>6, <1>7, <1>9, <1>12, <2>1 DEF Apart
<1>13. CASE i \in {12, 18}
      <2>1. j \in {12, 18}
            BY <1>1, <1>2, <1>3, <1>9, <1>13
      <2>2. QED
            BY <1>3, <1>6, <1>7, <1>9, <1>13, <2>1 DEF Apart
<1>14. QED
      BY <1>9, <1>10, <1>11, <1>12, <1>13

\* None of the program's own commands is refused or shadowed.
THEOREM ProgramCommandsServed == Spec => []ProgramServed
<1>1. ASSUME Tables PROVE ProgramServed
      <2>1. SUFFICES ASSUME declared = Program, Done, NEW i \in DOMAIN Program
                     PROVE  Route(Program[i].kind, ConcreteId(Program[i])) = i
            BY DEF ProgramServed
      <2>2. declared \in Seq(Declaration)
            BY <1>1, RouterAssumption DEF Tables, TypeOK
      <2>3. DOMAIN Program = 1 .. 20
            BY <2>1, <2>2, ProgramLength
      <2>4. Clean(declared)
            BY <2>1, <2>3, ProgramClean
      <2>5. QED
            BY <1>1, <2>1, <2>4, CleanRoutes
<1>2. QED
      BY <1>1, TablesInvariant, PTL
==============================================================================
