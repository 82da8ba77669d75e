--------------------------- MODULE WidgetLifecycle ---------------------------
(***************************************************************************)
(* What the status channel of a guild promises, without handlers, locks,   *)
(* cache or collection: commands take the guild over one after the other,  *)
(* only the one that took it last can finish, and a guild that is ready    *)
(* shows the agent and the server widget of one command, in the channel    *)
(* that command asked for.                                                 *)
(***************************************************************************)
CONSTANTS Command, Channel, Boot, None

VARIABLES
    phase,      \* "absent", "building", "ready" or "broken" (a failed build)
    owner,      \* the command that builds, None when none does
    place,      \* the channel of the widgets
    shown,      \* the widgets the configuration records when it is ready
    begun       \* the commands that can no longer take the guild over

vars == <<phase, owner, place, shown, begun>>

Pair(by, ch) == {[by |-> by, kind |-> k, channel |-> ch] : k \in {"agent", "server"}}

Init ==
    /\ owner = None
    /\ begun = {}
    /\ \/ phase = "absent" /\ place = None /\ shown = {}
       \/ \E ch \in Channel :
             phase = "ready" /\ place = ch /\ shown = Pair(Boot, ch)

\* A command takes the guild over, whatever its state.
Begin(c, ch) ==
    /\ c \notin begun
    /\ begun' = begun \cup {c}
    /\ phase' = "building"
    /\ owner' = c
    /\ place' = ch
    /\ shown' = {}

\* A command ends, or goes on with an object nobody else sees, to no effect.
Miss(c) ==
    /\ c \notin begun
    /\ begun' = begun \cup {c}
    /\ UNCHANGED <<phase, owner, place, shown>>

Publish(c) ==
    /\ owner = c
    /\ phase' = "ready"
    /\ owner' = None
    /\ shown' = Pair(c, place)
    /\ UNCHANGED <<place, begun>>

Fail(c) ==
    /\ owner = c
    /\ phase' = "broken"
    /\ owner' = None
    /\ shown' = {}
    /\ UNCHANGED <<place, begun>>

\* A user deleted the channel or a widget.
Erase ==
    /\ phase # "absent"
    /\ phase' = "absent"
    /\ owner' = None
    /\ place' = None
    /\ shown' = {}
    /\ UNCHANGED begun

Next ==
    \/ \E c \in Command :
          \/ \E ch \in Channel : Begin(c, ch)
          \/ Miss(c) \/ Publish(c) \/ Fail(c)
    \/ Erase

Spec == Init /\ [][Next]_vars
=============================================================================
