----------------------------- MODULE AgentWidget -----------------------------
(***************************************************************************)
(* The widget of each guild that shows whether its agent is connected:     *)
(* AgentRegistry, and what ServerStatusComponent does with it.  The widget *)
(* is drawn by /setstatuschannel, by the notices of the registry and by a  *)
(* timer.  Each of them reads the registry and the session at one moment,  *)
(* and Discord applies what was drawn at another, in no particular order.  *)
(*                                                                         *)
(* StatusChannel tells in full how the message comes and goes; here        *)
(* commands follow each other.                                             *)
(***************************************************************************)
EXTENDS AgentRegistry

CONSTANTS
    MaxMessages,    \* bound: widgets posted for one guild
    MaxFailures     \* bound: edits and posts refused, ticks that throw, restarts

ASSUME AgentWidgetAssumption == MaxMessages \in Nat /\ MaxFailures \in Nat

VARIABLES
    command,    \* /setstatuschannel: where it stands, per guild
    message,    \* agentMessageID of each guild's configuration, 0 for none
    made,       \* how many widgets have been posted, per guild: the last one's id
    live,       \* Discord: whether that one is there, and not forgotten
    shows,      \* Discord: whether it says "Connected"
    edits,      \* message_edit calls not yet applied (equal ones count once)
    subscribed, \* whether the component is there: the registry listens before
    running,    \* m_agentStatusUpdateRunning
    ticking,    \* whether a tick of the timer is at work
    todo,       \* the rest of the snapshot the timer goes through
    awaited,    \* the edit the timer waits for
    failures    \* failures so far

commandVars == <<command, message, made, live>>
timerVars == <<subscribed, running, ticking, todo, awaited>>
widgetVars == <<commandVars, shows, edits, timerVars, failures>>
allVars == <<vars, widgetVars>>

NoEdit == [none |-> TRUE]

WidgetInit ==
    /\ Init
    /\ command = [g \in Guild |-> "none"]
    /\ message = [g \in Guild |-> 0]
    /\ made = [g \in Guild |-> 0]
    /\ live = [g \in Guild |-> FALSE]
    /\ shows = [g \in Guild |-> FALSE]
    /\ edits = {}
    /\ subscribed = FALSE
    /\ running = FALSE /\ ticking = FALSE /\ todo = {} /\ awaited = NoEdit
    /\ failures = 0

Fails == failures < MaxFailures /\ failures' = failures + 1

-----------------------------------------------------------------------------
(* What is drawn, and where *)

\* connectedAgent: the session listed for the guild, perhaps over already.
connectedAgent(g) == byGuild[g]

\* getAgentStatusWidget: whether the session is connected is read when it is
\* drawn, not when it was listed or announced.
getAgentStatusWidget(x) == x # None /\ Connected(x)

\* The widget of g, as session x makes it look, for the message recorded now.
Drawn(g, x) == [guild |-> g, message |-> message[g], connected |-> getAgentStatusWidget(x)]

\* Discord applies an edit to a message that is still there and refuses others.
Applied(e) ==
    shows' = IF live[e.guild] /\ made[e.guild] = e.message
             THEN [shows EXCEPT ![e.guild] = e.connected]
             ELSE shows

-----------------------------------------------------------------------------
(* /setstatuschannel and the deletions, as far as the agent widget goes *)

\* The previous widget is forgotten.  Discord is asked to delete it; whether it
\* does no longer matters here, where live and shows are of the newest widget.
SetStatusChannel(g) ==
    /\ subscribed /\ command[g] = "none"
    /\ made[g] < MaxMessages
    /\ command' = [command EXCEPT ![g] = "draw"]
    /\ message' = [message EXCEPT ![g] = 0]
    /\ live' = [live EXCEPT ![g] = FALSE]
    /\ shows' = [shows EXCEPT ![g] = FALSE]
    /\ UNCHANGED <<made, edits, timerVars, failures>>

\* The widget is drawn: what it shows is what Discord will post.
DrawWidget(g) ==
    /\ command[g] = "draw"
    /\ command' = [command EXCEPT ![g] = "post"]
    /\ shows' = [shows EXCEPT ![g] = getAgentStatusWidget(connectedAgent(g))]
    /\ UNCHANGED <<message, made, live, edits, timerVars, failures>>

\* Discord posts it, or reports an error and the command ends.
PostWidget(g) ==
    /\ command[g] = "post"
    /\ \/ /\ command' = [command EXCEPT ![g] = "record"]
          /\ made' = [made EXCEPT ![g] = @ + 1]
          /\ live' = [live EXCEPT ![g] = TRUE]
          /\ UNCHANGED failures
       \/ /\ Fails
          /\ command' = [command EXCEPT ![g] = "none"]
          /\ UNCHANGED <<made, live>>
    /\ UNCHANGED <<message, shows, edits, timerVars>>

\* Its id is recorded: from now on it is edited.
RecordWidget(g) ==
    /\ command[g] = "record"
    /\ command' = [command EXCEPT ![g] = "none"]
    /\ message' = [message EXCEPT ![g] = made[g]]
    /\ UNCHANGED <<made, live, shows, edits, timerVars, failures>>

\* The server widget failed, or the channel or a widget was deleted: the
\* configuration goes, or the id it recorded.  The message may stay, as one that
\* nothing records, and is no longer followed.
EraseWidget(g) ==
    /\ subscribed /\ message[g] # 0
    /\ message' = [message EXCEPT ![g] = 0]
    /\ live' = [live EXCEPT ![g] = FALSE]
    /\ shows' = [shows EXCEPT ![g] = FALSE]
    /\ UNCHANGED <<command, made, edits, timerVars, failures>>

Build(g) == DrawWidget(g) \/ PostWidget(g) \/ RecordWidget(g)

-----------------------------------------------------------------------------
(* The notices of the registry *)

\* Variation: the id of the message is taken to be there.
UncheckedEdit(g, x) == {Drawn(g, x)}

\* updateAgentStatusWidget: an edit, unless no message is recorded.
updateAgentStatusWidget(g, x) == IF message[g] = 0 THEN {} ELSE {Drawn(g, x)}

\* Agents that connected while the configurations were loaded were announced to
\* nobody.
Subscribe ==
    /\ ~subscribed
    /\ subscribed' = TRUE
    /\ UNCHANGED <<commandVars, shows, edits, running, ticking, todo, awaited, failures>>

NotifyWidget(p) ==
    /\ Notify(p)
    /\ LET n == Head(notices[p])
       IN  edits' = IF subscribed THEN edits \cup updateAgentStatusWidget(n.guild, n.agent)
                    ELSE edits
    /\ UNCHANGED <<commandVars, shows, timerVars, failures>>

\* An edit reaches Discord, which may refuse it: nothing is done about that.
Arrive(e) ==
    /\ edits' = edits \ {e}
    /\ \/ Applied(e) /\ UNCHANGED failures
       \/ Fails /\ UNCHANGED shows
    /\ UNCHANGED <<commandVars, timerVars>>

-----------------------------------------------------------------------------
(* The timer.  A tick that finds the last one running does nothing. *)

Tick ==
    /\ subscribed /\ ~running
    /\ running' = TRUE /\ ticking' = TRUE
    /\ todo' = Guild
    /\ UNCHANGED <<commandVars, shows, edits, subscribed, awaited, failures>>

\* updateAgentStatusWidgets: the next configuration, in the cache's own order.
Refresh(g) ==
    /\ g \in todo /\ awaited = NoEdit
    /\ todo' = todo \ {g}
    /\ awaited' = IF message[g] = 0 THEN NoEdit ELSE Drawn(g, connectedAgent(g))
    /\ UNCHANGED <<commandVars, shows, edits, subscribed, running, ticking, failures>>

\* Discord answers the edit that is waited for.
Answer ==
    /\ awaited # NoEdit
    /\ awaited' = NoEdit
    /\ \/ Applied(awaited) /\ UNCHANGED failures
       \/ Fails /\ UNCHANGED shows
    /\ UNCHANGED <<commandVars, edits, subscribed, running, ticking, todo>>

\* Variation: an exception leaves the flag set.
ResetUnlessThrown(thrown) == thrown

\* The flag after a tick, ended by an exception or not.
Reset(thrown) == FALSE

\* The tick ends, or something throws and the rest of it is given up.
EndTick ==
    /\ ticking /\ awaited = NoEdit
    /\ \/ todo = {} /\ running' = Reset(FALSE) /\ UNCHANGED failures
       \/ Fails /\ running' = Reset(TRUE)
    /\ ticking' = FALSE /\ todo' = {}
    /\ UNCHANGED <<commandVars, shows, edits, subscribed, awaited>>

Timer == Tick \/ (\E g \in Guild : Refresh(g)) \/ Answer \/ EndTick

-----------------------------------------------------------------------------
(* The process ends and starts again *)

\* The ids that may be in the document of g: the recorded one if the command that
\* built the widget saved it, or that of a widget which is no longer there.
Stored(g) ==
    {0} \cup CASE command[g] = "none"   -> {message[g]}
               [] command[g] = "record" -> {made[g] - 1}
               [] OTHER                 -> {made[g]}

\* Commands and the tick end where they are, the documents are loaded, and the
\* timer is set anew.  What was sent to Discord may still arrive.
RestartWidget ==
    /\ Restart
    /\ Fails
    /\ message' \in [Guild -> 0 .. MaxMessages]
    /\ \A g \in Guild : message'[g] \in Stored(g)
    /\ command' = [g \in Guild |-> "none"]
    /\ edits' \in {{}, (edits \cup {awaited}) \ {NoEdit}}
    /\ subscribed' = FALSE
    /\ running' = FALSE /\ ticking' = FALSE /\ todo' = {} /\ awaited' = NoEdit
    /\ UNCHANGED <<made, live, shows>>

-----------------------------------------------------------------------------
RegistryStep ==
    /\ \/ \E a \in Agent : Connect(a)
       \/ \E x \in alive : Disconnect(x)
       \/ Request
       \/ Serve
    /\ UNCHANGED widgetVars

WidgetStep ==
    /\ \/ \E g \in Guild : SetStatusChannel(g) \/ Build(g) \/ EraseWidget(g)
       \/ \E e \in edits : Arrive(e)
       \/ Subscribe \/ Timer
    /\ UNCHANGED vars

WidgetNext ==
    \/ RegistryStep
    \/ \E p \in Caller : NotifyWidget(p)
    \/ WidgetStep
    \/ RestartWidget

(***************************************************************************)
(* Threads run on, Discord answers every call in the end, and the timer    *)
(* fires again.  Nobody has to connect or set a channel.                   *)
(***************************************************************************)
Fairness ==
    /\ WF_allVars(UNCHANGED widgetVars /\ Serve)
    /\ WF_allVars(\E p \in Caller : NotifyWidget(p))
    /\ WF_allVars(UNCHANGED vars /\ \E g \in Guild : Build(g))
    /\ WF_allVars(UNCHANGED vars /\ \E e \in edits : Arrive(e))
    /\ WF_allVars(UNCHANGED vars /\ (Subscribe \/ Timer))

WidgetSpec == WidgetInit /\ [][WidgetNext]_allVars /\ Fairness

-----------------------------------------------------------------------------
(* Properties *)

Edit == [guild : Guild, message : 1 .. MaxMessages, connected : BOOLEAN]

\* Every variable of the widgets has its type.
WidgetTypeOK ==
    /\ command \in [Guild -> {"none", "draw", "post", "record"}]
    /\ message \in [Guild -> 0 .. MaxMessages]
    /\ made \in [Guild -> 0 .. MaxMessages]
    /\ live \in [Guild -> BOOLEAN] /\ shows \in [Guild -> BOOLEAN]
    /\ edits \subseteq Edit
    /\ subscribed \in BOOLEAN /\ running \in BOOLEAN /\ ticking \in BOOLEAN /\ todo \subseteq Guild
    /\ awaited \in Edit \cup {NoEdit}
    /\ failures \in 0 .. MaxFailures

\* Some agent the guild is assigned to is connected.
Served(g) == \E x \in alive : x[1] \in Owners(g)

\* A widget ends up showing whether its guild's agent is connected: whatever was
\* announced out of order, or before anybody listened or the message was recorded,
\* was drawn for a message that was replaced or deleted, or was refused, and
\* although a tick of the timer may have ended in an exception, or the process in
\* the middle of anything.  It shows that of the session the registry lists,
\* which is the right one unless the map was written from assignments that had
\* changed, or the database failed.
WidgetSettles ==
    \A g \in Guild :
        <>[](live[g] /\ message[g] = made[g] =>
                /\ shows[g] = getAgentStatusWidget(connectedAgent(g))
                /\ ~stale /\ errors = 0 => shows[g] = Served(g))
=============================================================================
