-------------------------- MODULE AgentWidgetProofs --------------------------
(***************************************************************************)
(* Theorems about AgentWidget, for any guilds, agents and sessions, any    *)
(* order of commands, notices, ticks and answers, and any failures.        *)
(***************************************************************************)
EXTENDS AgentWidget, AgentRegistryProofs

\* A step of the widgets is one of the registry, or leaves it as it is.
LEMMA RegistryStepped == [WidgetNext]_allVars => [Next]_vars
<1> SUFFICES ASSUME [WidgetNext]_allVars PROVE [Next]_vars
  OBVIOUS
<1>1. CASE RegistryStep
  BY <1>1 DEF RegistryStep, Next
<1>2. CASE \E p \in Caller : NotifyWidget(p)
  BY <1>2 DEF NotifyWidget, Next
<1>3. CASE WidgetStep
  BY <1>3 DEF WidgetStep
<1>4. CASE RestartWidget
  BY <1>4 DEF RestartWidget, Next
<1>5. CASE UNCHANGED allVars
  BY <1>5 DEF allVars
<1> QED
  BY <1>1, <1>2, <1>3, <1>4, <1>5 DEF WidgetNext

\* The registry behaves with the widgets as it does alone, so that whatever is
\* proved of AgentRegistry holds here: the widgets only read it, and take the
\* notices it gives.
THEOREM RegistryImplemented == WidgetSpec => Spec
<1>1. WidgetInit => Init
  BY DEF WidgetInit
<1> QED
  BY <1>1, RegistryStepped, PTL DEF WidgetSpec, Spec

-----------------------------------------------------------------------------
(* The types, and what keeps them *)

\* A command has forgotten the last widget before it draws the next, which it may
\* still post: no notice and no tick finds a message to edit meanwhile.
CommandsOK ==
    \A g \in Guild :
       /\ command[g] # "none" => message[g] = 0
       /\ command[g] \in {"draw", "post"} => ~live[g] /\ made[g] < MaxMessages

\* What is recorded, and what an edit names, has been posted for that guild.
PostedOK ==
    /\ \A g \in Guild : message[g] <= made[g]
    /\ \A e \in edits : e.message <= made[e.guild]
    /\ awaited # NoEdit => awaited.message <= made[awaited.guild]

\* The flag of the timer stands for a tick at work, and only a tick has something
\* to go through or to wait for.
TimerOK ==
    /\ running = ticking
    /\ ~ticking => todo = {} /\ awaited = NoEdit

WidgetsInv == WidgetTypeOK /\ CommandsOK /\ PostedOK /\ TimerOK

\* What is drawn for a message that is recorded is an edit of one that was posted.
LEMMA DrawnType ==
    ASSUME WidgetsInv, NEW g \in Guild, NEW x, message[g] # 0
    PROVE  /\ Drawn(g, x) \in Edit /\ Drawn(g, x) # NoEdit
           /\ Drawn(g, x).guild = g /\ Drawn(g, x).message = message[g]
           /\ Drawn(g, x).message <= made[Drawn(g, x).guild]
<1>1. message[g] \in 1 .. MaxMessages
  BY AgentWidgetAssumption DEF WidgetsInv, WidgetTypeOK
<1>2. getAgentStatusWidget(x) \in BOOLEAN
  BY DEF getAgentStatusWidget, Connected
<1>3. Drawn(g, x) \in Edit
  BY <1>1, <1>2 DEF Drawn, Edit
<1>4. Drawn(g, x).guild = g /\ Drawn(g, x).message = message[g]
  BY DEF Drawn
<1>5. Drawn(g, x) # NoEdit
  BY <1>4 DEF Drawn, NoEdit
<1> QED
  BY <1>3, <1>4, <1>5 DEF WidgetsInv, PostedOK

LEMMA EditType ==
    ASSUME NEW e \in Edit
    PROVE  e.guild \in Guild /\ e.message \in 1 .. MaxMessages /\ e.connected \in BOOLEAN /\ e # NoEdit
<1>1. e.guild \in Guild /\ e.message \in 1 .. MaxMessages /\ e.connected \in BOOLEAN
  BY DEF Edit
<1>2. DOMAIN e = {"guild", "message", "connected"}
  BY DEF Edit
<1> QED
  BY <1>1, <1>2 DEF NoEdit

\* An edit changes what one message shows, or nothing.
LEMMA AppliedType ==
    ASSUME WidgetsInv, NEW e \in Edit, Applied(e) \/ UNCHANGED shows
    PROVE  shows' \in [Guild -> BOOLEAN]
<1>1. shows \in [Guild -> BOOLEAN] /\ e.connected \in BOOLEAN
  BY EditType DEF WidgetsInv, WidgetTypeOK
<1> QED
  BY <1>1 DEF Applied

LEMMA FailsType ==
    ASSUME WidgetsInv, Fails \/ UNCHANGED failures
    PROVE  failures' \in 0 .. MaxFailures
BY AgentWidgetAssumption DEF WidgetsInv, WidgetTypeOK, Fails

\* The variables of the widgets, one by one.
LEMMA TypeOf ==
    ASSUME WidgetsInv
    PROVE  /\ command \in [Guild -> {"none", "draw", "post", "record"}]
           /\ message \in [Guild -> 0 .. MaxMessages] /\ made \in [Guild -> 0 .. MaxMessages]
           /\ live \in [Guild -> BOOLEAN] /\ shows \in [Guild -> BOOLEAN]
           /\ edits \subseteq Edit /\ awaited \in Edit \cup {NoEdit}
           /\ \A g \in Guild : made[g] \in Nat
BY AgentWidgetAssumption DEF WidgetsInv, WidgetTypeOK

LEMMA WidgetsInitially == WidgetInit => WidgetsInv
<1> SUFFICES ASSUME WidgetInit PROVE WidgetsInv
  OBVIOUS
<1>1. \A g \in Guild : command[g] = "none" /\ message[g] = 0 /\ made[g] = 0
  BY DEF WidgetInit
<1>2. edits = {} /\ todo = {} /\ awaited = NoEdit
  BY DEF WidgetInit
<1>3. running = FALSE /\ ticking = FALSE /\ subscribed = FALSE
  BY DEF WidgetInit
<1>4. WidgetTypeOK
  <2>1. /\ command \in [Guild -> {"none", "draw", "post", "record"}]
        /\ message \in [Guild -> 0 .. MaxMessages] /\ made \in [Guild -> 0 .. MaxMessages]
        /\ failures \in 0 .. MaxFailures
    BY AgentWidgetAssumption DEF WidgetInit
  <2>2. live \in [Guild -> BOOLEAN] /\ shows \in [Guild -> BOOLEAN]
    BY DEF WidgetInit
  <2> QED
    BY <1>2, <1>3, <2>1, <2>2 DEF WidgetTypeOK
<1>5. CommandsOK
  BY <1>1 DEF CommandsOK
<1>6. PostedOK
  BY <1>1, <1>2 DEF PostedOK
<1>7. TimerOK
  BY <1>2, <1>3 DEF TimerOK
<1> QED
  BY <1>4, <1>5, <1>6, <1>7 DEF WidgetsInv

-----------------------------------------------------------------------------
(* Commands and deletions *)

LEMMA SetStatusChannelKeeps ==
    ASSUME WidgetsInv, NEW g \in Guild, SetStatusChannel(g)
    PROVE  WidgetsInv'
<1>1. WidgetTypeOK'
  BY TypeOf, AgentWidgetAssumption DEF WidgetsInv, WidgetTypeOK, SetStatusChannel, timerVars
<1>2. CommandsOK'
  BY TypeOf DEF WidgetsInv, CommandsOK, SetStatusChannel
<1>3. PostedOK'
  BY TypeOf DEF WidgetsInv, PostedOK, SetStatusChannel, timerVars
<1>4. TimerOK'
  BY DEF WidgetsInv, TimerOK, SetStatusChannel, timerVars
<1> QED
  BY <1>1, <1>2, <1>3, <1>4 DEF WidgetsInv

LEMMA DrawWidgetKeeps ==
    ASSUME WidgetsInv, NEW g \in Guild, DrawWidget(g)
    PROVE  WidgetsInv'
<1>1. getAgentStatusWidget(connectedAgent(g)) \in BOOLEAN
  BY DEF getAgentStatusWidget, Connected
<1>2. WidgetTypeOK'
  BY <1>1, TypeOf DEF WidgetsInv, WidgetTypeOK, DrawWidget, timerVars
<1>3. CommandsOK'
  BY TypeOf DEF WidgetsInv, CommandsOK, DrawWidget
<1>4. PostedOK' /\ TimerOK'
  BY DEF WidgetsInv, PostedOK, TimerOK, DrawWidget, timerVars
<1> QED
  BY <1>2, <1>3, <1>4 DEF WidgetsInv

LEMMA PostWidgetKeeps ==
    ASSUME WidgetsInv, NEW g \in Guild, PostWidget(g)
    PROVE  WidgetsInv'
<1>1. made[g] \in Nat /\ made[g] < MaxMessages /\ made[g] + 1 \in 0 .. MaxMessages
  BY TypeOf, AgentWidgetAssumption DEF WidgetsInv, CommandsOK, PostWidget
<1>2. /\ command' \in [Guild -> {"none", "draw", "post", "record"}]
      /\ command'[g] \in {"none", "record"}
      /\ \A h \in Guild \ {g} : command'[h] = command[h]
  BY TypeOf DEF PostWidget
<1>3. /\ made' \in [Guild -> 0 .. MaxMessages] /\ made[g] <= made'[g]
      /\ \A h \in Guild \ {g} : made'[h] = made[h]
  BY <1>1, TypeOf DEF PostWidget
<1>4. live' \in [Guild -> BOOLEAN] /\ \A h \in Guild \ {g} : live'[h] = live[h]
  BY TypeOf DEF PostWidget
<1>5. UNCHANGED <<message, shows, edits, timerVars>> /\ (Fails \/ UNCHANGED failures)
  BY DEF PostWidget
<1>6. WidgetTypeOK'
  BY <1>2, <1>3, <1>4, <1>5, FailsType DEF WidgetsInv, WidgetTypeOK, timerVars
<1>7. command[g] = "post" /\ message[g] = 0
  BY DEF WidgetsInv, CommandsOK, PostWidget
<1>8. CommandsOK'
  BY <1>2, <1>3, <1>4, <1>5, <1>7 DEF WidgetsInv, CommandsOK
<1>9. \A h \in Guild : made[h] \in Nat /\ made'[h] \in Nat /\ made[h] <= made'[h]
  BY <1>3, TypeOf, AgentWidgetAssumption
<1>10. PostedOK'
  <2>1. \A h \in Guild : message'[h] \in Nat /\ message'[h] <= made'[h]
    BY <1>5, <1>9, TypeOf, AgentWidgetAssumption DEF WidgetsInv, PostedOK
  <2>2. ASSUME NEW e \in Edit, e.message <= made[e.guild] PROVE e.message <= made'[e.guild]
    BY <1>9, <2>2, EditType, AgentWidgetAssumption
  <2> QED
    BY <1>5, <2>1, <2>2, TypeOf DEF WidgetsInv, PostedOK, timerVars
<1>11. TimerOK'
  BY <1>5 DEF WidgetsInv, TimerOK, timerVars
<1> QED
  BY <1>6, <1>8, <1>10, <1>11 DEF WidgetsInv

LEMMA RecordWidgetKeeps ==
    ASSUME WidgetsInv, NEW g \in Guild, RecordWidget(g)
    PROVE  WidgetsInv'
<1>1. WidgetTypeOK'
  BY TypeOf DEF WidgetsInv, WidgetTypeOK, RecordWidget, timerVars
<1>2. CommandsOK'
  BY TypeOf DEF WidgetsInv, CommandsOK, RecordWidget
<1>3. PostedOK'
  BY TypeOf DEF WidgetsInv, PostedOK, RecordWidget, timerVars
<1>4. TimerOK'
  BY DEF WidgetsInv, TimerOK, RecordWidget, timerVars
<1> QED
  BY <1>1, <1>2, <1>3, <1>4 DEF WidgetsInv

LEMMA EraseWidgetKeeps ==
    ASSUME WidgetsInv, NEW g \in Guild, EraseWidget(g)
    PROVE  WidgetsInv'
<1>1. WidgetTypeOK'
  BY TypeOf, AgentWidgetAssumption DEF WidgetsInv, WidgetTypeOK, EraseWidget, timerVars
<1>2. CommandsOK'
  BY TypeOf DEF WidgetsInv, CommandsOK, EraseWidget
<1>3. PostedOK'
  BY TypeOf DEF WidgetsInv, PostedOK, EraseWidget, timerVars
<1>4. TimerOK'
  BY DEF WidgetsInv, TimerOK, EraseWidget, timerVars
<1> QED
  BY <1>1, <1>2, <1>3, <1>4 DEF WidgetsInv

-----------------------------------------------------------------------------
(* Notices and edits *)

LEMMA SubscribeKeeps ==
    ASSUME WidgetsInv, Subscribe
    PROVE  WidgetsInv'
<1>1. WidgetTypeOK'
  BY DEF WidgetsInv, WidgetTypeOK, Subscribe, commandVars
<1>2. CommandsOK' /\ PostedOK' /\ TimerOK'
  BY DEF WidgetsInv, CommandsOK, PostedOK, TimerOK, Subscribe, commandVars
<1> QED
  BY <1>1, <1>2 DEF WidgetsInv

\* The registry's notices name guilds, so that the edit has a message.
LEMMA NotifyWidgetKeeps ==
    ASSUME Typed, WidgetsInv, NEW p \in Caller, NotifyWidget(p)
    PROVE  WidgetsInv'
<1> DEFINE n == Head(notices[p])
<1>1. /\ edits' = IF subscribed THEN edits \cup updateAgentStatusWidget(n.guild, n.agent) ELSE edits
      /\ UNCHANGED <<commandVars, shows, timerVars, failures>>
  BY DEF NotifyWidget
<1>2. n.guild \in Guild
  BY NotifyEffect DEF NotifyWidget, Notice
<1> HIDE DEF n
<1>3. \A e \in updateAgentStatusWidget(n.guild, n.agent) : e \in Edit /\ e.message <= made[e.guild]
  BY <1>2, DrawnType DEF updateAgentStatusWidget
<1>4. \A e \in edits' : e \in Edit /\ e.message <= made[e.guild]
  BY <1>1, <1>3, TypeOf DEF WidgetsInv, PostedOK
<1>5. WidgetTypeOK'
  BY <1>1, <1>4 DEF WidgetsInv, WidgetTypeOK, commandVars, timerVars
<1>6. CommandsOK' /\ PostedOK' /\ TimerOK'
  BY <1>1, <1>4 DEF WidgetsInv, CommandsOK, PostedOK, TimerOK, commandVars, timerVars
<1> QED
  BY <1>5, <1>6 DEF WidgetsInv

LEMMA ArriveKeeps ==
    ASSUME WidgetsInv, NEW e \in edits, Arrive(e)
    PROVE  WidgetsInv'
<1>1. e \in Edit
  BY TypeOf
<1>2. /\ edits' = edits \ {e} /\ (Applied(e) \/ UNCHANGED shows) /\ (Fails \/ UNCHANGED failures)
      /\ UNCHANGED <<commandVars, timerVars>>
  BY DEF Arrive
<1>3. shows' \in [Guild -> BOOLEAN] /\ failures' \in 0 .. MaxFailures
  BY <1>1, <1>2, AppliedType, FailsType
<1>4. WidgetTypeOK'
  BY <1>2, <1>3 DEF WidgetsInv, WidgetTypeOK, commandVars, timerVars
<1>5. CommandsOK' /\ PostedOK' /\ TimerOK'
  BY <1>2 DEF WidgetsInv, CommandsOK, PostedOK, TimerOK, commandVars, timerVars
<1> QED
  BY <1>4, <1>5 DEF WidgetsInv

-----------------------------------------------------------------------------
(* The timer *)

LEMMA TickKeeps ==
    ASSUME WidgetsInv, Tick
    PROVE  WidgetsInv'
<1>1. WidgetTypeOK'
  BY DEF WidgetsInv, WidgetTypeOK, Tick, commandVars
<1>2. CommandsOK' /\ PostedOK' /\ TimerOK'
  BY DEF WidgetsInv, CommandsOK, PostedOK, TimerOK, Tick, commandVars
<1> QED
  BY <1>1, <1>2 DEF WidgetsInv

LEMMA RefreshKeeps ==
    ASSUME WidgetsInv, NEW g \in Guild, Refresh(g)
    PROVE  WidgetsInv'
<1>1. /\ g \in todo /\ todo' = todo \ {g}
      /\ awaited' = IF message[g] = 0 THEN NoEdit ELSE Drawn(g, connectedAgent(g))
      /\ UNCHANGED <<commandVars, shows, edits, subscribed, running, ticking, failures>>
  BY DEF Refresh
<1>2. awaited' # NoEdit => awaited' \in Edit /\ awaited'.message <= made[awaited'.guild]
  BY <1>1, DrawnType
<1>3. WidgetTypeOK'
  BY <1>1, <1>2 DEF WidgetsInv, WidgetTypeOK, commandVars
<1>4. CommandsOK' /\ PostedOK'
  BY <1>1, <1>2 DEF WidgetsInv, CommandsOK, PostedOK, commandVars
<1>5. TimerOK'
  BY <1>1 DEF WidgetsInv, TimerOK
<1> QED
  BY <1>3, <1>4, <1>5 DEF WidgetsInv

LEMMA AnswerKeeps ==
    ASSUME WidgetsInv, Answer
    PROVE  WidgetsInv'
<1>1. awaited \in Edit
  BY TypeOf DEF Answer
<1>2. /\ awaited' = NoEdit
      /\ (Applied(awaited) \/ UNCHANGED shows) /\ (Fails \/ UNCHANGED failures)
      /\ UNCHANGED <<commandVars, edits, subscribed, running, ticking, todo>>
  BY DEF Answer
<1>3. shows' \in [Guild -> BOOLEAN] /\ failures' \in 0 .. MaxFailures
  BY <1>1, <1>2, AppliedType, FailsType
<1>4. WidgetTypeOK'
  BY <1>2, <1>3 DEF WidgetsInv, WidgetTypeOK, commandVars
<1>5. CommandsOK' /\ PostedOK' /\ TimerOK'
  BY <1>2 DEF WidgetsInv, CommandsOK, PostedOK, TimerOK, commandVars
<1> QED
  BY <1>4, <1>5 DEF WidgetsInv

LEMMA EndTickKeeps ==
    ASSUME WidgetsInv, EndTick
    PROVE  WidgetsInv'
<1>1. /\ awaited = NoEdit /\ running' = FALSE /\ ticking' = FALSE /\ todo' = {}
      /\ (Fails \/ UNCHANGED failures)
      /\ UNCHANGED <<commandVars, shows, edits, subscribed, awaited>>
  BY DEF EndTick, Reset
<1>2. WidgetTypeOK'
  BY <1>1, FailsType DEF WidgetsInv, WidgetTypeOK, commandVars
<1>3. CommandsOK' /\ PostedOK' /\ TimerOK'
  BY <1>1 DEF WidgetsInv, CommandsOK, PostedOK, TimerOK, commandVars
<1> QED
  BY <1>2, <1>3 DEF WidgetsInv

-----------------------------------------------------------------------------
(* Restart *)

\* The documents name a widget that was posted, or none.
LEMMA StoredPosted ==
    ASSUME WidgetsInv, NEW g \in Guild, NEW m \in Stored(g)
    PROVE  m <= made[g]
<1>1. made[g] \in Nat /\ message[g] <= made[g]
  BY TypeOf DEF WidgetsInv, PostedOK
<1>2. command[g] \in {"none", "draw", "post", "record"}
  BY TypeOf
<1>3. CASE command[g] = "none"
  BY <1>1, <1>3 DEF Stored
<1>4. CASE command[g] = "record"
  BY <1>1, <1>4 DEF Stored
<1>5. CASE command[g] \in {"draw", "post"}
  BY <1>1, <1>5 DEF Stored
<1> QED
  BY <1>2, <1>3, <1>4, <1>5

LEMMA RestartWidgetKeeps ==
    ASSUME WidgetsInv, RestartWidget
    PROVE  WidgetsInv'
<1>1. /\ Fails
      /\ message' \in [Guild -> 0 .. MaxMessages]
      /\ \A g \in Guild : message'[g] \in Stored(g)
      /\ command' = [g \in Guild |-> "none"]
      /\ edits' \in {{}, (edits \cup {awaited}) \ {NoEdit}}
      /\ subscribed' = FALSE
      /\ running' = FALSE /\ ticking' = FALSE /\ todo' = {} /\ awaited' = NoEdit
      /\ UNCHANGED <<made, live, shows>>
  BY DEF RestartWidget
<1>2. \A e \in edits' : e \in Edit /\ e.message <= made[e.guild]
  BY <1>1, TypeOf DEF WidgetsInv, PostedOK
<1>3. WidgetTypeOK'
  BY <1>1, <1>2, FailsType DEF WidgetsInv, WidgetTypeOK
<1>4. CommandsOK' /\ TimerOK'
  BY <1>1 DEF CommandsOK, TimerOK
<1>5. PostedOK'
  BY <1>1, <1>2, StoredPosted DEF PostedOK
<1> QED
  BY <1>3, <1>4, <1>5 DEF WidgetsInv

-----------------------------------------------------------------------------
(* The theorems *)

LEMMA WidgetsKept == Typed /\ WidgetsInv /\ [WidgetNext]_allVars => WidgetsInv'
<1> SUFFICES ASSUME Typed, WidgetsInv, [WidgetNext]_allVars PROVE WidgetsInv'
  OBVIOUS
<1>1. ASSUME UNCHANGED widgetVars PROVE WidgetsInv'
  BY <1>1 DEF WidgetsInv, WidgetTypeOK, CommandsOK, PostedOK, TimerOK,
              widgetVars, commandVars, timerVars
<1>2. CASE RegistryStep
  BY <1>1, <1>2 DEF RegistryStep
<1>3. CASE \E p \in Caller : NotifyWidget(p)
  BY <1>3, NotifyWidgetKeeps
<1>4. CASE WidgetStep
  <2>1. CASE \E g \in Guild : SetStatusChannel(g) \/ Build(g) \/ EraseWidget(g)
    BY <2>1, SetStatusChannelKeeps, DrawWidgetKeeps, PostWidgetKeeps, RecordWidgetKeeps,
       EraseWidgetKeeps DEF Build
  <2>2. CASE \E e \in edits : Arrive(e)
    BY <2>2, ArriveKeeps
  <2>3. CASE Subscribe \/ Timer
    BY <2>3, SubscribeKeeps, TickKeeps, RefreshKeeps, AnswerKeeps, EndTickKeeps DEF Timer
  <2> QED
    BY <1>4, <2>1, <2>2, <2>3 DEF WidgetStep
<1>5. CASE RestartWidget
  BY <1>5, RestartWidgetKeeps
<1>6. CASE UNCHANGED allVars
  BY <1>1, <1>6 DEF allVars
<1> QED
  BY <1>2, <1>3, <1>4, <1>5, <1>6 DEF WidgetNext

LEMMA AlwaysWidgets == WidgetSpec => []WidgetsInv
BY WidgetsInitially, WidgetsKept, RegistryImplemented, AlwaysTyped, PTL DEF WidgetSpec

\* Every variable of the widgets has its type: no edit is sent for a guild whose
\* message is not recorded, whatever the registry announces and whenever.
THEOREM WidgetTypeCorrect == WidgetSpec => []WidgetTypeOK
<1>1. WidgetsInv => WidgetTypeOK
  BY DEF WidgetsInv
<1> QED
  BY <1>1, AlwaysWidgets, PTL

\* The timer's flag is set only while a tick is at work, whether the last one
\* ended, was given up for an exception or was cut off by a restart: no tick ever
\* finds itself locked out by one that is over.
THEOREM FlagIsReset == WidgetSpec => [](running => ticking)
<1>1. WidgetsInv => (running => ticking)
  BY DEF WidgetsInv, TimerOK
<1> QED
  BY <1>1, AlwaysWidgets, PTL
\* An edit on its way, sent for a notice or by the timer, names a widget that was
\* posted for its guild: what a restart loads and what a command leaves are never
\* ids of messages that were not.
THEOREM EditsNamePosted ==
    WidgetSpec => []( /\ \A e \in edits : e.message \in 1 .. made[e.guild]
                      /\ awaited # NoEdit => awaited.message \in 1 .. made[awaited.guild] )
<1>1. ASSUME WidgetsInv, NEW e \in Edit, e.message <= made[e.guild]
      PROVE  e.message \in 1 .. made[e.guild]
  BY <1>1, EditType, TypeOf, AgentWidgetAssumption
<1>2. WidgetsInv => /\ \A e \in edits : e.message \in 1 .. made[e.guild]
                    /\ awaited # NoEdit => awaited.message \in 1 .. made[awaited.guild]
  <2> SUFFICES ASSUME WidgetsInv
               PROVE  /\ \A e \in edits : e.message \in 1 .. made[e.guild]
                      /\ awaited # NoEdit => awaited.message \in 1 .. made[awaited.guild]
    OBVIOUS
  <2>1. PostedOK
    BY DEF WidgetsInv
  <2> QED
    BY <1>1, <2>1, TypeOf DEF PostedOK
<1> QED
  BY <1>2, AlwaysWidgets, PTL

=============================================================================
