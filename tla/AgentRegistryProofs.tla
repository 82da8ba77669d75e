------------------------- MODULE AgentRegistryProofs -------------------------
(***************************************************************************)
(* Theorems about AgentRegistry, for any agents, guilds, sessions and      *)
(* calls of saveAgentGuildId, any order of their steps and any failures.   *)
(***************************************************************************)
EXTENDS AgentRegistry, IdentityStoreProofs, FiniteSetTheorems

Event == [kind : {"connected", "disconnected"}, agent : Session]

Notice == [guild : Guild, agent : Session \cup {None}]

ListenerCall ==
    {NoCall}
    \cup [step : {"load"}, agent : Session]
    \cup [step : {"connect"}, agent : Session, guilds : SUBSET Guild]
    \cup [step : {"disconnect"}, guilds : SUBSET Guild, agent : Session]

\* The types TypeOK leaves out, and who works with whose session: a listener
\* call, and what is listed by uuid, concern a session of the agent itself, and
\* a call that connects a session has listed it by uuid.
FrameOK ==
    /\ queue \in [Agent -> Seq(Event)]
    /\ call \in [Agent -> ListenerCall]
    /\ notices \in [Caller -> Seq(Notice)]
    /\ \A a \in Agent : \A i \in 1 .. Len(queue[a]) : queue[a][i].agent[1] = a
    /\ \A a \in Agent : byUUID[a] # None => byUUID[a][1] = a
    /\ \A a \in Agent : call[a].step \in {"load", "connect"} => byUUID[a] = call[a].agent

\* A call that will write its notices has none: the listener waits for the last
\* call's, and a call of saveAgentGuildId comes to the maps once.
NoticesFree ==
    /\ \A a \in Agent : call[a] # NoCall => notices[a] = <<>>
    /\ \A s \in saved : pc[s] = "true" /\ notices[s] = <<>>
    /\ \A s \in Saver : pc[s] # "true" => notices[s] = <<>>

Typed == Owned /\ TypeOK /\ FrameOK /\ NoticesFree

-----------------------------------------------------------------------------
(* Facts about the operators of the model *)

LEMMA FunctionIsSeq ==
    ASSUME NEW R, NEW n \in Nat, NEW q \in [1 .. n -> R]
    PROVE  q \in Seq(R) /\ DOMAIN q = 1 .. Len(q)
OBVIOUS

\* The sequences of Notices are sequences of notices about just those guilds.
LEMMA NoticesType ==
    ASSUME NEW S \in SUBSET Guild, NEW x \in Session \cup {None}, NEW q \in Notices(S, x)
    PROVE  /\ q \in Seq(Notice)
           /\ \A g \in S : \E i \in 1 .. Len(q) : q[i].guild = g
<1>1. IsFiniteSet(S)
  BY RegistryAssumption, FS_Subset
<1>2. Cardinality(S) \in Nat
  BY <1>1, FS_CardinalityType
<1>3. q \in [1 .. Cardinality(S) -> [guild : S, agent : {x}]] /\ {q[i].guild : i \in DOMAIN q} = S
  BY DEF Notices
<1>4. q \in Seq([guild : S, agent : {x}]) /\ DOMAIN q = 1 .. Len(q)
  BY <1>2, <1>3, FunctionIsSeq
<1>5. ASSUME NEW r \in [guild : S, agent : {x}] PROVE r \in Notice
  <2>1. PICK g \in S, y \in {x} : r = [guild |-> g, agent |-> y]
    OBVIOUS
  <2>2. g \in Guild /\ y \in Session \cup {None}
    OBVIOUS
  <2> QED
    BY <2>1, <2>2 DEF Notice
<1>6. q \in Seq(Notice)
  <2>1. q = [i \in 1 .. Len(q) |-> q[i]] /\ \A i \in 1 .. Len(q) : q[i] \in Notice
    BY <1>3, <1>4, <1>5
  <2> QED
    BY <1>4, <2>1
<1>7. ASSUME NEW g \in S PROVE \E i \in 1 .. Len(q) : q[i].guild = g
  BY <1>3, <1>4
<1> QED
  BY <1>6, <1>7

\* A database call that throws counts.
LEMMA ThrowCounts == ASSUME StoreTypeOK, Throws PROVE errors' \in 0 .. MaxErrors /\ errors' # 0
BY StoreAssumption DEF StoreTypeOK, Throws

\* What loadAgentGuildIds gives, and that it changes nothing but the errors.
LEMMA LoadsEffect ==
    ASSUME Owned, NEW a \in Agent, NEW guilds \in SUBSET Guild, Loads(a, guilds)
    PROVE  /\ UNCHANGED <<known, guildIds, callVars, assigned>>
           /\ errors' \in 0 .. MaxErrors
           /\ errors' = 0 => errors = 0 /\ guilds = guildIds[a]
<1>1. LoadedGuilds(a) = guildIds[a]
  BY DEF LoadedGuilds, Owned, OneOwner
<1>2. CASE guilds = LoadedGuilds(a) /\ UNCHANGED errors
  BY <1>1, <1>2 DEF Loads, Owned, StoreTypeOK
<1>3. CASE Throws
  BY <1>3, ThrowCounts DEF Loads, Owned
<1> QED
  BY <1>2, <1>3 DEF Loads

\* The assignments keep one owner per guild although the listener's lookups,
\* which share the database, may fail too.
LEMMA OwnedByErrors ==
    ASSUME Owned, UNCHANGED <<known, guildIds, callVars, assigned>>, errors' \in 0 .. MaxErrors
    PROVE  Owned'
BY DEF Owned, callVars, StoreTypeOK, ArgumentsGiven, TargetsKnown, OneOwner

LEMMA OwnedStays == ASSUME Owned, UNCHANGED storeVars PROVE Owned'
BY OwnedKept

LEMMA OwnedByStep ==
    ASSUME Owned, NEW s \in Saver, SaveStep(s)
    PROVE  Owned'
BY OwnedKept DEF StoreNext

\* An event is added at the end of an agent's queue.
LEMMA EnqueueEffect ==
    ASSUME FrameOK, NEW a \in Agent, NEW e \in Event, queue' = [queue EXCEPT ![a] = Append(@, e)]
    PROVE  /\ queue' \in [Agent -> Seq(Event)]
           /\ \A b \in Agent : Len(queue[b]) \in Nat
           /\ Len(queue'[a]) = Len(queue[a]) + 1
           /\ queue'[a][Len(queue[a]) + 1] = e
           /\ \A i \in 1 .. Len(queue[a]) : queue'[a][i] = queue[a][i]
           /\ \A b \in Agent \ {a} : queue'[b] = queue[b]
<1>1. queue \in [Agent -> Seq(Event)]
  BY DEF FrameOK
<1>2. queue'[a] = Append(queue[a], e)
  BY <1>1
<1>3. queue[a] \in Seq(Event) /\ Append(queue[a], e) \in Seq(Event)
  BY <1>1
<1>4. queue' \in [Agent -> Seq(Event)]
  BY <1>1, <1>3
<1>5. \A b \in Agent : Len(queue[b]) \in Nat
  BY <1>1
<1> QED
  BY <1>1, <1>2, <1>3, <1>4, <1>5

\* The first event of a queue is taken.
LEMMA DequeueEffect ==
    ASSUME FrameOK, NEW a \in Agent, queue[a] # <<>>, queue' = [queue EXCEPT ![a] = Tail(@)]
    PROVE  /\ queue' \in [Agent -> Seq(Event)]
           /\ \A b \in Agent : Len(queue[b]) \in Nat
           /\ Len(queue[a]) >= 1
           /\ Head(queue[a]) = queue[a][1]
           /\ Head(queue[a]) \in Event
           /\ Len(queue'[a]) = Len(queue[a]) - 1
           /\ \A i \in 1 .. Len(queue[a]) - 1 : queue'[a][i] = queue[a][i + 1]
           /\ \A b \in Agent \ {a} : queue'[b] = queue[b]
<1>1. queue \in [Agent -> Seq(Event)]
  BY DEF FrameOK
<1>2. queue'[a] = Tail(queue[a])
  BY <1>1
<1>3. queue[a] \in Seq(Event) /\ Tail(queue[a]) \in Seq(Event) /\ Len(queue[a]) >= 1
  BY <1>1
<1>4. queue' \in [Agent -> Seq(Event)]
  BY <1>1, <1>3
<1>5. \A b \in Agent : Len(queue[b]) \in Nat
  BY <1>1
<1> QED
  BY <1>1, <1>2, <1>3, <1>4, <1>5

\* An event concerns a session of its agent.
LEMMA EventType ==
    ASSUME NEW e \in Event
    PROVE  e.kind \in {"connected", "disconnected"} /\ e.agent \in Session
BY DEF Event

LEMMA CallEffect ==
    ASSUME FrameOK, NEW a \in Agent, NEW c \in ListenerCall, call' = [call EXCEPT ![a] = c]
    PROVE  call' \in [Agent -> ListenerCall] /\ call'[a] = c /\ \A b \in Agent \ {a} : call'[b] = call[b]
BY DEF FrameOK

\* What a listener call knows at each of its steps.
LEMMA CallType ==
    ASSUME FrameOK, NEW a \in Agent
    PROVE  /\ call[a].step \in {"none", "load", "connect", "disconnect"}
           /\ call[a] = NoCall <=> call[a].step = "none"
           /\ call[a].step \in {"load", "connect", "disconnect"} => call[a].agent \in Session
           /\ call[a].step \in {"connect", "disconnect"} => call[a].guilds \in SUBSET Guild
<1>1. call[a] \in ListenerCall
  BY DEF FrameOK
<1>2. CASE call[a] = NoCall
  BY <1>2 DEF NoCall
<1>3. CASE call[a] \in [step : {"load"}, agent : Session]
  BY <1>3 DEF NoCall
<1>4. CASE call[a] \in [step : {"connect"}, agent : Session, guilds : SUBSET Guild]
  BY <1>4 DEF NoCall
<1>5. CASE call[a] \in [step : {"disconnect"}, guilds : SUBSET Guild, agent : Session]
  BY <1>5 DEF NoCall
<1> QED
  BY <1>1, <1>2, <1>3, <1>4, <1>5 DEF ListenerCall

LEMMA NoticesEffect ==
    ASSUME FrameOK, NEW p \in Caller, NEW q \in Seq(Notice), notices' = [notices EXCEPT ![p] = q]
    PROVE  /\ notices' \in [Caller -> Seq(Notice)] /\ notices'[p] = q
           /\ \A r \in Caller \ {p} : notices'[r] = notices[r]
BY DEF FrameOK

\* The session of a record that a session is written to.
LEMMA SessionType == ASSUME NEW x \in Session PROVE x[1] \in Agent /\ x[2] \in 1 .. MaxSessions /\ x # None
BY RegistryAssumption DEF Session

-----------------------------------------------------------------------------
(* The type invariant *)

LEMMA InitTyped == Init => Typed
<1> SUFFICES ASSUME Init PROVE Typed
  OBVIOUS
<1>1. Owned
  BY OwnedInitially DEF Init
<1>2. TypeOK
  <2>1. sessions \in [Agent -> 0 .. MaxSessions]
    BY RegistryAssumption DEF Init
  <2>2. /\ byUUID \in [Agent -> Session \cup {None}]
        /\ byGuild \in [Guild -> Session \cup {None}]
        /\ told \in [Guild -> Session \cup {None}]
    BY DEF Init
  <2> QED
    BY <1>1, <2>1, <2>2 DEF Init, TypeOK, Owned
<1>3. FrameOK
  <2>1. queue \in [Agent -> Seq(Event)] /\ \A a \in Agent : Len(queue[a]) = 0
    BY DEF Init
  <2>2. call \in [Agent -> ListenerCall]
    BY DEF Init, ListenerCall
  <2>3. notices \in [Caller -> Seq(Notice)]
    BY DEF Init
  <2>4. \A a \in Agent : byUUID[a] = None /\ call[a].step = "none"
    BY DEF Init, NoCall
  <2> QED
    BY <2>1, <2>2, <2>3, <2>4 DEF FrameOK
<1>4. NoticesFree
  BY DEF Init, NoticesFree, Caller
<1> QED
  BY <1>1, <1>2, <1>3, <1>4 DEF Typed

\* The sessions of scorch-server.
LEMMA ConnectTyped ==
    ASSUME Typed, NEW a \in Agent, Connect(a)
    PROVE  Typed'
<1> DEFINE x == <<a, sessions[a] + 1>>
           e == [kind |-> "connected", agent |-> x]
<1>1. /\ sessions[a] < MaxSessions /\ alive' = alive \cup {x}
      /\ queue' = [queue EXCEPT ![a] = Append(@, e)]
      /\ sessions' = [sessions EXCEPT ![a] = @ + 1]
      /\ UNCHANGED <<storeVars, call, registryVars, saved, noticeVars, stale>>
  BY DEF Connect
<1>2. sessions[a] + 1 \in 1 .. MaxSessions
  BY <1>1, RegistryAssumption DEF Typed, TypeOK
<1>3. x \in Session /\ e \in Event
  BY <1>2 DEF Session, Event
<1>4. Owned'
  BY <1>1, OwnedStays DEF Typed
<1>5. TypeOK'
  <2>1. sessions' \in [Agent -> 0 .. MaxSessions]
    BY <1>1, <1>2 DEF Typed, TypeOK
  <2>2. alive' \subseteq Session
    BY <1>1, <1>3 DEF Typed, TypeOK
  <2> QED
    BY <1>1, <1>4, <2>1, <2>2 DEF Typed, TypeOK, Owned, registryVars, noticeVars
<1>6. FrameOK'
  <2>1. FrameOK
    BY DEF Typed
  <2>2. e.agent[1] = a
    OBVIOUS
  <2> HIDE DEF e, x
  <2>3. \A b \in Agent : \A i \in 1 .. Len(queue'[b]) : queue'[b][i].agent[1] = b
    BY <1>1, <1>3, <2>1, <2>2, EnqueueEffect DEF FrameOK
  <2>4. queue' \in [Agent -> Seq(Event)]
    BY <1>1, <1>3, <2>1, EnqueueEffect
  <2> QED
    BY <1>1, <2>1, <2>3, <2>4 DEF FrameOK, registryVars, noticeVars
<1>7. NoticesFree'
  BY <1>1 DEF Typed, NoticesFree, storeVars, callVars, noticeVars
<1> QED
  BY <1>4, <1>5, <1>6, <1>7 DEF Typed

LEMMA DisconnectTyped ==
    ASSUME Typed, NEW x \in alive, Disconnect(x)
    PROVE  Typed'
<1> DEFINE e == [kind |-> "disconnected", agent |-> x]
<1>1. /\ alive' = alive \ {x}
      /\ queue' = [queue EXCEPT ![x[1]] = Append(@, e)]
      /\ UNCHANGED <<storeVars, sessions, call, registryVars, saved, noticeVars, stale>>
  BY DEF Disconnect
<1>2. x \in Session /\ x[1] \in Agent
  BY SessionType DEF Typed, TypeOK
<1>3. e \in Event
  BY <1>2 DEF Event
<1>4. Owned'
  BY <1>1, OwnedStays DEF Typed
<1>5. TypeOK'
  BY <1>1, <1>4 DEF Typed, TypeOK, Owned, registryVars, noticeVars
<1>6. FrameOK'
  <2>1. FrameOK
    BY DEF Typed
  <2>2. e.agent[1] = x[1]
    OBVIOUS
  <2> HIDE DEF e
  <2>3. \A b \in Agent : \A i \in 1 .. Len(queue'[b]) : queue'[b][i].agent[1] = b
    BY <1>1, <1>2, <1>3, <2>1, <2>2, EnqueueEffect DEF FrameOK
  <2>4. queue' \in [Agent -> Seq(Event)]
    BY <1>1, <1>2, <1>3, <2>1, EnqueueEffect
  <2> QED
    BY <1>1, <2>1, <2>3, <2>4 DEF FrameOK, registryVars, noticeVars
<1>7. NoticesFree'
  BY <1>1 DEF Typed, NoticesFree, storeVars, callVars, noticeVars
<1> QED
  BY <1>4, <1>5, <1>6, <1>7 DEF Typed

\* A subscriber is told: nobody's notices become more.
LEMMA NotifyEffect ==
    ASSUME Typed, NEW p \in Caller, Notify(p)
    PROVE  /\ notices[p] # <<>> /\ Head(notices[p]) = notices[p][1] /\ notices[p][1] \in Notice
           /\ notices' = [notices EXCEPT ![p] = Tail(@)]
           /\ \A r \in Caller : notices[r] = <<>> => notices'[r] = <<>>
           /\ Len(notices[p]) \in Nat /\ Len(notices[p]) >= 1
           /\ Len(notices'[p]) = Len(notices[p]) - 1
           /\ \A i \in 1 .. Len(notices[p]) - 1 : notices'[p][i] = notices[p][i + 1]
           /\ \A r \in Caller \ {p} : notices'[r] = notices[r]
           /\ notices' \in [Caller -> Seq(Notice)]
<1>1. notices[p] # <<>> /\ notices' = [notices EXCEPT ![p] = Tail(@)]
  BY DEF Notify
<1>2. notices \in [Caller -> Seq(Notice)] /\ notices[p] \in Seq(Notice)
  BY DEF Typed, FrameOK
<1>3. Tail(notices[p]) \in Seq(Notice) /\ Len(notices[p]) >= 1 /\ Len(notices[p]) \in Nat
  BY <1>1, <1>2
<1>4. notices' \in [Caller -> Seq(Notice)] /\ notices'[p] = Tail(notices[p])
  BY <1>1, <1>2, <1>3
<1>5. \A r \in Caller \ {p} : notices'[r] = notices[r]
  BY <1>1, <1>2
<1>6. Head(notices[p]) = notices[p][1] /\ notices[p][1] \in Notice
  BY <1>2, <1>3
<1> QED
  BY <1>1, <1>2, <1>3, <1>4, <1>5, <1>6

LEMMA NotifyTyped ==
    ASSUME Typed, NEW p \in Caller, Notify(p)
    PROVE  Typed'
<1>1. UNCHANGED <<storeVars, serverVars, call, registryVars, saved, stale>>
  BY DEF Notify
<1>2. Owned'
  BY <1>1, OwnedStays DEF Typed
<1>3. TypeOK'
  <2>1. Head(notices[p]).guild \in Guild /\ Head(notices[p]).agent \in Session \cup {None}
    BY NotifyEffect DEF Notice
  <2>2. told' \in [Guild -> Session \cup {None}] /\ overtaken' \in BOOLEAN
    BY <2>1 DEF Notify, Typed, TypeOK
  <2> QED
    BY <1>1, <1>2, <2>2 DEF Typed, TypeOK, Owned, registryVars, serverVars
<1>4. FrameOK'
  BY <1>1, NotifyEffect DEF Typed, FrameOK, registryVars, serverVars
<1>5. NoticesFree'
  <2>1. saved \subseteq Saver /\ Agent \subseteq Caller /\ Saver \subseteq Caller
    BY DEF Typed, TypeOK, Caller
  <2> QED
    BY <1>1, <2>1, NotifyEffect DEF Typed, NoticesFree, storeVars, callVars
<1> QED
  BY <1>2, <1>3, <1>4, <1>5 DEF Typed

\* The listener calls.
LEMMA BeginConnectedEffect ==
    ASSUME Typed, NEW a \in Agent, BeginConnected(a)
    PROVE  /\ call[a] = NoCall /\ notices[a] = <<>>
           /\ queue[a] # <<>> /\ queue' = [queue EXCEPT ![a] = Tail(@)]
           /\ queue[a][1].kind = "connected"
           /\ queue[a][1].agent \in Session /\ queue[a][1].agent[1] = a
           /\ byUUID' \in [Agent -> Session \cup {None}]
           /\ byUUID'[a] = queue[a][1].agent
           /\ \A b \in Agent \ {a} : byUUID'[b] = byUUID[b]
           /\ call' \in [Agent -> ListenerCall]
           /\ call'[a].step = "load" /\ call'[a].agent = queue[a][1].agent
           /\ \A b \in Agent \ {a} : call'[b] = call[b]
           /\ UNCHANGED <<storeVars, sessions, alive, byGuild, saved, noticeVars, stale>>
<1>1. /\ call[a] = NoCall /\ notices[a] = <<>>
      /\ queue[a] # <<>> /\ queue' = [queue EXCEPT ![a] = Tail(@)]
      /\ Head(queue[a]).kind = "connected"
      /\ byUUID' = [byUUID EXCEPT ![a] = Head(queue[a]).agent]
      /\ call' = [call EXCEPT ![a] = [step |-> "load", agent |-> Head(queue[a]).agent]]
      /\ UNCHANGED <<storeVars, sessions, alive, byGuild, saved, noticeVars, stale>>
  BY DEF BeginConnected
<1>2. FrameOK
  BY DEF Typed
<1>3. Head(queue[a]) = queue[a][1] /\ Head(queue[a]) \in Event /\ Len(queue[a]) >= 1 /\ Len(queue[a]) \in Nat
  BY <1>1, <1>2, DequeueEffect
<1>4. queue[a][1].agent \in Session /\ queue[a][1].agent[1] = a
  BY <1>2, <1>3, EventType DEF FrameOK
<1>5. [step |-> "load", agent |-> queue[a][1].agent] \in ListenerCall
  BY <1>4 DEF ListenerCall
<1>6. /\ byUUID' \in [Agent -> Session \cup {None}] /\ byUUID'[a] = queue[a][1].agent
      /\ \A b \in Agent \ {a} : byUUID'[b] = byUUID[b]
  BY <1>1, <1>3, <1>4 DEF Typed, TypeOK
<1>7. /\ call' \in [Agent -> ListenerCall]
      /\ call'[a] = [step |-> "load", agent |-> queue[a][1].agent]
      /\ \A b \in Agent \ {a} : call'[b] = call[b]
  BY <1>1, <1>2, <1>3, <1>5, CallEffect
<1>8. call'[a].step = "load" /\ call'[a].agent = queue[a][1].agent
  BY <1>7
<1> QED
  BY <1>1, <1>3, <1>4, <1>6, <1>7, <1>8

\* The queue without its first event still has events of the agent only.
LEMMA QueueStaysOwn ==
    ASSUME FrameOK, NEW a \in Agent, queue[a] # <<>>, queue' = [queue EXCEPT ![a] = Tail(@)]
    PROVE  \A b \in Agent : \A i \in 1 .. Len(queue'[b]) : queue'[b][i].agent[1] = b
<1>1. ASSUME NEW i \in 1 .. Len(queue'[a]) PROVE queue'[a][i].agent[1] = a
  BY <1>1, DequeueEffect DEF FrameOK
<1> QED
  BY <1>1, DequeueEffect DEF FrameOK

LEMMA BeginConnectedTyped ==
    ASSUME Typed, NEW a \in Agent, BeginConnected(a)
    PROVE  Typed'
<1>1. Owned'
  BY BeginConnectedEffect, OwnedStays DEF Typed
<1>2. TypeOK'
  BY <1>1, BeginConnectedEffect DEF Typed, TypeOK, Owned, noticeVars
<1>3. FrameOK'
  <2>1. FrameOK
    BY DEF Typed
  <2>2. /\ queue' \in [Agent -> Seq(Event)]
        /\ \A b \in Agent : \A i \in 1 .. Len(queue'[b]) : queue'[b][i].agent[1] = b
    BY <2>1, BeginConnectedEffect, DequeueEffect, QueueStaysOwn
  <2>3. /\ byUUID'[a] = call'[a].agent /\ byUUID'[a][1] = a
        /\ \A b \in Agent \ {a} : byUUID'[b] = byUUID[b] /\ call'[b] = call[b]
        /\ call' \in [Agent -> ListenerCall] /\ UNCHANGED notices
    BY BeginConnectedEffect DEF noticeVars
  <2> QED
    BY <2>1, <2>2, <2>3 DEF FrameOK
<1>4. NoticesFree'
  <2>1. /\ notices[a] = <<>> /\ \A b \in Agent \ {a} : call'[b] = call[b]
        /\ UNCHANGED <<notices, pc, saved>>
    BY BeginConnectedEffect DEF noticeVars, storeVars, callVars
  <2> QED
    BY <2>1 DEF Typed, NoticesFree
<1> QED
  BY <1>1, <1>2, <1>3, <1>4 DEF Typed

LEMMA LoadConnectedEffect ==
    ASSUME Typed, NEW a \in Agent, LoadConnected(a)
    PROVE  /\ call[a].step = "load" /\ call[a] # NoCall
           /\ call' \in [Agent -> ListenerCall]
           /\ \A b \in Agent \ {a} : call'[b] = call[b]
           /\ \/ call'[a] = NoCall /\ (errors' = 0 => guildIds[a] = {})
              \/ /\ call'[a].step = "connect"
                 /\ call'[a].agent = call[a].agent
                 /\ errors' = 0 => call'[a].guilds = guildIds[a]
           /\ errors' \in 0 .. MaxErrors
           /\ errors' = 0 => errors = 0
           /\ UNCHANGED <<known, guildIds, callVars, assigned>>
           /\ UNCHANGED <<serverVars, registryVars, saved, noticeVars, stale>>
<1>1. PICK guilds \in SUBSET Guild :
        /\ Loads(a, guilds)
        /\ call' = [call EXCEPT ![a] =
                IF guilds = {} THEN NoCall
                ELSE [step |-> "connect", agent |-> @.agent, guilds |-> guilds]]
  BY DEF LoadConnected
<1>2. FrameOK /\ Owned
  BY DEF Typed
<1>3. call[a].step = "load" /\ call[a] # NoCall /\ call[a].agent \in Session
  BY <1>2, CallType DEF LoadConnected
<1>4. /\ UNCHANGED <<known, guildIds, callVars, assigned>> /\ errors' \in 0 .. MaxErrors
      /\ errors' = 0 => errors = 0 /\ guilds = guildIds[a]
  BY <1>1, <1>2, LoadsEffect
<1>5. CASE guilds = {}
  <2>1. call' = [call EXCEPT ![a] = NoCall]
    BY <1>1, <1>5
  <2>2. NoCall \in ListenerCall
    BY DEF ListenerCall
  <2>3. call' \in [Agent -> ListenerCall] /\ call'[a] = NoCall /\ \A b \in Agent \ {a} : call'[b] = call[b]
    BY <1>2, <2>1, <2>2, CallEffect
  <2> QED
    BY <1>3, <1>4, <1>5, <2>3 DEF LoadConnected
<1>6. CASE guilds # {}
  <2> DEFINE c == [step |-> "connect", agent |-> call[a].agent, guilds |-> guilds]
  <2>1. call' = [call EXCEPT ![a] = c]
    BY <1>1, <1>6
  <2>2. c \in ListenerCall
    BY <1>3 DEF ListenerCall
  <2>3. call' \in [Agent -> ListenerCall] /\ call'[a] = c /\ \A b \in Agent \ {a} : call'[b] = call[b]
    BY <1>2, <2>1, <2>2, CallEffect
  <2>4. c.step = "connect" /\ c.agent = call[a].agent /\ c.guilds = guilds
    OBVIOUS
  <2> QED
    BY <1>3, <1>4, <2>3, <2>4 DEF LoadConnected
<1> QED
  BY <1>5, <1>6

LEMMA LoadConnectedTyped ==
    ASSUME Typed, NEW a \in Agent, LoadConnected(a)
    PROVE  Typed'
<1>1. Owned'
  BY LoadConnectedEffect, OwnedByErrors DEF Typed
<1>2. TypeOK'
  BY <1>1, LoadConnectedEffect DEF Typed, TypeOK, Owned, noticeVars, registryVars, serverVars
<1>3. FrameOK'
  <2>1. call'[a].step \in {"load", "connect"} => call'[a].agent = call[a].agent
    BY LoadConnectedEffect DEF NoCall
  <2>2. /\ call[a].step = "load" /\ \A b \in Agent \ {a} : call'[b] = call[b]
        /\ call' \in [Agent -> ListenerCall] /\ UNCHANGED <<byUUID, queue, notices>>
    BY LoadConnectedEffect DEF noticeVars, registryVars, serverVars
  <2> QED
    BY <2>1, <2>2 DEF Typed, FrameOK
<1>4. NoticesFree'
  BY LoadConnectedEffect DEF Typed, NoticesFree, noticeVars, callVars
<1> QED
  BY <1>1, <1>2, <1>3, <1>4 DEF Typed

LEMMA ListConnectedEffect ==
    ASSUME Typed, NEW a \in Agent, ListConnected(a)
    PROVE  /\ call[a].step = "connect" /\ call[a] # NoCall
           /\ call[a].agent \in Session /\ call[a].agent = byUUID[a]
           /\ call[a].guilds \in SUBSET Guild
           /\ byGuild' = [g \in Guild |-> IF g \in call[a].guilds THEN call[a].agent ELSE byGuild[g]]
           /\ stale' = (stale \/ \E g \in call[a].guilds : Owners(g) # {a})
           /\ call' \in [Agent -> ListenerCall] /\ call'[a] = NoCall
           /\ \A b \in Agent \ {a} : call'[b] = call[b]
           /\ notices[a] = <<>>
           /\ notices' \in [Caller -> Seq(Notice)]
           /\ \A g \in call[a].guilds : \E i \in 1 .. Len(notices'[a]) : notices'[a][i].guild = g
           /\ \A r \in Caller \ {a} : notices'[r] = notices[r]
           /\ UNCHANGED <<storeVars, serverVars, byUUID, saved, told, overtaken>>
<1>1. FrameOK /\ NoticesFree
  BY DEF Typed
<1>2. call[a].step = "connect"
  BY DEF ListConnected
<1>3. /\ call[a] # NoCall
      /\ call[a].agent \in Session /\ call[a].agent = byUUID[a]
      /\ call[a].guilds \in SUBSET Guild
  BY <1>1, <1>2, CallType DEF FrameOK
<1>4. PICK q \in Notices(call[a].guilds, call[a].agent) : notices' = [notices EXCEPT ![a] = q]
  BY DEF ListConnected
<1>5. q \in Seq(Notice) /\ \A g \in call[a].guilds : \E i \in 1 .. Len(q) : q[i].guild = g
  <2>1. call[a].agent \in Session \cup {None}
    BY <1>3
  <2> QED
    BY ONLY <1>3, <1>4, <2>1, NoticesType
<1>6. /\ notices' \in [Caller -> Seq(Notice)] /\ notices'[a] = q
      /\ \A r \in Caller \ {a} : notices'[r] = notices[r]
  BY <1>1, <1>4, <1>5, NoticesEffect DEF Caller
<1>7. /\ call' \in [Agent -> ListenerCall] /\ call'[a] = NoCall
      /\ \A b \in Agent \ {a} : call'[b] = call[b]
  <2>1. call' = [call EXCEPT ![a] = NoCall] /\ NoCall \in ListenerCall
    BY DEF ListConnected, ListenerCall
  <2> QED
    BY <1>1, <2>1, CallEffect
<1>8. notices[a] = <<>>
  BY <1>1, <1>3 DEF NoticesFree
<1>9. /\ byGuild' = [g \in Guild |-> IF g \in call[a].guilds THEN call[a].agent ELSE byGuild[g]]
      /\ stale' = (stale \/ \E g \in call[a].guilds : Owners(g) # {a})
      /\ UNCHANGED <<storeVars, serverVars, byUUID, saved, told, overtaken>>
  BY DEF ListConnected
<1> QED
  BY <1>2, <1>3, <1>5, <1>6, <1>7, <1>8, <1>9

LEMMA ListConnectedTyped ==
    ASSUME Typed, NEW a \in Agent, ListConnected(a)
    PROVE  Typed'
<1>1. Owned'
  BY ListConnectedEffect, OwnedStays DEF Typed
<1>2. TypeOK'
  <2>1. byGuild' \in [Guild -> Session \cup {None}]
    BY ListConnectedEffect DEF Typed, TypeOK
  <2>2. stale' \in BOOLEAN
    BY ListConnectedEffect, Zenon DEF Typed, TypeOK
  <2> QED
    BY <1>1, <2>1, <2>2, ListConnectedEffect DEF Typed, TypeOK, Owned, serverVars
<1>3. FrameOK'
  <2>1. /\ call'[a].step = "none" /\ \A b \in Agent \ {a} : call'[b] = call[b]
        /\ call' \in [Agent -> ListenerCall] /\ notices' \in [Caller -> Seq(Notice)]
        /\ UNCHANGED <<byUUID, queue>>
    BY ListConnectedEffect DEF NoCall, serverVars
  <2> QED
    BY <2>1 DEF Typed, FrameOK
<1>4. NoticesFree'
  <2>1. /\ call'[a] = NoCall /\ \A b \in Agent \ {a} : call'[b] = call[b]
        /\ \A r \in Caller \ {a} : notices'[r] = notices[r]
        /\ UNCHANGED <<pc, saved>>
    BY ListConnectedEffect DEF storeVars, callVars
  <2>2. saved \subseteq Saver /\ a \notin Saver
    BY RegistryAssumption DEF Typed, TypeOK
  <2> QED
    BY <2>1, <2>2 DEF Typed, NoticesFree, Caller
<1> QED
  BY <1>1, <1>2, <1>3, <1>4 DEF Typed

LEMMA BeginDisconnectedEffect ==
    ASSUME Typed, NEW a \in Agent, BeginDisconnected(a)
    PROVE  /\ call[a] = NoCall /\ notices[a] = <<>>
           /\ queue[a] # <<>> /\ queue' = [queue EXCEPT ![a] = Tail(@)]
           /\ queue[a][1].kind = "disconnected"
           /\ call' \in [Agent -> ListenerCall]
           /\ call'[a].step = "disconnect"
           /\ \A b \in Agent \ {a} : call'[b] = call[b]
           /\ errors' \in 0 .. MaxErrors
           /\ errors' = 0 => errors = 0
           /\ UNCHANGED <<known, guildIds, callVars, assigned>>
           /\ UNCHANGED <<sessions, alive, registryVars, saved, noticeVars, stale>>
<1>1. PICK guilds \in SUBSET Guild :
        /\ Loads(a, guilds)
        /\ call' = [call EXCEPT ![a] = [step |-> "disconnect", guilds |-> guilds,
                                        agent |-> Head(queue[a]).agent]]
  BY DEF BeginDisconnected
<1>2. FrameOK /\ Owned
  BY DEF Typed
<1>3. /\ call[a] = NoCall /\ notices[a] = <<>>
      /\ queue[a] # <<>> /\ queue' = [queue EXCEPT ![a] = Tail(@)]
      /\ Head(queue[a]).kind = "disconnected"
      /\ UNCHANGED <<sessions, alive, registryVars, saved, noticeVars, stale>>
  BY DEF BeginDisconnected
<1>4. Head(queue[a]) = queue[a][1] /\ Head(queue[a]).agent \in Session
  BY <1>2, <1>3, DequeueEffect, EventType
<1> DEFINE c == [step |-> "disconnect", guilds |-> guilds, agent |-> Head(queue[a]).agent]
<1>5. c \in ListenerCall
  BY <1>4 DEF ListenerCall
<1>6. c.step = "disconnect"
  OBVIOUS
<1>7. call' \in [Agent -> ListenerCall] /\ call'[a] = c /\ \A b \in Agent \ {a} : call'[b] = call[b]
  BY <1>1, <1>2, <1>5, CallEffect
<1>8. /\ UNCHANGED <<known, guildIds, callVars, assigned>> /\ errors' \in 0 .. MaxErrors
      /\ errors' = 0 => errors = 0
  BY <1>1, <1>2, LoadsEffect
<1> QED
  BY <1>3, <1>4, <1>6, <1>7, <1>8

LEMMA BeginDisconnectedTyped ==
    ASSUME Typed, NEW a \in Agent, BeginDisconnected(a)
    PROVE  Typed'
<1>1. Owned'
  BY BeginDisconnectedEffect, OwnedByErrors DEF Typed
<1>2. TypeOK'
  BY <1>1, BeginDisconnectedEffect DEF Typed, TypeOK, Owned, noticeVars, registryVars
<1>3. FrameOK'
  <2>1. FrameOK
    BY DEF Typed
  <2>2. /\ queue' \in [Agent -> Seq(Event)]
        /\ \A b \in Agent : \A i \in 1 .. Len(queue'[b]) : queue'[b][i].agent[1] = b
    BY <2>1, BeginDisconnectedEffect, DequeueEffect, QueueStaysOwn
  <2>3. /\ call'[a].step = "disconnect" /\ \A b \in Agent \ {a} : call'[b] = call[b]
        /\ call' \in [Agent -> ListenerCall] /\ UNCHANGED <<byUUID, notices>>
    BY BeginDisconnectedEffect DEF noticeVars, registryVars
  <2> QED
    BY <2>1, <2>2, <2>3 DEF FrameOK
<1>4. NoticesFree'
  <2>1. /\ notices[a] = <<>> /\ \A b \in Agent \ {a} : call'[b] = call[b]
        /\ UNCHANGED <<notices, pc, saved>>
    BY BeginDisconnectedEffect DEF noticeVars, callVars
  <2> QED
    BY <2>1 DEF Typed, NoticesFree
<1> QED
  BY <1>1, <1>2, <1>3, <1>4 DEF Typed

\* The guilds whose listed session the end of a session of a removes.
LostGuilds(a) == {g \in call[a].guilds : Dropped(a, byGuild[g])}

LEMMA UnlistEffect ==
    ASSUME Typed, NEW a \in Agent, Unlist(a)
    PROVE  /\ call[a].step = "disconnect" /\ call[a] # NoCall
           /\ call[a].guilds \in SUBSET Guild
           /\ byGuild' = [g \in Guild |-> IF g \in LostGuilds(a) THEN None ELSE byGuild[g]]
           /\ byUUID' \in [Agent -> Session \cup {None}]
           /\ byUUID'[a] = IF Dropped(a, byUUID[a]) THEN None ELSE byUUID[a]
           /\ \A b \in Agent \ {a} : byUUID'[b] = byUUID[b]
           /\ stale' = (stale \/ ~(guildIds[a] \subseteq call[a].guilds))
           /\ call' \in [Agent -> ListenerCall] /\ call'[a] = NoCall
           /\ \A b \in Agent \ {a} : call'[b] = call[b]
           /\ notices[a] = <<>>
           /\ notices' \in [Caller -> Seq(Notice)]
           /\ \A g \in LostGuilds(a) : \E i \in 1 .. Len(notices'[a]) : notices'[a][i].guild = g
           /\ \A r \in Caller \ {a} : notices'[r] = notices[r]
           /\ UNCHANGED <<storeVars, serverVars, saved, told, overtaken>>
<1>1. FrameOK /\ NoticesFree
  BY DEF Typed
<1>2. call[a].step = "disconnect"
  BY DEF Unlist
<1>3. call[a] # NoCall /\ call[a].guilds \in SUBSET Guild
  BY <1>1, <1>2, CallType
<1>4. PICK q \in Notices(LostGuilds(a), None) : notices' = [notices EXCEPT ![a] = q]
  BY DEF Unlist, LostGuilds
<1>5. q \in Seq(Notice) /\ \A g \in LostGuilds(a) : \E i \in 1 .. Len(q) : q[i].guild = g
  <2>1. LostGuilds(a) \in SUBSET Guild /\ None \in Session \cup {None}
    BY <1>3 DEF LostGuilds
  <2> QED
    BY ONLY <1>4, <2>1, NoticesType
<1>6. /\ notices' \in [Caller -> Seq(Notice)] /\ notices'[a] = q
      /\ \A r \in Caller \ {a} : notices'[r] = notices[r]
  BY <1>1, <1>4, <1>5, NoticesEffect DEF Caller
<1>7. /\ call' \in [Agent -> ListenerCall] /\ call'[a] = NoCall
      /\ \A b \in Agent \ {a} : call'[b] = call[b]
  <2>1. call' = [call EXCEPT ![a] = NoCall] /\ NoCall \in ListenerCall
    BY DEF Unlist, ListenerCall
  <2> QED
    BY <1>1, <2>1, CallEffect
<1>8. notices[a] = <<>>
  BY <1>1, <1>3 DEF NoticesFree
<1>9. /\ byGuild' = [g \in Guild |-> IF g \in LostGuilds(a) THEN None ELSE byGuild[g]]
      /\ stale' = (stale \/ ~(guildIds[a] \subseteq call[a].guilds))
      /\ UNCHANGED <<storeVars, serverVars, saved, told, overtaken>>
  BY DEF Unlist, LostGuilds
<1>10. /\ byUUID' \in [Agent -> Session \cup {None}]
       /\ byUUID'[a] = IF Dropped(a, byUUID[a]) THEN None ELSE byUUID[a]
       /\ \A b \in Agent \ {a} : byUUID'[b] = byUUID[b]
  BY DEF Unlist, Typed, TypeOK
<1> QED
  BY <1>2, <1>3, <1>5, <1>6, <1>7, <1>8, <1>9, <1>10

LEMMA UnlistTyped ==
    ASSUME Typed, NEW a \in Agent, Unlist(a)
    PROVE  Typed'
<1>1. Owned'
  BY UnlistEffect, OwnedStays DEF Typed
<1>2. TypeOK'
  <2>1. byGuild' \in [Guild -> Session \cup {None}]
    BY UnlistEffect DEF Typed, TypeOK
  <2>2. stale' \in BOOLEAN
    BY UnlistEffect, Zenon DEF Typed, TypeOK
  <2> QED
    BY <1>1, <2>1, <2>2, UnlistEffect DEF Typed, TypeOK, Owned, serverVars
<1>3. FrameOK'
  <2>1. /\ call'[a].step = "none" /\ \A b \in Agent \ {a} : call'[b] = call[b]
        /\ call' \in [Agent -> ListenerCall] /\ notices' \in [Caller -> Seq(Notice)]
        /\ UNCHANGED queue
        /\ byUUID'[a] \in {None, byUUID[a]} /\ \A b \in Agent \ {a} : byUUID'[b] = byUUID[b]
    BY UnlistEffect DEF NoCall, serverVars
  <2> QED
    BY <2>1 DEF Typed, FrameOK
<1>4. NoticesFree'
  <2>1. /\ call'[a] = NoCall /\ \A b \in Agent \ {a} : call'[b] = call[b]
        /\ \A r \in Caller \ {a} : notices'[r] = notices[r]
        /\ UNCHANGED <<pc, saved>>
    BY UnlistEffect DEF storeVars, callVars
  <2>2. saved \subseteq Saver /\ a \notin Saver
    BY RegistryAssumption DEF Typed, TypeOK
  <2> QED
    BY <2>1, <2>2 DEF Typed, NoticesFree, Caller
<1> QED
  BY <1>1, <1>2, <1>3, <1>4 DEF Typed

\* The calls of saveAgentGuildId.
LEMMA ListSavedEffect ==
    ASSUME Typed, NEW s \in Saver, ListSaved(s)
    PROVE  /\ s \in saved /\ saved' = saved \ {s}
           /\ uuid[s] \in Agent /\ guild[s] \in Guild
           /\ byGuild' = [byGuild EXCEPT ![guild[s]] = byUUID[uuid[s]]]
           /\ stale' = (stale \/ Owners(guild[s]) # {uuid[s]})
           /\ notices[s] = <<>>
           /\ notices' \in [Caller -> Seq(Notice)]
           /\ \E i \in 1 .. Len(notices'[s]) : notices'[s][i].guild = guild[s]
           /\ \A r \in Caller \ {s} : notices'[r] = notices[r]
           /\ UNCHANGED <<storeVars, serverVars, call, byUUID, told, overtaken>>
<1>1. FrameOK /\ NoticesFree /\ Owned /\ TypeOK
  BY DEF Typed
<1>2. s \in saved /\ pc[s] = "true"
  BY <1>1 DEF ListSaved, NoticesFree
<1>3. uuid[s] \in Agent /\ guild[s] \in Guild
  BY <1>1, <1>2 DEF Owned, ArgumentsGiven
<1> DEFINE n == [guild |-> guild[s], agent |-> byUUID[uuid[s]]]
<1>4. n \in Notice /\ n.guild = guild[s]
  BY <1>1, <1>3 DEF Notice, TypeOK
<1>5. notices' = [notices EXCEPT ![s] = <<n>>]
  BY DEF ListSaved
<1> HIDE DEF n
<1>6. <<n>> \in Seq(Notice) /\ Len(<<n>>) = 1 /\ <<n>>[1] = n
  BY <1>4
<1>7. /\ notices' \in [Caller -> Seq(Notice)] /\ notices'[s] = <<n>>
      /\ \A r \in Caller \ {s} : notices'[r] = notices[r]
  BY <1>1, <1>5, <1>6, NoticesEffect DEF Caller
<1>8. \E i \in 1 .. Len(notices'[s]) : notices'[s][i].guild = guild[s]
  BY <1>4, <1>6, <1>7
<1>9. notices[s] = <<>>
  BY <1>1, <1>2 DEF NoticesFree
<1> QED
  BY <1>2, <1>3, <1>7, <1>8, <1>9 DEF ListSaved, Listed

LEMMA ListSavedTyped ==
    ASSUME Typed, NEW s \in Saver, ListSaved(s)
    PROVE  Typed'
<1>1. Owned'
  BY ListSavedEffect, OwnedStays DEF Typed
<1>2. TypeOK'
  <2>1. byGuild' \in [Guild -> Session \cup {None}]
    BY ListSavedEffect DEF Typed, TypeOK
  <2>2. stale' \in BOOLEAN
    BY ListSavedEffect, Zenon DEF Typed, TypeOK
  <2> QED
    BY <1>1, <2>1, <2>2, ListSavedEffect DEF Typed, TypeOK, Owned, serverVars
<1>3. FrameOK'
  BY ListSavedEffect DEF Typed, FrameOK, serverVars
<1>4. NoticesFree'
  <2>1. /\ \A r \in Caller \ {s} : notices'[r] = notices[r]
        /\ s \in saved /\ saved' = saved \ {s} /\ UNCHANGED <<pc, call>>
    BY ListSavedEffect DEF storeVars, callVars
  <2>2. saved \subseteq Saver /\ s \notin Agent
    BY RegistryAssumption DEF Typed, TypeOK
  <2> QED
    BY <2>1, <2>2 DEF Typed, NoticesFree, Caller
<1> QED
  BY <1>1, <1>2, <1>3, <1>4 DEF Typed

\* A step of a call in the collection concerns that call alone, which has not
\* come to the maps.
LEMMA SaveStepEffect ==
    ASSUME Owned, NEW s \in Saver, SaveStep(s)
    PROVE  /\ Saving(s) /\ UNCHANGED <<known, uuid, guild>>
           /\ \A t \in Saver \ {s} : pc'[t] = pc[t]
<1>1. /\ Saving(s) /\ UNCHANGED <<known, uuid, guild>>
  BY DEF SaveStep, Load, Check, Pull, Add, Restore, At, Saving
<1>2. \E label : pc' = [pc EXCEPT ![s] = label]
  BY DEF SaveStep, Load, Check, Pull, Add, Restore, Goto, Return
<1> QED
  BY <1>1, <1>2 DEF Owned, StoreTypeOK

LEMMA SaveInStoreTyped ==
    ASSUME Typed, NEW s \in Saver, SaveInStore(s)
    PROVE  Typed'
<1>1. /\ SaveStep(s) /\ saved' = IF pc'[s] = "true" THEN saved \cup {s} ELSE saved
      /\ UNCHANGED <<serverVars, call, registryVars, noticeVars>>
  BY DEF SaveInStore
<1>2. Owned'
  BY <1>1, OwnedByStep DEF Typed
<1>3. TypeOK'
  <2>1. stale' \in BOOLEAN
    BY Zenon DEF SaveInStore, Typed, TypeOK
  <2>2. saved' \subseteq Saver
    BY <1>1 DEF Typed, TypeOK
  <2> QED
    BY <1>1, <1>2, <2>1, <2>2 DEF Typed, TypeOK, Owned, serverVars, registryVars, noticeVars
<1>4. FrameOK'
  BY <1>1 DEF Typed, FrameOK, serverVars, registryVars, noticeVars
<1>5. NoticesFree'
  <2>1. /\ pc[s] # "true" /\ \A t \in Saver \ {s} : pc'[t] = pc[t]
        /\ UNCHANGED <<notices, call>>
    BY <1>1, SaveStepEffect DEF Typed, Saving, noticeVars
  <2>2. saved \subseteq Saver
    BY DEF Typed, TypeOK
  <2> QED
    BY <1>1, <2>1, <2>2 DEF Typed, NoticesFree
<1> QED
  BY <1>2, <1>3, <1>4, <1>5 DEF Typed

LEMMA RequestEffect ==
    ASSUME Owned, Request
    PROVE  /\ UNCHANGED <<guildIds, errors>> /\ known \subseteq known'
           /\ \A s \in Saver : \/ pc'[s] = pc[s] /\ uuid'[s] = uuid[s] /\ guild'[s] = guild[s]
                               \/ pc[s] = "idle" /\ pc'[s] = "load"
           /\ UNCHANGED <<serverVars, call, registryVars, saved, noticeVars, stale>>
<1>1. CASE \E a \in Agent : SavePublicKey(a)
  BY <1>1 DEF Request, SavePublicKey, callVars
<1>2. ASSUME NEW s \in Saver, NEW a \in Agent, NEW g \in Guild, Call(s, a, g)
      PROVE  /\ UNCHANGED <<guildIds, errors, known>>
             /\ pc[s] = "idle" /\ pc'[s] = "load"
             /\ \A t \in Saver \ {s} : pc'[t] = pc[t] /\ uuid'[t] = uuid[t] /\ guild'[t] = guild[t]
  BY <1>2 DEF Call, At, Goto, Owned, StoreTypeOK
<1> QED
  BY <1>1, <1>2 DEF Request

LEMMA RequestTyped == ASSUME Typed, Request PROVE Typed'
<1>1. UNCHANGED <<serverVars, call, registryVars, saved, noticeVars, stale>>
  BY DEF Request
<1>2. Owned'
  BY OwnedKept DEF Request, StoreNext, Typed
<1>3. TypeOK'
  BY <1>1, <1>2 DEF Typed, TypeOK, Owned, serverVars, registryVars, noticeVars
<1>4. FrameOK'
  BY <1>1 DEF Typed, FrameOK, serverVars, registryVars, noticeVars
<1>5. NoticesFree'
  <2>1. \A s \in Saver : pc'[s] = pc[s] \/ pc[s] = "idle"
    BY RequestEffect DEF Typed
  <2> QED
    BY <1>1, <2>1 DEF Typed, TypeOK, NoticesFree, noticeVars
<1> QED
  BY <1>2, <1>3, <1>4, <1>5 DEF Typed

\* A new process: nothing of the registry is left.
LEMMA RestartEffect ==
    ASSUME Typed, Restart
    PROVE  /\ Owned'
           /\ alive' = {} /\ saved' = {} /\ stale' = FALSE /\ overtaken' = FALSE
           /\ sessions' = sessions /\ errors' = errors /\ guildIds' = guildIds
           /\ \A a \in Agent : queue'[a] = <<>> /\ call'[a] = NoCall /\ byUUID'[a] = None
           /\ \A g \in Guild : byGuild'[g] = None /\ told'[g] = None
           /\ \A p \in Caller : notices'[p] = <<>>
<1>1. Owned'
  BY OwnedKept DEF Restart, StoreNext, Typed
<1> QED
  BY <1>1 DEF Restart, StoreRestart

LEMMA RestartTyped == ASSUME Typed, Restart PROVE Typed'
<1>1. Owned' /\ StoreTypeOK'
  BY RestartEffect DEF Owned
<1>2. TypeOK'
  BY <1>1 DEF Restart, TypeOK, Typed
<1>3. FrameOK'
  <2>1. <<>> \in Seq(Event) /\ <<>> \in Seq(Notice) /\ NoCall \in ListenerCall
        /\ NoCall.step = "none" /\ Len(<<>>) = 0
    BY DEF ListenerCall, NoCall
  <2>2. queue' \in [Agent -> Seq(Event)] /\ notices' \in [Caller -> Seq(Notice)]
    BY <2>1 DEF Restart
  <2>3. call' \in [Agent -> ListenerCall]
    BY <2>1 DEF Restart
  <2> QED
    BY <2>1, <2>2, <2>3, RestartEffect DEF FrameOK
<1>4. NoticesFree'
  BY RestartEffect DEF NoticesFree, Caller
<1> QED
  BY <1>1, <1>2, <1>3, <1>4 DEF Typed

LEMMA TypedKept == Typed /\ [Next]_vars => Typed'
<1> SUFFICES ASSUME Typed, [Next]_vars PROVE Typed'
  OBVIOUS
<1>1. CASE UNCHANGED vars
  <2>1. UNCHANGED storeVars
    BY <1>1 DEF vars
  <2>2. Owned'
    BY <2>1, OwnedStays DEF Typed
  <2> QED
    BY <1>1, <2>2 DEF vars, storeVars, callVars, serverVars, registryVars, noticeVars,
                      Typed, Owned, TypeOK, FrameOK, NoticesFree
<1>2. ASSUME NEW a \in Agent, Connect(a) PROVE Typed'
  BY <1>2, ConnectTyped
<1>3. ASSUME NEW x \in alive, Disconnect(x) PROVE Typed'
  BY <1>3, DisconnectTyped
<1>4. CASE Request
  BY <1>4, RequestTyped
<1>5. CASE Serve
  BY <1>5, BeginConnectedTyped, LoadConnectedTyped, ListConnectedTyped, BeginDisconnectedTyped,
     UnlistTyped, SaveInStoreTyped, ListSavedTyped DEF Serve
<1>6. ASSUME NEW p \in Caller, Notify(p) PROVE Typed'
  BY <1>6, NotifyTyped
<1>7. CASE Restart
  BY <1>7, RestartTyped
<1> QED
  BY <1>1, <1>2, <1>3, <1>4, <1>5, <1>6, <1>7 DEF Next

LEMMA AlwaysTyped == Spec => []Typed
BY InitTyped, TypedKept, PTL DEF Spec

\* Every variable has its type, although the listener's calls, the calls of
\* saveAgentGuildId and the notices take their steps in any order.
THEOREM TypeCorrect == Spec => []TypeOK
<1>1. Typed => TypeOK
  BY DEF Typed
<1> QED
  BY <1>1, AlwaysTyped, PTL

\* The AgentIdentities collection keeps its promise when the registry uses it
\* too, and its lookups may fail: a guild is assigned to one agent at most.
THEOREM RegistryKeepsOneOwner == Spec => []OneOwner
<1>1. Typed => OneOwner
  BY DEF Typed, Owned
<1> QED
  BY <1>1, AlwaysTyped, PTL

-----------------------------------------------------------------------------
(* The agents listed by uuid *)

Ended(a, i) == queue[a][i].kind = "disconnected"

\* The sessions of an agent that are alive are its last ones: the first to end is
\* the oldest.
AliveOK ==
    \A x \in alive : /\ x[2] <= sessions[x[1]]
                     /\ \A k \in x[2] .. sessions[x[1]] : <<x[1], k>> \in alive

\* Sessions are announced in order, each once.
AnnouncedInOrder ==
    \A a \in Agent : \A i \in 1 .. Len(queue[a]) :
        queue[a][i].kind = "connected" =>
            /\ queue[a][i].agent[2] <= sessions[a]
            /\ byUUID[a] # None => byUUID[a][2] < queue[a][i].agent[2]
            /\ \A j \in 1 .. i - 1 :
                  queue[a][j].kind = "connected" => queue[a][j].agent[2] < queue[a][i].agent[2]

\* The listed session has started.
ListedStarted == \A a \in Agent : byUUID[a] # None => byUUID[a][2] <= sessions[a]

\* A session that is alive is yet to be announced, or was, and then it or a later
\* one is listed.
StartsAnnounced ==
    \A x \in alive :
        \/ byUUID[x[1]] # None /\ x[2] <= byUUID[x[1]][2]
        \/ \E i \in 1 .. Len(queue[x[1]]) :
              queue[x[1]][i].kind = "connected" /\ queue[x[1]][i].agent = x

\* A session that has ended, and is listed or yet to be, has an end that is yet to
\* be announced or is being handled.
EndsAnnounced ==
    \A a \in Agent :
        /\ byUUID[a] # None /\ byUUID[a] \notin alive =>
              call[a].step = "disconnect" \/ \E i \in 1 .. Len(queue[a]) : Ended(a, i)
        /\ \A i \in 1 .. Len(queue[a]) :
              queue[a][i].kind = "connected" /\ queue[a][i].agent \notin alive =>
                  \E j \in i + 1 .. Len(queue[a]) : Ended(a, j)

SessionsInv == AliveOK /\ AnnouncedInOrder /\ ListedStarted /\ StartsAnnounced /\ EndsAnnounced

LEMMA InitSessions == Init => SessionsInv
<1> SUFFICES ASSUME Init PROVE SessionsInv
  OBVIOUS
<1>1. \A a \in Agent : byUUID[a] = None /\ Len(queue[a]) = 0
  BY DEF Init
<1>2. alive = {}
  BY DEF Init
<1> QED
  BY <1>1, <1>2 DEF SessionsInv, AliveOK, AnnouncedInOrder, ListedStarted, StartsAnnounced, EndsAnnounced

LEMMA SessionsSame ==
    ASSUME SessionsInv, UNCHANGED <<serverVars, byUUID>>,
           \A a \in Agent : call[a].step = "disconnect" => call'[a].step = "disconnect"
    PROVE  SessionsInv'
BY DEF serverVars, SessionsInv, AliveOK, AnnouncedInOrder, ListedStarted, StartsAnnounced,
       EndsAnnounced, Ended

\* A new session is announced last and is the agent's latest.
LEMMA ConnectSessions ==
    ASSUME Typed, SessionsInv, NEW a \in Agent, Connect(a)
    PROVE  SessionsInv'
<1> DEFINE x == <<a, sessions[a] + 1>>
           e == [kind |-> "connected", agent |-> x]
<1>1. /\ sessions[a] < MaxSessions /\ alive' = alive \cup {x}
      /\ queue' = [queue EXCEPT ![a] = Append(@, e)]
      /\ sessions' = [sessions EXCEPT ![a] = @ + 1]
      /\ UNCHANGED <<byUUID, call>>
  BY DEF Connect, registryVars
<1>2. /\ sessions[a] \in Nat /\ sessions'[a] = sessions[a] + 1
      /\ \A b \in Agent \ {a} : sessions'[b] = sessions[b]
      /\ \A b \in Agent : sessions[b] \in Nat
      /\ \A b \in Agent : sessions[b] <= sessions'[b]
  BY <1>1, RegistryAssumption DEF Typed, TypeOK
<1>3. x \in Session /\ e \in Event /\ x[1] = a /\ x[2] = sessions[a] + 1
      /\ e.kind = "connected" /\ e.agent = x
  BY <1>1, <1>2, RegistryAssumption DEF Session, Event
<1>4. \A y \in alive : y \in Session /\ y[1] \in Agent /\ y[2] \in Nat
  BY SessionType DEF Typed, TypeOK
<1>5. AliveOK'
  <2>1. ASSUME NEW y \in alive, NEW k \in y[2] .. sessions'[y[1]]
        PROVE  <<y[1], k>> \in alive'
    BY <1>1, <1>2, <1>4, <2>1 DEF SessionsInv, AliveOK
  <2>2. \A y \in alive : y[2] <= sessions'[y[1]]
    BY <1>2, <1>4 DEF SessionsInv, AliveOK
  <2>3. x[2] <= sessions'[x[1]] /\ \A k \in x[2] .. sessions'[x[1]] : <<x[1], k>> \in alive'
    BY <1>1, <1>2
  <2> HIDE DEF x
  <2> QED
    BY <1>1, <2>1, <2>2, <2>3 DEF AliveOK
<1> HIDE DEF x, e
<1>6. /\ queue' \in [Agent -> Seq(Event)]
      /\ \A b \in Agent : Len(queue[b]) \in Nat
      /\ Len(queue'[a]) = Len(queue[a]) + 1
      /\ queue'[a][Len(queue[a]) + 1] = e
      /\ \A i \in 1 .. Len(queue[a]) : queue'[a][i] = queue[a][i]
      /\ \A b \in Agent \ {a} : queue'[b] = queue[b]
  BY <1>1, <1>3, EnqueueEffect DEF Typed
<1>7. \A b \in Agent : \A i \in 1 .. Len(queue[b]) : queue[b][i] \in Event /\ queue[b][i].agent[2] \in Nat
  <2>1. \A b \in Agent : \A i \in 1 .. Len(queue[b]) : queue[b][i] \in Event
    BY DEF Typed, FrameOK
  <2> QED
    BY <2>1, EventType, SessionType
<1>8. \A b \in Agent : byUUID[b] # None => byUUID[b][2] \in Nat
  BY SessionType DEF Typed, TypeOK
<1>9. AnnouncedInOrder'
  <2>1. ASSUME NEW i \in 1 .. Len(queue[a]), queue'[a][i].kind = "connected"
        PROVE  /\ queue'[a][i].agent[2] <= sessions'[a]
               /\ byUUID[a] # None => byUUID[a][2] < queue'[a][i].agent[2]
               /\ \A j \in 1 .. i - 1 :
                    queue'[a][j].kind = "connected" => queue'[a][j].agent[2] < queue'[a][i].agent[2]
    <3>1. queue'[a][i] = queue[a][i] /\ \A j \in 1 .. i - 1 : queue'[a][j] = queue[a][j]
      BY <1>6
    <3>2. /\ queue[a][i].agent[2] <= sessions[a]
          /\ byUUID[a] # None => byUUID[a][2] < queue[a][i].agent[2]
          /\ \A j \in 1 .. i - 1 :
                queue[a][j].kind = "connected" => queue[a][j].agent[2] < queue[a][i].agent[2]
      BY <2>1, <3>1 DEF SessionsInv, AnnouncedInOrder
    <3>3. queue[a][i].agent[2] <= sessions'[a]
      BY <1>2, <1>7, <3>2
    <3> QED
      BY <3>1, <3>2, <3>3
  <2>2. /\ e.agent[2] <= sessions'[a]
        /\ byUUID[a] # None => byUUID[a][2] < e.agent[2]
        /\ \A j \in 1 .. Len(queue[a]) :
             queue'[a][j].kind = "connected" => queue'[a][j].agent[2] < e.agent[2]
    <3>1. e.agent[2] = sessions[a] + 1
      BY <1>3
    <3>2. byUUID[a] # None => byUUID[a][2] <= sessions[a]
      BY DEF SessionsInv, ListedStarted
    <3>3. \A j \in 1 .. Len(queue[a]) :
             queue[a][j].kind = "connected" => queue[a][j].agent[2] <= sessions[a]
      BY DEF SessionsInv, AnnouncedInOrder
    <3>4. ASSUME NEW j \in 1 .. Len(queue[a]), queue'[a][j].kind = "connected"
          PROVE  queue'[a][j].agent[2] < e.agent[2]
      <4>1. queue'[a][j] = queue[a][j] /\ queue[a][j].agent[2] \in Nat
        BY <1>6, <1>7
      <4>2. queue[a][j].agent[2] <= sessions[a]
        BY <3>3, <3>4, <4>1
      <4> QED
        BY <1>2, <3>1, <4>1, <4>2
    <3> QED
      BY <1>2, <1>8, <3>1, <3>2, <3>4
  <2>3. ASSUME NEW i \in 1 .. Len(queue'[a]), queue'[a][i].kind = "connected"
        PROVE  /\ queue'[a][i].agent[2] <= sessions'[a]
               /\ byUUID[a] # None => byUUID[a][2] < queue'[a][i].agent[2]
               /\ \A j \in 1 .. i - 1 :
                    queue'[a][j].kind = "connected" => queue'[a][j].agent[2] < queue'[a][i].agent[2]
    <3>1. CASE i \in 1 .. Len(queue[a])
      BY <2>1, <2>3, <3>1
    <3>2. CASE i = Len(queue[a]) + 1
      BY <1>6, <2>2, <3>2
    <3> QED
      BY <1>6, <3>1, <3>2
  <2> QED
    BY <1>1, <1>2, <1>6, <2>3 DEF SessionsInv, AnnouncedInOrder
<1>10. ListedStarted'
  BY <1>1, <1>2, <1>8 DEF SessionsInv, ListedStarted
<1>11. StartsAnnounced'
  <2>1. queue'[a][Len(queue[a]) + 1].kind = "connected" /\ queue'[a][Len(queue[a]) + 1].agent = x
        /\ Len(queue[a]) + 1 \in 1 .. Len(queue'[a])
    BY <1>3, <1>6
  <2>2. ASSUME NEW y \in alive
        PROVE  \/ byUUID[y[1]] # None /\ y[2] <= byUUID[y[1]][2]
               \/ \E i \in 1 .. Len(queue'[y[1]]) :
                     queue'[y[1]][i].kind = "connected" /\ queue'[y[1]][i].agent = y
    <3>1. CASE y[1] = a
      <4>1. CASE byUUID[y[1]] # None /\ y[2] <= byUUID[y[1]][2]
        BY <4>1
      <4>2. ASSUME NEW i \in 1 .. Len(queue[y[1]]),
                   queue[y[1]][i].kind = "connected", queue[y[1]][i].agent = y
            PROVE  /\ i \in 1 .. Len(queue'[y[1]])
                   /\ queue'[y[1]][i] = queue[y[1]][i]
        BY <1>6, <3>1, <4>2
      <4> QED
        BY <4>1, <4>2 DEF SessionsInv, StartsAnnounced
    <3>2. CASE y[1] # a
      BY <1>4, <1>6, <3>2 DEF SessionsInv, StartsAnnounced
    <3> QED
      BY <3>1, <3>2
  <2> QED
    BY <1>1, <1>3, <2>1, <2>2 DEF StartsAnnounced
<1>12. EndsAnnounced'
  <2>1. ASSUME byUUID[a] # None, byUUID[a] \notin alive'
        PROVE  call[a].step = "disconnect" \/ \E i \in 1 .. Len(queue'[a]) : Ended(a, i)'
    BY <1>1, <1>6, <2>1 DEF SessionsInv, EndsAnnounced, Ended
  <2>2. ASSUME NEW i \in 1 .. Len(queue'[a]), queue'[a][i].kind = "connected", queue'[a][i].agent \notin alive'
        PROVE  \E j \in i + 1 .. Len(queue'[a]) : Ended(a, j)'
    <3>1. i \in 1 .. Len(queue[a])
      BY <1>1, <1>3, <1>6, <2>2
    <3>2. PICK j \in i + 1 .. Len(queue[a]) : Ended(a, j)
      BY <1>1, <1>6, <2>2, <3>1 DEF SessionsInv, EndsAnnounced
    <3> QED
      BY <1>6, <3>1, <3>2 DEF Ended
  <2> QED
    BY <1>1, <1>6, <2>1, <2>2 DEF SessionsInv, EndsAnnounced, Ended
<1> QED
  BY <1>5, <1>9, <1>10, <1>11, <1>12 DEF SessionsInv

\* What the events of the queues are about.
LEMMA QueuedEvents ==
    ASSUME Typed
    PROVE  \A b \in Agent : \A i \in 1 .. Len(queue[b]) :
               /\ queue[b][i] \in Event /\ queue[b][i].agent \in Session
               /\ queue[b][i].agent[1] = b /\ queue[b][i].agent[2] \in Nat
<1>1. \A b \in Agent : \A i \in 1 .. Len(queue[b]) : queue[b][i] \in Event /\ queue[b][i].agent[1] = b
  BY DEF Typed, FrameOK
<1> QED
  BY <1>1, EventType, SessionType

\* The oldest session ends, and its end is announced last.
LEMMA DisconnectSessions ==
    ASSUME Typed, SessionsInv, NEW x \in alive, Disconnect(x)
    PROVE  SessionsInv'
<1>0. PICK a \in Agent : a = x[1]
  BY SessionType DEF Typed, TypeOK
<1> DEFINE e == [kind |-> "disconnected", agent |-> x]
<1>1. /\ \A y \in alive : y[1] = a => x[2] <= y[2]
      /\ alive' = alive \ {x}
      /\ queue' = [queue EXCEPT ![a] = Append(@, e)]
      /\ UNCHANGED <<sessions, byUUID, call>>
  BY <1>0 DEF Disconnect, registryVars
<1>2. \A y \in alive : y \in Session /\ y[1] \in Agent /\ y[2] \in Nat /\ y = <<y[1], y[2]>>
  <2>1. alive \subseteq Session
    BY DEF Typed, TypeOK
  <2> QED
    BY <2>1, SessionType DEF Session
<1>3. e \in Event /\ e.kind = "disconnected"
  BY <1>2 DEF Event
<1>4. AliveOK'
  <2>1. ASSUME NEW y \in alive', NEW k \in y[2] .. sessions[y[1]]
        PROVE  <<y[1], k>> \in alive'
    <3>1. y \in alive /\ y # x
      BY <1>1
    <3>2. <<y[1], k>> \in alive
      BY <3>1 DEF SessionsInv, AliveOK
    <3>3. CASE <<y[1], k>> = x
      <4>1. y[1] = x[1] /\ k = x[2]
        BY <3>3
      <4>2. x[2] <= y[2] /\ y[2] <= x[2]
        BY <1>0, <1>1, <1>2, <2>1, <3>1, <4>1
      <4>3. y[2] = x[2]
        BY <1>2, <3>1, <4>2
      <4> QED
        BY <1>2, <3>1, <4>1, <4>3
    <3> QED
      BY <1>1, <3>2, <3>3
  <2> QED
    BY <1>1, <2>1 DEF SessionsInv, AliveOK
<1> HIDE DEF e
<1>6. /\ queue' \in [Agent -> Seq(Event)]
      /\ \A b \in Agent : Len(queue[b]) \in Nat
      /\ Len(queue'[a]) = Len(queue[a]) + 1
      /\ queue'[a][Len(queue[a]) + 1] = e
      /\ \A i \in 1 .. Len(queue[a]) : queue'[a][i] = queue[a][i]
      /\ \A b \in Agent \ {a} : queue'[b] = queue[b]
  BY <1>1, <1>3, EnqueueEffect DEF Typed
<1>7. \A i \in 1 .. Len(queue'[a]) :
         queue'[a][i].kind = "connected" => i \in 1 .. Len(queue[a]) /\ queue'[a][i] = queue[a][i]
  BY <1>3, <1>6
<1>8. AnnouncedInOrder'
  <2>1. ASSUME NEW i \in 1 .. Len(queue'[a]), queue'[a][i].kind = "connected"
        PROVE  /\ queue'[a][i].agent[2] <= sessions[a]
               /\ byUUID[a] # None => byUUID[a][2] < queue'[a][i].agent[2]
               /\ \A j \in 1 .. i - 1 :
                    queue'[a][j].kind = "connected" => queue'[a][j].agent[2] < queue'[a][i].agent[2]
    <3>1. /\ i \in 1 .. Len(queue[a]) /\ queue'[a][i] = queue[a][i]
          /\ \A j \in 1 .. i - 1 : queue'[a][j] = queue[a][j]
      BY <1>6, <1>7, <2>1
    <3> QED
      BY <2>1, <3>1 DEF SessionsInv, AnnouncedInOrder
  <2> QED
    BY <1>1, <1>6, <2>1 DEF SessionsInv, AnnouncedInOrder
<1>9. ListedStarted'
  BY <1>1 DEF SessionsInv, ListedStarted
<1>10. StartsAnnounced'
  <2>1. ASSUME NEW y \in alive
        PROVE  \/ byUUID[y[1]] # None /\ y[2] <= byUUID[y[1]][2]
               \/ \E i \in 1 .. Len(queue'[y[1]]) :
                     queue'[y[1]][i].kind = "connected" /\ queue'[y[1]][i].agent = y
    <3>1. CASE y[1] = a
      <4>1. CASE byUUID[y[1]] # None /\ y[2] <= byUUID[y[1]][2]
        BY <4>1
      <4>2. ASSUME NEW i \in 1 .. Len(queue[y[1]]),
                   queue[y[1]][i].kind = "connected", queue[y[1]][i].agent = y
            PROVE  /\ i \in 1 .. Len(queue'[y[1]])
                   /\ queue'[y[1]][i] = queue[y[1]][i]
        BY <1>6, <3>1, <4>2
      <4> QED
        BY <4>1, <4>2 DEF SessionsInv, StartsAnnounced
    <3>2. CASE y[1] # a
      BY <1>2, <1>6, <3>2 DEF SessionsInv, StartsAnnounced
    <3> QED
      BY <3>1, <3>2
  <2> QED
    BY <1>1, <2>1 DEF StartsAnnounced
<1>11. EndsAnnounced'
  <2>0. PICK n \in Nat : n = Len(queue[a]) + 1
    BY <1>6
  <2>1. Ended(a, n)' /\ n \in 1 .. Len(queue'[a])
    BY <1>3, <1>6, <2>0 DEF Ended
  <2>2. ASSUME NEW i \in 1 .. Len(queue'[a]), queue'[a][i].kind = "connected"
        PROVE  \E j \in i + 1 .. Len(queue'[a]) : Ended(a, j)'
    <3>1. i \in 1 .. Len(queue[a])
      BY <1>7, <2>2
    <3>2. n \in i + 1 .. Len(queue'[a])
      BY <1>6, <2>0, <3>1
    <3> QED
      BY <2>1, <3>2
  <2>3. ASSUME NEW b \in Agent \ {a}, byUUID[b] # None, byUUID[b] \notin alive'
        PROVE  call[b].step = "disconnect" \/ \E i \in 1 .. Len(queue[b]) : Ended(b, i)
    <3>1. byUUID[b] \notin alive
      BY <1>0, <1>1, <2>3 DEF Typed, FrameOK
    <3> QED
      BY <2>3, <3>1 DEF SessionsInv, EndsAnnounced
  <2>4. ASSUME NEW b \in Agent \ {a}, NEW i \in 1 .. Len(queue[b]),
               queue[b][i].kind = "connected", queue[b][i].agent \notin alive'
        PROVE  \E j \in i + 1 .. Len(queue[b]) : Ended(b, j)
    <3>1. queue[b][i].agent \notin alive
      BY <1>0, <1>1, <2>4, QueuedEvents
    <3> QED
      BY <2>4, <3>1 DEF SessionsInv, EndsAnnounced
  <2>5. \A b \in Agent \ {a} : \A i : Ended(b, i)' <=> Ended(b, i)
    BY <1>6 DEF Ended
  <2>6. \A b \in Agent \ {a} : queue'[b] = queue[b]
    BY <1>6
  <2>7. UNCHANGED <<byUUID, call>>
    BY <1>1
  <2> QED
    BY <2>1, <2>2, <2>3, <2>4, <2>5, <2>6, <2>7 DEF EndsAnnounced
<1> QED
  BY <1>4, <1>8, <1>9, <1>10, <1>11 DEF SessionsInv

\* When the first event of a queue is taken, the others keep their order.
LEMMA DequeueKeepsOrder ==
    ASSUME Typed, AnnouncedInOrder, NEW a \in Agent, queue[a] # <<>>, UNCHANGED sessions,
           queue' = [queue EXCEPT ![a] = Tail(@)],
           \A b \in Agent \ {a} : byUUID'[b] = byUUID[b],
           \/ byUUID'[a] = byUUID[a]
           \/ queue[a][1].kind = "connected" /\ byUUID'[a] = queue[a][1].agent
    PROVE  AnnouncedInOrder'
<1>1. /\ Len(queue[a]) \in Nat /\ Len(queue[a]) >= 1
      /\ Len(queue'[a]) = Len(queue[a]) - 1
      /\ \A i \in 1 .. Len(queue[a]) - 1 : queue'[a][i] = queue[a][i + 1]
      /\ \A b \in Agent \ {a} : queue'[b] = queue[b]
  BY DequeueEffect DEF Typed
<1>2. ASSUME NEW i \in 1 .. Len(queue'[a]), queue'[a][i].kind = "connected"
      PROVE  /\ queue'[a][i].agent[2] <= sessions[a]
             /\ byUUID'[a] # None => byUUID'[a][2] < queue'[a][i].agent[2]
             /\ \A j \in 1 .. i - 1 :
                  queue'[a][j].kind = "connected" => queue'[a][j].agent[2] < queue'[a][i].agent[2]
  <2>1. i + 1 \in 1 .. Len(queue[a]) /\ queue'[a][i] = queue[a][i + 1]
    BY <1>1
  <2>2. /\ queue[a][i + 1].agent[2] <= sessions[a]
        /\ byUUID[a] # None => byUUID[a][2] < queue[a][i + 1].agent[2]
        /\ \A j \in 1 .. (i + 1) - 1 :
             queue[a][j].kind = "connected" => queue[a][j].agent[2] < queue[a][i + 1].agent[2]
    BY <1>2, <2>1 DEF AnnouncedInOrder
  <2>3. byUUID'[a] # None => byUUID'[a][2] < queue'[a][i].agent[2]
    <3>1. CASE byUUID'[a] = byUUID[a]
      BY <2>1, <2>2, <3>1
    <3>2. CASE queue[a][1].kind = "connected" /\ byUUID'[a] = queue[a][1].agent
      <4>1. 1 \in 1 .. (i + 1) - 1
        BY <1>1
      <4> QED
        BY <2>1, <2>2, <3>2, <4>1
    <3> QED
      BY <3>1, <3>2
  <2>4. ASSUME NEW j \in 1 .. i - 1, queue'[a][j].kind = "connected"
        PROVE  queue'[a][j].agent[2] < queue'[a][i].agent[2]
    <3>1. j + 1 \in 1 .. (i + 1) - 1 /\ queue'[a][j] = queue[a][j + 1]
      BY <1>1, <2>1
    <3> QED
      BY <2>1, <2>2, <2>4, <3>1
  <2> QED
    BY <2>1, <2>2, <2>3, <2>4
<1>3. \A b \in Agent \ {a} : queue'[b] = queue[b] /\ byUUID'[b] = byUUID[b]
  BY <1>1
<1> QED
  BY <1>2, <1>3 DEF AnnouncedInOrder

\* When the first event of a queue is taken, a later end is still to come.
LEMMA DequeueKeepsEnds ==
    ASSUME Typed, EndsAnnounced, NEW a \in Agent, queue[a] # <<>>, UNCHANGED alive,
           queue' = [queue EXCEPT ![a] = Tail(@)],
           NEW i \in 1 .. Len(queue'[a]),
           queue'[a][i].kind = "connected", queue'[a][i].agent \notin alive
    PROVE  \E j \in i + 1 .. Len(queue'[a]) : Ended(a, j)'
<1>1. /\ Len(queue[a]) \in Nat /\ Len(queue[a]) >= 1
      /\ Len(queue'[a]) = Len(queue[a]) - 1
      /\ \A k \in 1 .. Len(queue[a]) - 1 : queue'[a][k] = queue[a][k + 1]
  BY DequeueEffect DEF Typed
<1>2. i + 1 \in 1 .. Len(queue[a]) /\ queue'[a][i] = queue[a][i + 1]
  BY <1>1
<1>3. PICK j \in (i + 1) + 1 .. Len(queue[a]) : Ended(a, j)
  BY <1>2 DEF EndsAnnounced
<1>4. PICK k \in i + 1 .. Len(queue'[a]) : k = j - 1
  BY <1>1, <1>2
<1>5. queue'[a][k] = queue[a][j]
  BY <1>1, <1>2, <1>3, <1>4
<1> QED
  BY <1>3, <1>4, <1>5 DEF Ended

LEMMA BeginConnectedSessions ==
    ASSUME Typed, SessionsInv, NEW a \in Agent, BeginConnected(a)
    PROVE  SessionsInv'
<1> DEFINE x == queue[a][1].agent
<1>1. /\ queue[a] # <<>> /\ queue' = [queue EXCEPT ![a] = Tail(@)]
      /\ queue[a][1].kind = "connected" /\ x \in Session /\ x[1] = a
      /\ byUUID'[a] = x /\ \A b \in Agent \ {a} : byUUID'[b] = byUUID[b]
      /\ call[a] = NoCall /\ \A b \in Agent \ {a} : call'[b] = call[b]
      /\ UNCHANGED <<sessions, alive>>
  BY BeginConnectedEffect
<1>2. /\ Len(queue[a]) \in Nat /\ Len(queue[a]) >= 1
      /\ Len(queue'[a]) = Len(queue[a]) - 1
      /\ \A i \in 1 .. Len(queue[a]) - 1 : queue'[a][i] = queue[a][i + 1]
      /\ \A b \in Agent \ {a} : queue'[b] = queue[b]
  BY <1>1, DequeueEffect DEF Typed
<1>3. x \in Session /\ x # None /\ x[2] \in Nat /\ x[2] <= sessions[a]
  BY <1>1, <1>2, SessionType DEF SessionsInv, AnnouncedInOrder
<1>4. byUUID[a] # None => byUUID[a][2] < x[2]
  BY <1>1, <1>2 DEF SessionsInv, AnnouncedInOrder
<1>5. AnnouncedInOrder'
  BY <1>1, DequeueKeepsOrder DEF SessionsInv
<1>6. AliveOK' /\ ListedStarted'
  BY <1>1, <1>3 DEF SessionsInv, AliveOK, ListedStarted
<1>7. StartsAnnounced'
  <2>1. ASSUME NEW y \in alive, y[1] = a
        PROVE  \/ y[2] <= x[2]
               \/ \E i \in 1 .. Len(queue'[a]) :
                     queue'[a][i].kind = "connected" /\ queue'[a][i].agent = y
    <3>1. y[2] \in Nat /\ (byUUID[a] # None => byUUID[a][2] \in Nat)
      BY SessionType DEF Typed, TypeOK
    <3>2. CASE byUUID[a] # None /\ y[2] <= byUUID[a][2]
      BY <1>3, <1>4, <3>1, <3>2
    <3>3. ASSUME NEW i \in 1 .. Len(queue[a]), queue[a][i].kind = "connected", queue[a][i].agent = y
          PROVE  \/ y[2] <= x[2]
                 \/ \E k \in 1 .. Len(queue'[a]) :
                       queue'[a][k].kind = "connected" /\ queue'[a][k].agent = y
      <4>1. CASE i = 1
        BY <1>3, <3>3, <4>1
      <4>2. CASE i # 1
        <5>1. PICK k \in 1 .. Len(queue'[a]) : k = i - 1
          BY <1>2, <4>2
        <5>2. queue'[a][k] = queue[a][i]
          BY <1>2, <4>2, <5>1
        <5> QED
          BY <3>3, <5>2
      <4> QED
        BY <4>1, <4>2
    <3> QED
      BY <2>1, <3>2, <3>3 DEF SessionsInv, StartsAnnounced
  <2>2. ASSUME NEW y \in alive, y[1] # a
        PROVE  \/ byUUID'[y[1]] # None /\ y[2] <= byUUID'[y[1]][2]
               \/ \E i \in 1 .. Len(queue'[y[1]]) :
                     queue'[y[1]][i].kind = "connected" /\ queue'[y[1]][i].agent = y
    <3>1. y[1] \in Agent \ {a}
      BY <2>2, SessionType DEF Typed, TypeOK
    <3>2. queue'[y[1]] = queue[y[1]] /\ byUUID'[y[1]] = byUUID[y[1]]
      BY <1>1, <1>2, <3>1
    <3> QED
      BY <3>2 DEF SessionsInv, StartsAnnounced
  <2>3. byUUID'[a] = x /\ x # None /\ alive' = alive
    BY <1>1, <1>3
  <2> HIDE DEF x
  <2> QED
    BY <2>1, <2>2, <2>3 DEF StartsAnnounced
<1>8. EndsAnnounced'
  <2>1. ASSUME x \notin alive PROVE \E i \in 1 .. Len(queue'[a]) : Ended(a, i)'
    <3>1. PICK j \in 1 + 1 .. Len(queue[a]) : Ended(a, j)
      BY <1>1, <1>2, <2>1 DEF SessionsInv, EndsAnnounced
    <3>2. PICK k \in 1 .. Len(queue'[a]) : k = j - 1
      BY <1>2, <3>1
    <3>3. queue'[a][k] = queue[a][j]
      BY <1>2, <3>1, <3>2
    <3> QED
      BY <3>1, <3>2, <3>3 DEF Ended
  <2>2. ASSUME NEW i \in 1 .. Len(queue'[a]), queue'[a][i].kind = "connected",
               queue'[a][i].agent \notin alive
        PROVE  \E j \in i + 1 .. Len(queue'[a]) : Ended(a, j)'
    BY <1>1, <2>2, DequeueKeepsEnds DEF SessionsInv
  <2>3. \A b \in Agent \ {a} : /\ queue'[b] = queue[b] /\ byUUID'[b] = byUUID[b] /\ call'[b] = call[b]
                               /\ \A i : Ended(b, i)' <=> Ended(b, i)
    BY <1>1, <1>2 DEF Ended
  <2>4. byUUID'[a] = x /\ alive' = alive
    BY <1>1
  <2> HIDE DEF x
  <2> QED
    BY <2>1, <2>2, <2>3, <2>4 DEF SessionsInv, EndsAnnounced
<1> QED
  BY <1>5, <1>6, <1>7, <1>8 DEF SessionsInv

LEMMA BeginDisconnectedSessions ==
    ASSUME Typed, SessionsInv, NEW a \in Agent, BeginDisconnected(a)
    PROVE  SessionsInv'
<1>1. /\ queue[a] # <<>> /\ queue' = [queue EXCEPT ![a] = Tail(@)]
      /\ queue[a][1].kind = "disconnected"
      /\ call'[a].step = "disconnect" /\ \A b \in Agent \ {a} : call'[b] = call[b]
      /\ UNCHANGED <<sessions, alive, byUUID>>
  BY BeginDisconnectedEffect DEF registryVars
<1>2. /\ Len(queue[a]) \in Nat /\ Len(queue[a]) >= 1
      /\ Len(queue'[a]) = Len(queue[a]) - 1
      /\ \A i \in 1 .. Len(queue[a]) - 1 : queue'[a][i] = queue[a][i + 1]
      /\ \A b \in Agent \ {a} : queue'[b] = queue[b]
  BY <1>1, DequeueEffect DEF Typed
<1>3. AnnouncedInOrder'
  BY <1>1, DequeueKeepsOrder DEF SessionsInv
<1>4. AliveOK' /\ ListedStarted'
  BY <1>1 DEF SessionsInv, AliveOK, ListedStarted
<1>5. StartsAnnounced'
  <2>1. ASSUME NEW y \in alive, y[1] = a, NEW i \in 1 .. Len(queue[a]),
               queue[a][i].kind = "connected", queue[a][i].agent = y
        PROVE  \E k \in 1 .. Len(queue'[a]) :
                  queue'[a][k].kind = "connected" /\ queue'[a][k].agent = y
    <3>1. PICK k \in 1 .. Len(queue'[a]) : k = i - 1
      BY <1>1, <1>2, <2>1
    <3>2. queue'[a][k] = queue[a][i]
      BY <1>1, <1>2, <2>1, <3>1
    <3> QED
      BY <2>1, <3>2
  <2>2. ASSUME NEW y \in alive
        PROVE  \/ byUUID[y[1]] # None /\ y[2] <= byUUID[y[1]][2]
               \/ \E i \in 1 .. Len(queue'[y[1]]) :
                     queue'[y[1]][i].kind = "connected" /\ queue'[y[1]][i].agent = y
    <3>1. CASE y[1] = a
      BY <2>1, <3>1 DEF SessionsInv, StartsAnnounced
    <3>2. CASE y[1] # a
      <4>1. queue'[y[1]] = queue[y[1]]
        BY <1>2, <3>2, SessionType DEF Typed, TypeOK
      <4> QED
        BY <4>1 DEF SessionsInv, StartsAnnounced
    <3> QED
      BY <3>1, <3>2
  <2> QED
    BY <1>1, <2>2 DEF StartsAnnounced
<1>6. EndsAnnounced'
  <2>1. ASSUME NEW i \in 1 .. Len(queue'[a]), queue'[a][i].kind = "connected",
               queue'[a][i].agent \notin alive
        PROVE  \E j \in i + 1 .. Len(queue'[a]) : Ended(a, j)'
    BY <1>1, <2>1, DequeueKeepsEnds DEF SessionsInv
  <2>2. \A b \in Agent \ {a} : /\ queue'[b] = queue[b] /\ call'[b] = call[b]
                               /\ \A i : Ended(b, i)' <=> Ended(b, i)
    BY <1>1, <1>2 DEF Ended
  <2>3. call'[a].step = "disconnect" /\ UNCHANGED <<byUUID, alive>>
    BY <1>1
  <2> QED
    BY <2>1, <2>2, <2>3 DEF SessionsInv, EndsAnnounced
<1> QED
  BY <1>3, <1>4, <1>5, <1>6 DEF SessionsInv

\* A listed session that is over is removed, and no session of the agent was
\* alive that counted on it: those that are, are later ones.
LEMMA UnlistSessions ==
    ASSUME Typed, SessionsInv, NEW a \in Agent, Unlist(a)
    PROVE  SessionsInv'
<1>1. /\ byUUID'[a] = IF Dropped(a, byUUID[a]) THEN None ELSE byUUID[a]
      /\ \A b \in Agent \ {a} : byUUID'[b] = byUUID[b] /\ call'[b] = call[b]
      /\ UNCHANGED <<sessions, alive, queue>>
  BY UnlistEffect DEF serverVars
<1>2. byUUID[a] # None => byUUID[a] \in Session /\ byUUID[a][1] = a /\ byUUID[a] = <<a, byUUID[a][2]>>
                          /\ byUUID[a][2] \in Nat
  <2>1. byUUID[a] # None => byUUID[a] \in Session /\ byUUID[a][1] = a
    BY DEF Typed, TypeOK, FrameOK
  <2> QED
    BY <2>1 DEF Session
<1>3. CASE Dropped(a, byUUID[a])
  <2>1. byUUID[a] # None /\ byUUID[a] \notin alive /\ byUUID'[a] = None
    BY <1>1, <1>3 DEF Dropped, Connected
  <2>2. ASSUME NEW y \in alive, y[1] = a PROVE ~(y[2] <= byUUID[a][2])
    <3>1. y[2] \in Nat /\ sessions[a] \in Nat
      BY SessionType, RegistryAssumption DEF Typed, TypeOK
    <3>2. byUUID[a][2] <= sessions[a]
      BY <2>1 DEF SessionsInv, ListedStarted
    <3>3. \A k \in y[2] .. sessions[a] : <<a, k>> \in alive
      BY <2>2 DEF SessionsInv, AliveOK
    <3> QED
      BY <1>2, <2>1, <3>1, <3>2, <3>3
  <2>3. StartsAnnounced'
    <3>1. ASSUME NEW y \in alive, y[1] = a
          PROVE  \E i \in 1 .. Len(queue[a]) :
                    queue[a][i].kind = "connected" /\ queue[a][i].agent = y
      BY <2>2, <3>1 DEF SessionsInv, StartsAnnounced
    <3>2. \A y \in alive : y[1] \in Agent
      BY SessionType DEF Typed, TypeOK
    <3> QED
      BY <1>1, <3>1, <3>2 DEF SessionsInv, StartsAnnounced
  <2>4. EndsAnnounced'
    BY <1>1, <2>1 DEF SessionsInv, EndsAnnounced, Ended
  <2>5. AliveOK' /\ ListedStarted'
    BY <1>1, <2>1 DEF SessionsInv, AliveOK, ListedStarted
  <2>6. AnnouncedInOrder'
    BY <1>1, <2>1 DEF SessionsInv, AnnouncedInOrder
  <2> QED
    BY <2>3, <2>4, <2>5, <2>6 DEF SessionsInv
<1>4. CASE ~Dropped(a, byUUID[a])
  <2>1. byUUID[a] # None => byUUID[a] \in alive
    BY <1>2, <1>4 DEF Dropped, Connected
  <2>2. byUUID' = byUUID
    BY <1>1, <1>4, UnlistEffect DEF Typed, TypeOK
  <2> QED
    BY <1>1, <2>1, <2>2 DEF SessionsInv, AliveOK, AnnouncedInOrder, ListedStarted, StartsAnnounced,
       EndsAnnounced, Ended
<1> QED
  BY <1>3, <1>4

LEMMA SessionsKept == Typed /\ SessionsInv /\ [Next]_vars => SessionsInv'
<1> SUFFICES ASSUME Typed, SessionsInv, [Next]_vars PROVE SessionsInv'
  OBVIOUS
<1>1. CASE UNCHANGED vars
  BY <1>1, SessionsSame DEF vars, registryVars
<1>2. ASSUME NEW a \in Agent, Connect(a) PROVE SessionsInv'
  BY <1>2, ConnectSessions
<1>3. ASSUME NEW x \in alive, Disconnect(x) PROVE SessionsInv'
  BY <1>3, DisconnectSessions
<1>4. CASE Request
  BY <1>4, SessionsSame DEF Request, registryVars
<1>5. ASSUME NEW a \in Agent, BeginConnected(a) PROVE SessionsInv'
  BY <1>5, BeginConnectedSessions
<1>6. ASSUME NEW a \in Agent, LoadConnected(a) PROVE SessionsInv'
  BY <1>6, LoadConnectedEffect, SessionsSame DEF registryVars
<1>7. ASSUME NEW a \in Agent, ListConnected(a) PROVE SessionsInv'
  BY <1>7, ListConnectedEffect, SessionsSame
<1>8. ASSUME NEW a \in Agent, BeginDisconnected(a) PROVE SessionsInv'
  BY <1>8, BeginDisconnectedSessions
<1>9. ASSUME NEW a \in Agent, Unlist(a) PROVE SessionsInv'
  BY <1>9, UnlistSessions
<1>10. ASSUME NEW s \in Saver, SaveInStore(s) PROVE SessionsInv'
  BY <1>10, SessionsSame DEF SaveInStore, registryVars
<1>11. ASSUME NEW s \in Saver, ListSaved(s) PROVE SessionsInv'
  BY <1>11, SessionsSame DEF ListSaved
<1>12. ASSUME NEW p \in Caller, Notify(p) PROVE SessionsInv'
  BY <1>12, SessionsSame DEF Notify, registryVars
<1>13. CASE Restart
  <2>1. /\ alive' = {}
        /\ \A a \in Agent : byUUID'[a] = None /\ queue'[a] = <<>>
    BY <1>13, RestartEffect
  <2> QED
    BY <2>1 DEF SessionsInv, AliveOK, AnnouncedInOrder, ListedStarted, StartsAnnounced,
                EndsAnnounced, Ended
<1> QED
  BY <1>1, <1>2, <1>3, <1>4, <1>5, <1>6, <1>7, <1>8, <1>9, <1>10, <1>11, <1>12, <1>13
     DEF Next, Serve

\* Between listener calls the agents listed by uuid are exactly the ones that are
\* connected, although onAgentDisconnected does not ask which session ended and
\* the end of one may be handled after the next has been listed.
THEOREM ListedWhileConnected == Spec => []ListedAreConnected
<1>1. Typed /\ SessionsInv => ListedAreConnected
  <2> SUFFICES ASSUME Typed, SessionsInv, Quiet, NEW a \in Agent
               PROVE  IF byUUID[a] = None THEN \A x \in alive : x[1] # a ELSE Connected(byUUID[a])
    BY DEF ListedAreConnected
  <2>1. Len(queue[a]) = 0 /\ call[a].step = "none"
    BY DEF Quiet, NoCall
  <2>2. byUUID[a] # None => byUUID[a] \in alive
    BY <2>1 DEF SessionsInv, EndsAnnounced
  <2>3. byUUID[a] = None => \A x \in alive : x[1] # a
    BY <2>1 DEF SessionsInv, StartsAnnounced
  <2> QED
    BY <2>2, <2>3 DEF Connected
<1>2. Spec => []SessionsInv
  BY InitSessions, SessionsKept, AlwaysTyped, PTL DEF Spec
<1> QED
  BY <1>1, <1>2, AlwaysTyped, PTL

-----------------------------------------------------------------------------
(* The agents listed by guild *)

\* saveAgentGuildId has given the guild to the agent and comes to the maps next.
Given(g, a) == \E s \in saved : guild[s] = g /\ uuid[s] = a

\* A guild that is listed with a session is the agent's; or it has no agent and a
\* call is about to give it one, or a call has done so and is about to list it.
GuildOwned(g) ==
    \/ byGuild[g] = None
    \/ Owners(g) = {byGuild[g][1]}
    \/ Owners(g) = {} /\ \E s \in Saver : guild[s] = g /\ pc[s] = "add"
    \/ \E a \in Owners(g) : Given(g, a)

\* A guild is listed with what is listed for its agent, or it is to be: by a call
\* that gave it to the agent, or by the listener's call for the agent's session.
GuildServed(g) ==
    \A a \in Owners(g) :
        \/ byGuild[g] = byUUID[a]
        \/ Given(g, a)
        \/ call[a].step = "load"
        \/ call[a].step = "connect" /\ g \in call[a].guilds

MapsOK == \A g \in Guild : GuildOwned(g) /\ GuildServed(g)

\* While no map was written from old assignments and no database call failed.
MapsInv == ~stale /\ errors = 0 => MapsOK

\* What a step of saveAgentGuildId does to the assignments when no call fails.
LEMMA SaveStepCases ==
    ASSUME Owned, NEW s \in Saver, SaveStep(s), errors' = 0
    PROVE  /\ errors = 0
           /\ \/ UNCHANGED guildIds /\ pc[s] # "add"
              \/ /\ pc[s] = "pull" /\ pc'[s] = "add"
                 /\ \A a \in Agent : guildIds'[a] \subseteq guildIds[a]
                 /\ \A a \in Agent, g \in Guild \ {guild[s]} : g \in guildIds'[a] <=> g \in guildIds[a]
              \/ /\ pc[s] = "add" /\ pc'[s] = "true" /\ MayAdd(uuid[s], guild[s])
                 /\ \A a \in Agent : guildIds'[a] = IF a = uuid[s] THEN guildIds[a] \cup {guild[s]}
                                                    ELSE guildIds[a]
              \/ pc[s] = "add" /\ UNCHANGED guildIds /\ ~MayAdd(uuid[s], guild[s])
              \/ pc[s] = "restore" /\ guildIds' # guildIds
<1>1. ~Throws
  BY ThrowCounts DEF Owned
<1>2. CASE Load(s)
  BY <1>1, <1>2 DEF Load, At
<1>3. CASE Check(s)
  BY <1>1, <1>3 DEF Check, At
<1>4. CASE Pull(s)
  <2>1. /\ guildIds' = [guildIds EXCEPT ![previous[s]] = Without(previous[s], guild[s])]
        /\ Goto(s, "add") /\ UNCHANGED errors /\ pc[s] = "pull"
    BY <1>1, <1>4 DEF Pull, At
  <2>2. pc'[s] = "add"
    BY <2>1 DEF Goto, Owned, StoreTypeOK
  <2>3. \A a \in Agent : guildIds'[a] \subseteq guildIds[a]
    BY <2>1 DEF Without, Owned, StoreTypeOK
  <2>4. \A a \in Agent, g \in Guild \ {guild[s]} : g \in guildIds'[a] <=> g \in guildIds[a]
    BY <2>1 DEF Without, Owned, StoreTypeOK
  <2> QED
    BY <1>4, <2>1, <2>2, <2>3, <2>4
<1>5. CASE Add(s)
  <2>1. CASE /\ MayAdd(uuid[s], guild[s]) /\ Assign(uuid[s], guild[s])
             /\ Return(s, "true") /\ UNCHANGED errors /\ pc[s] = "add"
    <3>1. pc'[s] = "true"
      BY <2>1 DEF Return, Goto, Owned, StoreTypeOK
    <3>2. \A a \in Agent : guildIds'[a] = IF a = uuid[s] THEN guildIds[a] \cup {guild[s]} ELSE guildIds[a]
      BY <2>1 DEF Assign, Owned, StoreTypeOK
    <3> QED
      BY <2>1, <3>1, <3>2
  <2>2. CASE ~MayAdd(uuid[s], guild[s]) /\ UNCHANGED <<guildIds, errors>> /\ pc[s] = "add"
    BY <2>2
  <2> QED
    BY <1>1, <1>5, <2>1, <2>2 DEF Add, At
<1>6. CASE Restore(s)
  BY <1>1, <1>6 DEF Restore, At
<1> QED
  BY <1>2, <1>3, <1>4, <1>5, <1>6 DEF SaveStep

\* A guild has one owner or none.
LEMMA OwnersFew ==
    ASSUME Owned, NEW g, NEW a \in Owners(g)
    PROVE  Owners(g) = {a} /\ a \in Agent
BY DEF Owned, OneOwner, Owners

LEMMA InitMaps == Init => MapsInv
<1> SUFFICES ASSUME Init PROVE MapsOK
  BY DEF MapsInv
<1>1. \A g \in Guild : byGuild[g] = None
  BY DEF Init
<1>2. \A g \in Guild : \A a \in Owners(g) : byUUID[a] = None
  BY DEF Init, Owners
<1> QED
  BY <1>1, <1>2 DEF MapsOK, GuildOwned, GuildServed

\* A step of the collection.
LEMMA SaveInStoreMaps ==
    ASSUME Typed, MapsInv, NEW s \in Saver, SaveInStore(s)
    PROVE  MapsInv'
<1> SUFFICES ASSUME ~stale', errors' = 0 PROVE MapsOK'
  BY DEF MapsInv
<1>1. /\ SaveStep(s)
      /\ saved' = IF pc'[s] = "true" THEN saved \cup {s} ELSE saved
      /\ ~stale /\ ~(pc[s] = "restore" /\ guildIds' # guildIds)
      /\ UNCHANGED <<call, byUUID, byGuild>>
  BY DEF SaveInStore, At, registryVars
<1>2. Owned /\ Owned'
  BY SaveInStoreTyped DEF Typed
<1>3. /\ errors = 0 /\ Saving(s) /\ UNCHANGED <<uuid, guild>>
      /\ \A t \in Saver \ {s} : pc'[t] = pc[t]
  BY <1>1, <1>2, SaveStepCases, SaveStepEffect
<1>4. MapsOK
  BY <1>1, <1>3 DEF MapsInv
<1>5. \A g, a : Given(g, a) => Given(g, a)'
  BY <1>1, <1>3 DEF Given
<1>6. guild[s] \in Guild /\ uuid[s] \in Agent
  BY <1>2, <1>3 DEF Owned, ArgumentsGiven, Saving
<1>7. CASE UNCHANGED guildIds /\ pc[s] # "add"
  <2>1. \A g : Owners(g)' = Owners(g)
    BY <1>7 DEF Owners
  <2>2. \A t \in Saver : pc[t] = "add" => pc'[t] = "add"
    BY <1>3, <1>7
  <2> QED
    BY <1>1, <1>3, <1>4, <1>5, <2>1, <2>2 DEF MapsOK, GuildOwned, GuildServed
<1>8. CASE /\ pc[s] = "pull" /\ pc'[s] = "add"
           /\ \A a \in Agent : guildIds'[a] \subseteq guildIds[a]
           /\ \A a \in Agent, g \in Guild \ {guild[s]} : g \in guildIds'[a] <=> g \in guildIds[a]
  <2>1. \A t \in Saver : pc[t] = "add" => pc'[t] = "add"
    BY <1>3, <1>8
  <2>2. \A g \in Guild \ {guild[s]} : Owners(g)' = Owners(g)
    BY <1>8 DEF Owners
  <2>3. \A g \in Guild : Owners(g)' \subseteq Owners(g)
    BY <1>8 DEF Owners
  <2>4. \A g \in Guild : GuildServed(g)'
    BY <1>1, <1>4, <1>5, <2>3 DEF MapsOK, GuildServed
  <2>5. \A g \in Guild \ {guild[s]} : GuildOwned(g)'
    BY <1>1, <1>3, <1>4, <1>5, <2>1, <2>2 DEF MapsOK, GuildOwned
  <2>6. GuildOwned(guild[s])'
    <3>1. CASE Owners(guild[s])' = {}
      BY <1>3, <1>8, <3>1 DEF GuildOwned
    <3>2. CASE Owners(guild[s])' # {}
      <4>1. Owners(guild[s])' = Owners(guild[s])
        BY <1>2, <1>3, <1>6, <2>3, <3>2, OwnersFew
      <4> QED
        BY <1>1, <1>3, <1>4, <1>5, <1>6, <2>1, <4>1 DEF MapsOK, GuildOwned
    <3> QED
      BY <3>1, <3>2
  <2>7. \A g \in Guild : GuildOwned(g)'
    BY <1>3, <2>5, <2>6
  <2> QED
    BY <2>4, <2>7 DEF MapsOK
<1>9. CASE /\ pc[s] = "add" /\ pc'[s] = "true" /\ MayAdd(uuid[s], guild[s])
           /\ \A a \in Agent : guildIds'[a] = IF a = uuid[s] THEN guildIds[a] \cup {guild[s]}
                                              ELSE guildIds[a]
  <2>1. \A g \in Guild \ {guild[s]} : Owners(g)' = Owners(g)
    BY <1>9 DEF Owners
  <2>2. \A g \in Guild \ {guild[s]} : \A t \in Saver : guild[t] = g /\ pc[t] = "add" => pc'[t] = "add"
    BY <1>3
  <2>3. \A g \in Guild \ {guild[s]} : GuildOwned(g)' /\ GuildServed(g)'
    BY <1>1, <1>3, <1>4, <1>5, <2>1, <2>2 DEF MapsOK, GuildOwned, GuildServed
  <2>4. Given(guild[s], uuid[s])' /\ uuid[s] \in Owners(guild[s])'
    <3>1. guild'[s] = guild[s] /\ uuid'[s] = uuid[s] /\ s \in saved'
      BY <1>1, <1>3, <1>9
    <3>2. guild[s] \in guildIds'[uuid[s]]
      BY <1>6, <1>9
    <3> QED
      BY <1>6, <3>1, <3>2 DEF Given, Owners
  <2>5. Owners(guild[s])' = {uuid[s]}'
    <3>1. \A a \in Agent : guild[s] \in guildIds[a] => a = uuid[s]
      BY <1>9 DEF MayAdd, Owners
    <3>2. \A a \in Agent : guild[s] \in guildIds'[a] <=> a = uuid[s]
      BY <1>6, <1>9, <3>1
    <3> QED
      BY <1>3, <1>6, <3>2 DEF Owners
  <2>6. GuildOwned(guild[s])' /\ GuildServed(guild[s])'
    BY <2>4, <2>5 DEF GuildOwned, GuildServed
  <2> QED
    BY <1>3, <2>3, <2>6 DEF MapsOK
<1>10. CASE pc[s] = "add" /\ UNCHANGED guildIds /\ ~MayAdd(uuid[s], guild[s])
  <2>1. \A g : Owners(g)' = Owners(g)
    BY <1>10 DEF Owners
  <2>2. Owners(guild[s]) # {}
    BY <1>10 DEF MayAdd
  <2>3. \A g \in Guild : Owners(g) = {} =>
           \A t \in Saver : guild[t] = g /\ pc[t] = "add" => pc'[t] = "add"
    BY <1>3, <2>2
  <2> QED
    BY <1>1, <1>3, <1>4, <1>5, <2>1, <2>3 DEF MapsOK, GuildOwned, GuildServed
<1> QED
  BY <1>1, <1>2, <1>7, <1>8, <1>9, <1>10, SaveStepCases

\* A call that gave a guild to an agent lists it with the agent's session.
LEMMA ListSavedMaps ==
    ASSUME Typed, MapsInv, NEW s \in Saver, ListSaved(s)
    PROVE  MapsInv'
<1> SUFFICES ASSUME ~stale', errors' = 0 PROVE MapsOK'
  BY DEF MapsInv
<1>1. /\ s \in saved /\ saved' = saved \ {s}
      /\ uuid[s] \in Agent /\ guild[s] \in Guild
      /\ byGuild' = [byGuild EXCEPT ![guild[s]] = byUUID[uuid[s]]]
      /\ stale' = (stale \/ Owners(guild[s]) # {uuid[s]})
      /\ UNCHANGED <<guildIds, pc, uuid, guild, errors, call, byUUID>>
  BY ListSavedEffect DEF storeVars, callVars
<1>2. MapsOK /\ Owners(guild[s]) = {uuid[s]}
  BY <1>1 DEF MapsInv
<1>3. \A g : Owners(g)' = Owners(g)
  BY <1>1 DEF Owners
<1>4. \A g \in Guild \ {guild[s]} : byGuild'[g] = byGuild[g] /\ \A a : Given(g, a) => Given(g, a)'
  BY <1>1 DEF Given, Typed, TypeOK
<1>5. \A g \in Guild \ {guild[s]} : GuildOwned(g)' /\ GuildServed(g)'
  BY <1>1, <1>2, <1>3, <1>4 DEF MapsOK, GuildOwned, GuildServed
<1>6. byGuild'[guild[s]] = byUUID[uuid[s]]
  BY <1>1 DEF Typed, TypeOK
<1>7. byUUID[uuid[s]] # None => byUUID[uuid[s]][1] = uuid[s]
  BY <1>1 DEF Typed, FrameOK
<1>8. GuildOwned(guild[s])' /\ GuildServed(guild[s])'
  BY <1>1, <1>2, <1>3, <1>6, <1>7 DEF GuildOwned, GuildServed
<1> QED
  BY <1>1, <1>5, <1>8 DEF MapsOK

\* Steps that change neither the maps nor the assignments.
LEMMA MapsSame ==
    ASSUME Typed, MapsInv, stale' = stale, errors' = 0 => errors = 0,
           UNCHANGED <<guildIds, saved, byGuild, byUUID, call>>,
           \A s \in Saver : \/ pc'[s] = pc[s] /\ uuid'[s] = uuid[s] /\ guild'[s] = guild[s]
                            \/ pc[s] = "idle"
    PROVE  MapsInv'
<1> SUFFICES ASSUME ~stale', errors' = 0 PROVE MapsOK'
  BY DEF MapsInv
<1>1. MapsOK
  BY DEF MapsInv
<1>2. \A s \in saved : s \in Saver /\ pc[s] = "true"
  BY DEF Typed, TypeOK, NoticesFree
<1>3. \A g, a : Given(g, a) => Given(g, a)'
  BY <1>2 DEF Given
<1>4. \A g : Owners(g)' = Owners(g)
  BY DEF Owners
<1> QED
  BY <1>1, <1>3, <1>4 DEF MapsOK, GuildOwned, GuildServed

\* Steps of the listener's calls that change no guild's entry.
LEMMA BeginConnectedMaps ==
    ASSUME Typed, MapsInv, NEW a \in Agent, BeginConnected(a)
    PROVE  MapsInv'
<1> SUFFICES ASSUME ~stale', errors' = 0 PROVE MapsOK'
  BY DEF MapsInv
<1>1. /\ call'[a].step = "load"
      /\ \A b \in Agent \ {a} : byUUID'[b] = byUUID[b] /\ call'[b] = call[b]
      /\ UNCHANGED <<guildIds, pc, uuid, guild, errors, byGuild, saved, stale>>
  BY BeginConnectedEffect DEF storeVars, callVars
<1>2. MapsOK
  BY <1>1 DEF MapsInv
<1>3. \A g : Owners(g)' = Owners(g) /\ Owners(g) \subseteq Agent /\ \A b : Given(g, b)' <=> Given(g, b)
  BY <1>1 DEF Owners, Given
<1>4. \A g \in Guild : GuildOwned(g)'
  BY <1>1, <1>2, <1>3 DEF MapsOK, GuildOwned
<1>5. \A g \in Guild : GuildServed(g)'
  BY <1>1, <1>2, <1>3 DEF MapsOK, GuildServed
<1> QED
  BY <1>4, <1>5 DEF MapsOK

LEMMA LoadConnectedMaps ==
    ASSUME Typed, MapsInv, NEW a \in Agent, LoadConnected(a)
    PROVE  MapsInv'
<1> SUFFICES ASSUME ~stale', errors' = 0 PROVE MapsOK'
  BY DEF MapsInv
<1>1. /\ \/ call'[a] = NoCall /\ guildIds[a] = {}
         \/ call'[a].step = "connect" /\ call'[a].guilds = guildIds[a]
      /\ \A b \in Agent \ {a} : call'[b] = call[b]
      /\ errors = 0
      /\ UNCHANGED <<guildIds, pc, uuid, guild, byGuild, byUUID, saved, stale>>
  BY LoadConnectedEffect DEF callVars, registryVars
<1>2. MapsOK
  BY <1>1 DEF MapsInv
<1>3. \A g : Owners(g)' = Owners(g) /\ Owners(g) \subseteq Agent /\ \A b : Given(g, b)' <=> Given(g, b)
  BY <1>1 DEF Owners, Given
<1>4. \A g \in Guild : GuildOwned(g)'
  BY <1>1, <1>2, <1>3 DEF MapsOK, GuildOwned
<1>5. \A g : a \in Owners(g) => call'[a].step = "connect" /\ g \in call'[a].guilds
  BY <1>1 DEF Owners
<1>6. \A g \in Guild : GuildServed(g)'
  BY <1>1, <1>2, <1>3, <1>5 DEF MapsOK, GuildServed
<1> QED
  BY <1>4, <1>6 DEF MapsOK

LEMMA BeginDisconnectedMaps ==
    ASSUME Typed, MapsInv, NEW a \in Agent, BeginDisconnected(a)
    PROVE  MapsInv'
<1> SUFFICES ASSUME ~stale', errors' = 0 PROVE MapsOK'
  BY DEF MapsInv
<1>1. /\ call[a].step = "none" /\ \A b \in Agent \ {a} : call'[b] = call[b]
      /\ errors = 0
      /\ UNCHANGED <<guildIds, pc, uuid, guild, byGuild, byUUID, saved, stale>>
  BY BeginDisconnectedEffect DEF callVars, registryVars, NoCall
<1>2. MapsOK
  BY <1>1 DEF MapsInv
<1>3. \A g : Owners(g)' = Owners(g) /\ Owners(g) \subseteq Agent /\ \A b : Given(g, b)' <=> Given(g, b)
  BY <1>1 DEF Owners, Given
<1>4. \A g \in Guild : GuildOwned(g)'
  BY <1>1, <1>2, <1>3 DEF MapsOK, GuildOwned
<1>5. \A g \in Guild : GuildServed(g)'
  BY <1>1, <1>2, <1>3 DEF MapsOK, GuildServed
<1> QED
  BY <1>4, <1>5 DEF MapsOK

\* A connected agent is listed for the guilds that are still its own.
LEMMA ListConnectedMaps ==
    ASSUME Typed, MapsInv, NEW a \in Agent, ListConnected(a)
    PROVE  MapsInv'
<1> SUFFICES ASSUME ~stale', errors' = 0 PROVE MapsOK'
  BY DEF MapsInv
<1>1. PICK S \in SUBSET Guild : S = call[a].guilds
  BY ListConnectedEffect
<1>2. /\ call[a].step = "connect" /\ byUUID[a] = call[a].agent /\ call[a].agent \in Session
      /\ byGuild' = [g \in Guild |-> IF g \in S THEN byUUID[a] ELSE byGuild[g]]
      /\ stale' = (stale \/ \E g \in S : Owners(g) # {a})
      /\ \A b \in Agent \ {a} : call'[b] = call[b]
      /\ UNCHANGED <<guildIds, pc, uuid, guild, errors, byUUID, saved>>
  BY <1>1, ListConnectedEffect DEF storeVars, callVars
<1>3. MapsOK /\ \A g \in S : Owners(g) = {a}
  BY <1>2 DEF MapsInv
<1>4. \A g : Owners(g)' = Owners(g) /\ Owners(g) \subseteq Agent /\ \A b : Given(g, b)' <=> Given(g, b)
  BY <1>2 DEF Owners, Given
<1>5. byUUID[a] # None /\ byUUID[a][1] = a
  BY <1>2, RegistryAssumption DEF Typed, FrameOK
<1>6. \A g \in S : GuildOwned(g)' /\ GuildServed(g)'
  BY <1>2, <1>3, <1>4, <1>5 DEF GuildOwned, GuildServed
<1>7. \A g \in Guild \ S : GuildOwned(g)'
  BY <1>2, <1>3, <1>4 DEF MapsOK, GuildOwned
<1>8. ASSUME NEW g \in Guild \ S PROVE GuildServed(g)'
  <2>1. byGuild'[g] = byGuild[g]
    BY <1>2
  <2>2. GuildServed(g)
    BY <1>3 DEF MapsOK
  <2>3. ~(call[a].step = "load") /\ ~(g \in call[a].guilds)
    BY <1>1, <1>2
  <2> QED
    BY <1>2, <1>4, <2>1, <2>2, <2>3 DEF GuildServed
<1> QED
  BY <1>6, <1>7, <1>8 DEF MapsOK

\* What is over is removed from both maps, unless the guilds loaded are not all.
LEMMA UnlistMaps ==
    ASSUME Typed, MapsInv, NEW a \in Agent, Unlist(a)
    PROVE  MapsInv'
<1> SUFFICES ASSUME ~stale', errors' = 0 PROVE MapsOK'
  BY DEF MapsInv
<1>1. /\ call[a].step = "disconnect"
      /\ byGuild' = [g \in Guild |-> IF g \in LostGuilds(a) THEN None ELSE byGuild[g]]
      /\ byUUID'[a] = IF Dropped(a, byUUID[a]) THEN None ELSE byUUID[a]
      /\ stale' = (stale \/ ~(guildIds[a] \subseteq call[a].guilds))
      /\ \A b \in Agent \ {a} : byUUID'[b] = byUUID[b] /\ call'[b] = call[b]
      /\ UNCHANGED <<guildIds, pc, uuid, guild, errors, saved>>
  BY UnlistEffect DEF storeVars, callVars
<1>2. MapsOK /\ guildIds[a] \subseteq call[a].guilds
  BY <1>1 DEF MapsInv
<1>3. \A g : Owners(g)' = Owners(g) /\ Owners(g) \subseteq Agent /\ \A b : Given(g, b)' <=> Given(g, b)
  BY <1>1 DEF Owners, Given
<1>4. \A g \in Guild : byGuild'[g] = IF g \in LostGuilds(a) THEN None ELSE byGuild[g]
  BY <1>1
<1>5. \A g \in Guild : GuildOwned(g)'
  BY <1>1, <1>2, <1>3, <1>4 DEF MapsOK, GuildOwned
<1>6. ASSUME NEW g \in Guild, NEW b \in Owners(g), byGuild[g] = byUUID[b]
      PROVE  byGuild'[g] = byUUID'[b]
  <2>1. CASE b = a
    <3>1. g \in call[a].guilds
      BY <1>2, <1>6, <2>1 DEF Owners
    <3> QED
      BY <1>1, <1>4, <1>6, <2>1, <3>1 DEF LostGuilds
  <2>2. CASE b # a
    <3>1. b \in Agent \ {a}
      BY <2>2 DEF Owners
    <3>2. byUUID[b] # None => byUUID[b][1] = b
      BY <3>1 DEF Typed, FrameOK
    <3>3. g \notin LostGuilds(a)
      BY <1>6, <2>2, <3>2 DEF LostGuilds, Dropped
    <3> QED
      BY <1>1, <1>4, <1>6, <3>1, <3>3
  <2> QED
    BY <2>1, <2>2
<1>7. ASSUME NEW g \in Guild PROVE GuildServed(g)'
  <2>1. GuildServed(g)
    BY <1>2 DEF MapsOK
  <2>2. ~(call[a].step \in {"load", "connect"})
    BY <1>1
  <2> QED
    BY <1>1, <1>3, <1>6, <2>1, <2>2 DEF GuildServed
<1> QED
  BY <1>5, <1>7 DEF MapsOK

LEMMA MapsKept == Typed /\ MapsInv /\ [Next]_vars => MapsInv'
<1> SUFFICES ASSUME Typed, MapsInv, [Next]_vars PROVE MapsInv'
  OBVIOUS
<1>1. CASE UNCHANGED vars
  BY <1>1, MapsSame DEF vars, storeVars, callVars, registryVars
<1>2. ASSUME NEW a \in Agent, Connect(a) PROVE MapsInv'
  BY <1>2, MapsSame DEF Connect, storeVars, callVars, registryVars
<1>3. ASSUME NEW x \in alive, Disconnect(x) PROVE MapsInv'
  BY <1>3, MapsSame DEF Disconnect, storeVars, callVars, registryVars
<1>4. CASE Request
  BY <1>4, RequestEffect, MapsSame DEF Typed, registryVars
<1>5. ASSUME NEW p \in Caller, Notify(p) PROVE MapsInv'
  BY <1>5, MapsSame DEF Notify, storeVars, callVars, registryVars
<1>6. CASE Serve
  BY <1>6, BeginConnectedMaps, LoadConnectedMaps, ListConnectedMaps, BeginDisconnectedMaps,
     UnlistMaps, SaveInStoreMaps, ListSavedMaps DEF Serve
<1>7. CASE Restart
  <2>1. /\ \A g \in Guild : byGuild'[g] = None
        /\ \A g \in Guild : \A a \in Owners(g)' : byUUID'[a] = None
    BY <1>7, RestartEffect DEF Owners
  <2> QED
    BY <2>1 DEF MapsInv, MapsOK, GuildOwned, GuildServed
<1> QED
  BY <1>1, <1>2, <1>3, <1>4, <1>5, <1>6, <1>7 DEF Next

LEMMA AlwaysMaps == Spec => []MapsInv
BY InitMaps, MapsKept, AlwaysTyped, PTL DEF Spec

\* Outside the moves of a guild connectedAgent gives it no session of an agent it
\* is not assigned to, however many calls of saveAgentGuildId overlap with the
\* listener's: the third alternative of GuildOwned is what Pull leaves behind.
THEOREM GuildsListOwners == Spec => []ListedOwns
<1>1. Typed /\ MapsInv => ListedOwns
  <2> SUFFICES ASSUME Typed, MapsInv, ~stale, errors = 0, NEW g \in Guild, ~Moving(g)
               PROVE  byGuild[g] = None \/ Owners(g) = {byGuild[g][1]}
    BY DEF ListedOwns
  <2>1. GuildOwned(g)
    BY DEF MapsInv, MapsOK
  <2>2. ~(\E s \in Saver : guild[s] = g /\ pc[s] = "add")
    BY DEF Moving, Saving
  <2>3. \A a : ~Given(g, a)
    BY DEF Moving, Given, Typed, TypeOK
  <2> QED
    BY <2>1, <2>2, <2>3 DEF GuildOwned
<1> QED
  BY <1>1, AlwaysTyped, AlwaysMaps, PTL

\* When nothing is in progress every guild is listed with what is listed for its
\* agent, and with nothing when it has none.
THEOREM QuietGuildsServed == Spec => []GuildsServed
<1>1. Typed /\ MapsInv => GuildsServed
  <2> SUFFICES ASSUME Typed, MapsInv, Quiet, ~stale, errors = 0, NEW g \in Guild
               PROVE  byGuild[g] = IF Owners(g) = {} THEN None
                                   ELSE byUUID[CHOOSE a \in Owners(g) : TRUE]
    BY DEF GuildsServed
  <2>1. GuildOwned(g) /\ GuildServed(g)
    BY DEF MapsInv, MapsOK
  <2>2. saved = {} /\ \A s \in Saver : pc[s] # "add"
    BY DEF Quiet, Saving
  <2>3. CASE Owners(g) = {}
    BY <2>1, <2>2, <2>3 DEF GuildOwned
  <2>4. CASE Owners(g) # {}
    <3>1. PICK a : a = CHOOSE b \in Owners(g) : TRUE
      OBVIOUS
    <3>2. a \in Owners(g) /\ a \in Agent
      BY <2>4, <3>1 DEF Owners
    <3>3. call[a].step = "none"
      BY <3>2 DEF Quiet, NoCall
    <3> QED
      BY <2>1, <2>2, <2>4, <3>1, <3>2, <3>3 DEF GuildServed, Given
  <2> QED
    BY <2>3, <2>4
<1> QED
  BY <1>1, AlwaysTyped, AlwaysMaps, PTL

-----------------------------------------------------------------------------
(* The subscribers *)

\* What a guild's subscribers were last told is what the map says, or a notice
\* about it is on its way.
ToldInv ==
    ~overtaken =>
        \A g \in Guild :
            \/ told[g] = byGuild[g]
            \/ \E p \in Caller : \E i \in 1 .. Len(notices[p]) : notices[p][i].guild = g

\* A change of the map is told by the notices written with it, and these replace
\* none: p had no notices before.
LEMMA ChangesTold ==
    ASSUME Typed, ToldInv, UNCHANGED <<told, overtaken>>, NEW p \in Caller, notices[p] = <<>>,
           \A r \in Caller \ {p} : notices'[r] = notices[r],
           \A g \in Guild : \/ byGuild'[g] = byGuild[g]
                            \/ \E i \in 1 .. Len(notices'[p]) : notices'[p][i].guild = g
    PROVE  ToldInv'
<1>1. \A r \in Caller : Len(notices[r]) > 0 => r # p
  OBVIOUS
<1>2. ASSUME NEW g \in Guild, NEW r \in Caller, NEW i \in 1 .. Len(notices[r]), notices[r][i].guild = g
      PROVE  \E q \in Caller : \E j \in 1 .. Len(notices'[q]) : notices'[q][j].guild = g
  <2>1. r # p
    BY <1>2
  <2> QED
    BY <1>2, <2>1
<1> QED
  BY <1>2 DEF ToldInv

LEMMA NotifyTold ==
    ASSUME Typed, ToldInv, NEW p \in Caller, Notify(p)
    PROVE  ToldInv'
<1> SUFFICES ASSUME ~overtaken', NEW g \in Guild
             PROVE  \/ told'[g] = byGuild'[g]
                    \/ \E r \in Caller : \E i \in 1 .. Len(notices'[r]) : notices'[r][i].guild = g
  BY DEF ToldInv
<1>1. PICK n \in Notice : n = notices[p][1]
  BY NotifyEffect
<1>2. /\ told' = [told EXCEPT ![n.guild] = n.agent]
      /\ overtaken' = (overtaken \/ n.agent # byGuild[n.guild])
      /\ byGuild' = byGuild
  BY <1>1, NotifyEffect DEF Notify, registryVars
<1>3. ~overtaken /\ n.agent = byGuild[n.guild] /\ n.guild \in Guild
  BY <1>2 DEF Notice
<1>4. CASE g = n.guild
  BY <1>2, <1>3, <1>4 DEF Typed, TypeOK
<1>5. CASE g # n.guild
  <2>1. told'[g] = told[g]
    BY <1>2, <1>5 DEF Typed, TypeOK
  <2>2. ASSUME NEW r \in Caller, NEW i \in 1 .. Len(notices[r]), notices[r][i].guild = g
        PROVE  \E q \in Caller : \E j \in 1 .. Len(notices'[q]) : notices'[q][j].guild = g
    <3>1. CASE r = p
      <4>1. i # 1
        BY <1>1, <1>5, <2>2, <3>1
      <4>2. /\ Len(notices[p]) \in Nat /\ Len(notices'[p]) = Len(notices[p]) - 1
            /\ \A j \in 1 .. Len(notices[p]) - 1 : notices'[p][j] = notices[p][j + 1]
        BY NotifyEffect
      <4>3. PICK j \in 1 .. Len(notices[p]) - 1 : i = j + 1
        BY <2>2, <3>1, <4>1, <4>2
      <4>4. notices'[p][j] = notices[r][i] /\ j \in 1 .. Len(notices'[p])
        BY <3>1, <4>2, <4>3
      <4> QED
        BY <2>2, <4>4
    <3>2. CASE r # p
      BY <2>2, <3>2, NotifyEffect
    <3> QED
      BY <3>1, <3>2
  <2> QED
    BY <1>2, <1>3, <2>1, <2>2 DEF ToldInv
<1> QED
  BY <1>4, <1>5

LEMMA ToldSame == ASSUME ToldInv, UNCHANGED <<told, overtaken, notices, byGuild>> PROVE ToldInv'
BY DEF ToldInv

LEMMA ToldKept == Typed /\ ToldInv /\ [Next]_vars => ToldInv'
<1> SUFFICES ASSUME Typed, ToldInv, [Next]_vars PROVE ToldInv'
  OBVIOUS
<1>1. CASE UNCHANGED vars
  BY <1>1, ToldSame DEF vars, noticeVars, registryVars
<1>2. ASSUME NEW a \in Agent, Connect(a) PROVE ToldInv'
  BY <1>2, ToldSame DEF Connect, noticeVars, registryVars
<1>3. ASSUME NEW x \in alive, Disconnect(x) PROVE ToldInv'
  BY <1>3, ToldSame DEF Disconnect, noticeVars, registryVars
<1>4. CASE Request
  BY <1>4, ToldSame DEF Request, noticeVars, registryVars
<1>5. ASSUME NEW a \in Agent, BeginConnected(a) \/ LoadConnected(a) \/ BeginDisconnected(a)
      PROVE  ToldInv'
  BY <1>5, ToldSame DEF BeginConnected, LoadConnected, BeginDisconnected, noticeVars, registryVars
<1>6. ASSUME NEW a \in Agent, ListConnected(a) PROVE ToldInv'
  <2>1. \A g \in Guild : \/ byGuild'[g] = byGuild[g]
                         \/ \E i \in 1 .. Len(notices'[a]) : notices'[a][i].guild = g
    BY <1>6, ListConnectedEffect
  <2> QED
    BY <1>6, <2>1, ListConnectedEffect, ChangesTold DEF Caller
<1>7. ASSUME NEW a \in Agent, Unlist(a) PROVE ToldInv'
  <2>1. \A g \in Guild : \/ byGuild'[g] = byGuild[g]
                         \/ \E i \in 1 .. Len(notices'[a]) : notices'[a][i].guild = g
    BY <1>7, UnlistEffect
  <2> QED
    BY <1>7, <2>1, UnlistEffect, ChangesTold DEF Caller
<1>8. ASSUME NEW s \in Saver, SaveInStore(s) PROVE ToldInv'
  BY <1>8, ToldSame DEF SaveInStore, noticeVars, registryVars
<1>9. ASSUME NEW s \in Saver, ListSaved(s) PROVE ToldInv'
  <2>1. \A g \in Guild : \/ byGuild'[g] = byGuild[g]
                         \/ \E i \in 1 .. Len(notices'[s]) : notices'[s][i].guild = g
    BY <1>9, ListSavedEffect DEF Typed, TypeOK
  <2> QED
    BY <1>9, <2>1, ListSavedEffect, ChangesTold DEF Caller
<1>10. ASSUME NEW p \in Caller, Notify(p) PROVE ToldInv'
  BY <1>10, NotifyTold
<1>11. CASE Restart
  BY <1>11, RestartEffect DEF ToldInv
<1> QED
  BY <1>1, <1>2, <1>3, <1>4, <1>5, <1>6, <1>7, <1>8, <1>9, <1>10, <1>11 DEF Next, Serve

\* No change of the map by guild goes untold: once every notice was delivered the
\* subscribers know what the map says, unless one was overtaken on its way.
THEOREM ChangesReachSubscribers == Spec => []SubscribersToldAll
<1>1. Init => ToldInv
  BY DEF Init, ToldInv
<1>2. Typed /\ ToldInv => SubscribersToldAll
  <2> SUFFICES ASSUME Typed, ToldInv, \A p \in Caller : notices[p] = <<>>, ~overtaken
               PROVE  told = byGuild
    BY DEF SubscribersToldAll
  <2>1. \A g \in Guild : told[g] = byGuild[g]
    BY DEF ToldInv
  <2> QED
    BY <2>1 DEF Typed, TypeOK
<1> QED
  BY <1>1, <1>2, ToldKept, AlwaysTyped, PTL DEF Spec
=============================================================================
