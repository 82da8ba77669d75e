---------------------------- MODULE AgentRegistry ----------------------------
(***************************************************************************)
(* AgentsManager: which connected agent serves each guild.  Two maps are   *)
(* kept under one mutex, by agent and by guild, while the assignments of   *)
(* guilds live in the collection of IdentityStore and are read without     *)
(* that mutex: the listener's two callbacks and saveAgentGuildId (called   *)
(* on the threads of D++) all read or write the collection in one step and *)
(* the maps in another, and tell the subscribers in a third.               *)
(*                                                                         *)
(* The sessions are those of scorch-server, which calls the listener once  *)
(* when a session starts and once when it ends, in that order for each     *)
(* agent and one call at a time for each agent.                            *)
(***************************************************************************)
EXTENDS IdentityStore, Sequences, FiniteSets

CONSTANT MaxSessions    \* bound: sessions of one agent

VARIABLES
    sessions,   \* scorch-server: how many sessions each agent has started
    alive,      \* scorch-server: the sessions that are connected
    queue,      \* scorch-server: listener calls still to be made, per agent
    call,       \* the listener call in progress, per agent
    byUUID,     \* m_connectedAgentsByUUID
    byGuild,    \* m_connectedAgentsByGuildId
    saved,      \* saveAgentGuildId calls: what is left after the collection
    notices,    \* notifyAgentStatus calls not yet made, per caller
    told,       \* what the subscribers were last told of each guild
    stale,      \* history: since the start a map was written from assignments
                \* that had changed, or these were given back afterwards
    overtaken   \* history: since the start subscribers were told something no
                \* longer true

serverVars == <<sessions, alive, queue>>
registryVars == <<byUUID, byGuild>>
noticeVars == <<notices, told, overtaken>>
vars == <<storeVars, serverVars, call, registryVars, saved, noticeVars, stale>>

Session == Agent \X (1 .. MaxSessions)
NoCall == [step |-> "none"]
Caller == Agent \cup Saver

ASSUME RegistryAssumption ==
    /\ Agent \cap Saver = {}
    /\ IsFiniteSet(Guild)
    /\ MaxSessions \in Nat
    /\ None \notin Session

Connected(x) == x \in alive

Init ==
    /\ StoreInit
    /\ sessions = [a \in Agent |-> 0]
    /\ alive = {}
    /\ queue = [a \in Agent |-> <<>>]
    /\ call = [a \in Agent |-> NoCall]
    /\ byUUID = [a \in Agent |-> None]
    /\ byGuild = [g \in Guild |-> None]
    /\ saved = {}
    /\ notices = [p \in Caller |-> <<>>]
    /\ told = [g \in Guild |-> None]
    /\ stale = FALSE
    /\ overtaken = FALSE

-----------------------------------------------------------------------------
(* scorch-server *)

\* A paired agent connects, perhaps before its last session was seen to end.
Connect(a) ==
    /\ a \in known
    /\ sessions[a] < MaxSessions
    /\ LET x == <<a, sessions[a] + 1>>
       IN  /\ alive' = alive \cup {x}
           /\ queue' = [queue EXCEPT ![a] = Append(@, [kind |-> "connected", agent |-> x])]
    /\ sessions' = [sessions EXCEPT ![a] = @ + 1]
    /\ UNCHANGED <<storeVars, call, registryVars, saved, noticeVars, stale>>

\* An agent has one connection: an older session that is still there was not
\* seen to break, and ends first.
Disconnect(x) ==
    /\ x \in alive
    /\ \A y \in alive : y[1] = x[1] => x[2] <= y[2]
    /\ alive' = alive \ {x}
    /\ queue' = [queue EXCEPT ![x[1]] = Append(@, [kind |-> "disconnected", agent |-> x])]
    /\ UNCHANGED <<storeVars, sessions, call, registryVars, saved, noticeVars, stale>>

-----------------------------------------------------------------------------
(* notifyAgentStatus: subscribers are called one guild at a time, after the
   maps' mutex is released. *)

Notify(p) ==
    /\ notices[p] # <<>>
    /\ LET n == Head(notices[p])
       IN  /\ told' = [told EXCEPT ![n.guild] = n.agent]
           /\ overtaken' = (overtaken \/ n.agent # byGuild[n.guild])
    /\ notices' = [notices EXCEPT ![p] = Tail(@)]
    /\ UNCHANGED <<storeVars, serverVars, call, registryVars, saved, stale>>

\* Variation: only agents that are there are announced.
NoticesOfAgents(S, x) ==
    IF x = None THEN {<<>>}
    ELSE {q \in [1 .. Cardinality(S) -> [guild : S, agent : {x}]] :
             {q[i].guild : i \in DOMAIN q} = S}

\* The guilds of S in some order, each with the same agent.
Notices(S, x) ==
    {q \in [1 .. Cardinality(S) -> [guild : S, agent : {x}]] :
        {q[i].guild : i \in DOMAIN q} = S}

-----------------------------------------------------------------------------
(* onAgentConnected *)

\* The listener call starts: the agent is listed by uuid.
BeginConnected(a) ==
    /\ call[a] = NoCall /\ notices[a] = <<>>
    /\ queue[a] # <<>>
    /\ Head(queue[a]).kind = "connected"
    /\ LET x == Head(queue[a]).agent
       IN  /\ byUUID' = [byUUID EXCEPT ![a] = x]
           /\ call' = [call EXCEPT ![a] = [step |-> "load", agent |-> x]]
    /\ queue' = [queue EXCEPT ![a] = Tail(@)]
    /\ UNCHANGED <<storeVars, sessions, alive, byGuild, saved, noticeVars, stale>>

\* loadAgentGuildIds: the guilds of the agent, or none when the database fails.
Loads(a, guilds) ==
    /\ \/ guilds = LoadedGuilds(a) /\ UNCHANGED errors
       \/ guilds = {} /\ Throws
    /\ UNCHANGED <<known, guildIds, callVars, assigned>>

\* Its guilds are loaded; without any the call ends.
LoadConnected(a) ==
    /\ call[a].step = "load"
    /\ \E guilds \in SUBSET Guild :
          /\ Loads(a, guilds)
          /\ call' = [call EXCEPT ![a] =
                IF guilds = {} THEN NoCall
                ELSE [step |-> "connect", agent |-> @.agent, guilds |-> guilds]]
    /\ UNCHANGED <<serverVars, registryVars, saved, noticeVars, stale>>

\* It is listed for each of them, and the subscribers are to be told.
ListConnected(a) ==
    /\ call[a].step = "connect"
    /\ LET x == call[a].agent
           guilds == call[a].guilds
       IN  /\ byGuild' = [g \in Guild |-> IF g \in guilds THEN x ELSE byGuild[g]]
           /\ stale' = (stale \/ \E g \in guilds : Owners(g) # {a})
           /\ \E q \in Notices(guilds, x) : notices' = [notices EXCEPT ![a] = q]
    /\ call' = [call EXCEPT ![a] = NoCall]
    /\ UNCHANGED <<storeVars, serverVars, byUUID, saved, told, overtaken>>

-----------------------------------------------------------------------------
(* onAgentDisconnected *)

\* The guilds are loaded first; a call without any still goes on.
BeginDisconnected(a) ==
    /\ call[a] = NoCall /\ notices[a] = <<>>
    /\ queue[a] # <<>>
    /\ Head(queue[a]).kind = "disconnected"
    /\ \E guilds \in SUBSET Guild :
          /\ Loads(a, guilds)
          /\ call' = [call EXCEPT ![a] = [step |-> "disconnect", guilds |-> guilds,
                                         agent |-> Head(queue[a]).agent]]
    /\ queue' = [queue EXCEPT ![a] = Tail(@)]
    /\ UNCHANGED <<sessions, alive, registryVars, saved, noticeVars, stale>>

\* Variation: whatever session is listed is taken for the one that ended.
DroppedUnchecked(a, x) == x # None /\ x[1] = a

\* The listed session is one of the agent's and is over: a later session of the
\* same agent, or another agent's, stays.
Dropped(a, x) == x # None /\ x[1] = a /\ ~Connected(x)

\* What is listed and over is removed, and its guilds are to be told.
Unlist(a) ==
    /\ call[a].step = "disconnect"
    /\ LET changed == {g \in call[a].guilds : Dropped(a, byGuild[g])}
       IN  /\ byGuild' = [g \in Guild |-> IF g \in changed THEN None ELSE byGuild[g]]
           /\ \E q \in Notices(changed, None) : notices' = [notices EXCEPT ![a] = q]
    /\ byUUID' = [byUUID EXCEPT ![a] = IF Dropped(a, @) THEN None ELSE @]
    /\ stale' = (stale \/ ~(guildIds[a] \subseteq call[a].guilds))
    /\ call' = [call EXCEPT ![a] = NoCall]
    /\ UNCHANGED <<storeVars, serverVars, saved, told, overtaken>>

-----------------------------------------------------------------------------
(* saveAgentGuildId *)

\* The collection's part; a call that succeeds goes on to the maps, one that gave
\* the guild back does not.
SaveInStore(s) ==
    /\ SaveStep(s)
    /\ saved' = IF pc'[s] = "true" THEN saved \cup {s} ELSE saved
    /\ stale' = (stale \/ (At(s, "restore") /\ guildIds' # guildIds))
    /\ UNCHANGED <<serverVars, call, registryVars, noticeVars>>

\* Variation: a guild whose new agent is offline keeps its old entry.
KeepListed(s) ==
    IF byUUID[uuid[s]] = None THEN byGuild
    ELSE [byGuild EXCEPT ![guild[s]] = byUUID[uuid[s]]]

\* Variation: it is listed with the agent's uuid.
ListedByName(s) == [byGuild EXCEPT ![guild[s]] = uuid[s]]

\* The guild is listed with its new agent's session, or with none.
Listed(s) == [byGuild EXCEPT ![guild[s]] = byUUID[uuid[s]]]

ListSaved(s) ==
    /\ s \in saved
    /\ saved' = saved \ {s}
    /\ byGuild' = Listed(s)
    /\ notices' = [notices EXCEPT ![s] = <<[guild |-> guild[s], agent |-> byUUID[uuid[s]]]>>]
    /\ stale' = (stale \/ Owners(guild[s]) # {uuid[s]})
    /\ UNCHANGED <<storeVars, serverVars, call, byUUID, told, overtaken>>

-----------------------------------------------------------------------------
\* The process ends: the sessions with it, and what was in memory.  It starts
\* with empty maps, and the agents connect again.
Restart ==
    /\ StoreRestart
    /\ alive' = {}
    /\ queue' = [a \in Agent |-> <<>>]
    /\ call' = [a \in Agent |-> NoCall]
    /\ byUUID' = [a \in Agent |-> None]
    /\ byGuild' = [g \in Guild |-> None]
    /\ saved' = {}
    /\ notices' = [p \in Caller |-> <<>>]
    /\ told' = [g \in Guild |-> None]
    /\ stale' = FALSE /\ overtaken' = FALSE
    /\ UNCHANGED sessions

Request ==
    /\ \/ \E a \in Agent : SavePublicKey(a)
       \/ \E s \in Saver, a \in Agent, g \in Guild : Call(s, a, g)
    /\ UNCHANGED <<serverVars, call, registryVars, saved, noticeVars, stale>>

\* The listener's calls and the rest of saveAgentGuildId.
Serve ==
    \/ \E a \in Agent : \/ BeginConnected(a) \/ LoadConnected(a) \/ ListConnected(a)
                        \/ BeginDisconnected(a) \/ Unlist(a)
    \/ \E s \in Saver : SaveInStore(s) \/ ListSaved(s)

Next ==
    \/ \E a \in Agent : Connect(a)
    \/ \E x \in alive : Disconnect(x)
    \/ Request
    \/ Serve
    \/ \E p \in Caller : Notify(p)
    \/ Restart

Spec == Init /\ [][Next]_vars

-----------------------------------------------------------------------------
(* Properties *)

\* Every variable has its type.
TypeOK ==
    /\ StoreTypeOK
    /\ sessions \in [Agent -> 0 .. MaxSessions]
    /\ alive \subseteq Session
    /\ byUUID \in [Agent -> Session \cup {None}]
    /\ byGuild \in [Guild -> Session \cup {None}]
    /\ told \in [Guild -> Session \cup {None}]
    /\ saved \subseteq Saver
    /\ stale \in BOOLEAN /\ overtaken \in BOOLEAN

\* Nothing is in progress: every session that started or ended has been
\* announced, and no guild is being moved.
Quiet ==
    /\ \A a \in Agent : queue[a] = <<>> /\ call[a] = NoCall
    /\ \A s \in Saver : ~Saving(s)
    /\ saved = {}

\* Between calls the agents listed by uuid are exactly the ones connected, even
\* when a session ends after the agent's next one has begun.
ListedAreConnected ==
    Quiet => \A a \in Agent :
                IF byUUID[a] = None THEN \A x \in alive : x[1] # a ELSE Connected(byUUID[a])

\* Between calls a guild is listed with the connected session of the agent it is
\* assigned to, and with none when that agent is offline, whatever the order of
\* connections, disconnections and moves, unless a map was written from
\* assignments that had changed since they were read, or a database call failed.
GuildsServed ==
    Quiet /\ ~stale /\ errors = 0 =>
        \A g \in Guild :
            byGuild[g] = IF Owners(g) = {} THEN None
                         ELSE byUUID[CHOOSE a \in Owners(g) : TRUE]

\* The guild is being given to an agent, in the collection or in the maps.
Moving(g) == \E s \in Saver : guild[s] = g /\ (Saving(s) \/ s \in saved)

\* Even while agents come and go, connectedAgent gives a guild no session of an
\* agent it is not assigned to: a button is never pressed at, nor a guild shown
\* as served by, the agent it was taken from, except during the move itself.
ListedOwns ==
    ~stale /\ errors = 0 =>
        \A g \in Guild : Moving(g) \/ byGuild[g] = None \/ Owners(g) = {byGuild[g][1]}

\* What the subscribers were last told is what the map says, unless a notice was
\* overtaken between the mutex and the callback: no change goes untold.
SubscribersToldAll ==
    (\A p \in Caller : notices[p] = <<>>) /\ ~overtaken => told = byGuild
=============================================================================
