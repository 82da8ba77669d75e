---------------------------- MODULE IdentityStore ----------------------------
(***************************************************************************)
(* The AgentIdentities collection behind MongoDBAgentIdentityStore: which  *)
(* agent each guild is assigned to, and saveAgentGuildId, which moves a    *)
(* guild in several calls to the database.  Calls of different savers      *)
(* interleave, and a call may throw, having taken effect or not; the       *)
(* process may end between any two steps of a call.                        *)
(***************************************************************************)
EXTENDS Naturals

CONSTANTS
    Agent,      \* agent uuids
    Guild,      \* guild ids
    Saver,      \* calls of saveAgentGuildId
    None,       \* an empty string, or nothing
    MaxErrors   \* bound: how many database calls throw

ASSUME StoreAssumption ==
    /\ None \notin Agent \cup Guild
    /\ MaxErrors \in Nat

VARIABLES
    known,      \* the agents that have a document
    guildIds,   \* the guilds in the document of each agent
    pc,         \* where each call stands
    uuid,       \* its arguments
    guild,
    previous,   \* previousUUID
    errors,     \* database calls that threw
    assigned    \* history: the guilds that have had an agent, unless the process
                \* ended while a move of theirs was half done

callVars == <<pc, uuid, guild, previous>>
storeVars == <<known, guildIds, callVars, errors, assigned>>

Owners(g) == {a \in Agent : g \in guildIds[a]}

\* loadAgentFromGuildId: find_one returns any document that matches.
FoundOwner(g) == IF Owners(g) = {} THEN {None} ELSE Owners(g)

\* loadAgentGuildIds fails, or gives at least one guild.
LoadedGuilds(a) == IF a \in known THEN guildIds[a] ELSE {}

\* Before the first call: some agents have paired, each guild has one at most.
StoreInit ==
    /\ known \in SUBSET Agent
    /\ guildIds \in [Agent -> SUBSET Guild]
    /\ \A a \in Agent : guildIds[a] # {} => a \in known
    /\ \A g \in Guild : \A a, b \in Owners(g) : a = b
    /\ pc = [s \in Saver |-> "idle"]
    /\ uuid = [s \in Saver |-> None]
    /\ guild = [s \in Saver |-> None]
    /\ previous = [s \in Saver |-> None]
    /\ errors = 0
    /\ assigned = {g \in Guild : Owners(g) # {}}

At(s, label) == pc[s] = label
Goto(s, label) == pc' = [pc EXCEPT ![s] = label]

\* The call returns and its variables are gone.
Return(s, result) ==
    /\ Goto(s, result)
    /\ previous' = [previous EXCEPT ![s] = None]

Throws == errors < MaxErrors /\ errors' = errors + 1

\* savePublicKey: an agent that completed its first pairing gets a document; the
\* unique index on uuid refuses a second one.
SavePublicKey(a) ==
    /\ a \notin known
    /\ known' = known \cup {a}
    /\ UNCHANGED <<guildIds, callVars, errors, assigned>>

\* Variation: the index on guildIds is not unique.
MayAddAnywhere(a, g) == TRUE

\* The unique index on guildIds: a guild is in one document at most.
MayAdd(a, g) == Owners(g) \subseteq {a}

Assign(a, g) ==
    /\ guildIds' = [guildIds EXCEPT ![a] = @ \cup {g}]
    /\ assigned' = assigned \cup {g}

Call(s, a, g) ==
    /\ At(s, "idle")
    /\ uuid' = [uuid EXCEPT ![s] = a]
    /\ guild' = [guild EXCEPT ![s] = g]
    /\ Goto(s, "load")
    /\ UNCHANGED <<known, guildIds, previous, errors, assigned>>

\* The guild's agent is looked up.  A lookup that fails counts as no agent; a
\* guild that is already this agent's needs nothing more.
Load(s) ==
    /\ At(s, "load")
    /\ \/ \E owner \in FoundOwner(guild[s]) :
             /\ IF owner = uuid[s]
                THEN Return(s, "true")
                ELSE /\ previous' = [previous EXCEPT ![s] = owner]
                     /\ Goto(s, "check")
             /\ UNCHANGED errors
       \/ /\ Throws
          /\ Goto(s, "check")
          /\ UNCHANGED previous
    /\ UNCHANGED <<known, guildIds, uuid, guild, assigned>>

\* The new agent must have a document.
Check(s) ==
    /\ At(s, "check")
    /\ \/ /\ IF uuid[s] \notin known THEN Return(s, "false")
             ELSE /\ Goto(s, IF previous[s] = None THEN "add" ELSE "pull")
                  /\ UNCHANGED previous
          /\ UNCHANGED errors
       \/ /\ Throws
          /\ Goto(s, "restore")
          /\ UNCHANGED previous
    /\ UNCHANGED <<known, guildIds, uuid, guild, assigned>>

\* Variation: the field is unset.
Unset(a, g) == None

\* The array of a document without the guild.
Without(a, g) == guildIds[a] \ {g}

\* The guild is taken from its previous agent.
Pull(s) ==
    /\ At(s, "pull")
    /\ \/ /\ guildIds' = [guildIds EXCEPT ![previous[s]] = Without(previous[s], guild[s])]
          /\ \/ Goto(s, "add") /\ UNCHANGED errors
             \/ Throws /\ Goto(s, "restore")
       \/ Throws /\ Goto(s, "restore") /\ UNCHANGED guildIds
    /\ UNCHANGED <<known, uuid, guild, previous, assigned>>

\* The guild is given to the new agent, unless the index refuses it.
Add(s) ==
    /\ At(s, "add")
    /\ \/ /\ MayAdd(uuid[s], guild[s])
          /\ Assign(uuid[s], guild[s])
          /\ \/ Return(s, "true") /\ UNCHANGED errors
             \/ Throws /\ Goto(s, "restore") /\ UNCHANGED previous
       \/ /\ ~MayAdd(uuid[s], guild[s])
          /\ Goto(s, "restore")
          /\ UNCHANGED <<previous, guildIds, assigned, errors>>
       \/ /\ Throws
          /\ Goto(s, "restore")
          /\ UNCHANGED <<previous, guildIds, assigned>>
    /\ UNCHANGED <<known, uuid, guild>>

\* Variation: a failed move is not undone.
RestoreNothing(s) ==
    /\ At(s, "restore")
    /\ Return(s, "false")
    /\ UNCHANGED <<known, uuid, guild, guildIds, assigned, errors>>

\* After any failure the guild is given back to its previous agent.
Restore(s) ==
    /\ At(s, "restore")
    /\ Return(s, "false")
    /\ \/ /\ previous[s] # None
          /\ MayAdd(previous[s], guild[s])
          /\ Assign(previous[s], guild[s])
          /\ UNCHANGED errors
       \/ /\ previous[s] # None => ~MayAdd(previous[s], guild[s])
          /\ UNCHANGED <<guildIds, assigned, errors>>
       \/ /\ previous[s] # None
          /\ Throws
          /\ UNCHANGED <<guildIds, assigned>>
    /\ UNCHANGED <<known, uuid, guild>>

Saving(s) == pc[s] \in {"load", "check", "pull", "add", "restore"}

\* The guild has been taken from its agent, or is to be given back.
HalfMoved(s) == previous[s] # None /\ pc[s] \in {"add", "restore"}

\* The process ends and is started again: calls in progress come to nothing, and
\* nothing takes up what they had begun.
StoreRestart ==
    /\ pc' = [s \in Saver |-> IF Saving(s) THEN "false" ELSE pc[s]]
    /\ previous' = [s \in Saver |-> None]
    /\ assigned' = assigned \ {guild[s] : s \in {t \in Saver : HalfMoved(t)}}
    /\ UNCHANGED <<known, guildIds, uuid, guild, errors>>

SaveStep(s) == Load(s) \/ Check(s) \/ Pull(s) \/ Add(s) \/ Restore(s)

StoreNext ==
    \/ \E a \in Agent : SavePublicKey(a)
    \/ \E s \in Saver, a \in Agent, g \in Guild : Call(s, a, g)
    \/ \E s \in Saver : SaveStep(s)
    \/ StoreRestart

StoreSpec == StoreInit /\ [][StoreNext]_storeVars

-----------------------------------------------------------------------------
(* Properties *)

\* Every variable has its type.
StoreTypeOK ==
    /\ known \subseteq Agent
    /\ guildIds \in [Agent -> SUBSET Guild]
    /\ pc \in [Saver -> {"idle", "load", "check", "pull", "add", "restore", "true", "false"}]
    /\ uuid \in [Saver -> Agent \cup {None}]
    /\ guild \in [Saver -> Guild \cup {None}]
    /\ previous \in [Saver -> Agent \cup {None}]
    /\ errors \in 0 .. MaxErrors
    /\ assigned \subseteq Guild

\* "Assuming one to one relationship for now": no two documents hold the same
\* guild, however moves of it overlap, and only documents that exist hold any.
OneOwner ==
    /\ \A a, b \in Agent : guildIds[a] \cap guildIds[b] # {} => a = b
    /\ \A a \in Agent : guildIds[a] # {} => a \in known

\* One failing call, at any point and whether or not it took effect, does not
\* cost a guild its agent: between moves a guild that had an agent has one.  The
\* end of the process does cost it, but only in the middle of the guild's move.
NeverOrphaned ==
    \A g \in assigned :
        (\A s \in Saver : Saving(s) => guild[s] # g) => Owners(g) # {}
=============================================================================
