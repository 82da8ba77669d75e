-------------------------- MODULE IdentityStoreProofs --------------------------
(***************************************************************************)
(* For any number of agents, guilds and overlapping calls: the             *)
(* AgentIdentities collection gives a guild to one agent at most, whatever *)
(* fails, and one failing call does not leave a guild without an agent.    *)
(***************************************************************************)
EXTENDS IdentityStore, TLAPS

\* A call that has begun has its arguments.
ArgumentsGiven ==
    \A s \in Saver : pc[s] # "idle" => uuid[s] \in Agent /\ guild[s] \in Guild

\* Documents are never removed: the agents a call may still add the guild to
\* have one, the new agent since Check and the previous one since Load.
TargetsKnown ==
    \A s \in Saver : /\ pc[s] \in {"pull", "add"} => uuid[s] \in known
                     /\ previous[s] # None => previous[s] \in known

Owned == StoreTypeOK /\ ArgumentsGiven /\ TargetsKnown /\ OneOwner

\* The collection is well formed when the program starts.
LEMMA OwnedInitially == StoreInit => Owned
<1> SUFFICES ASSUME StoreInit PROVE Owned
  OBVIOUS
<1>1. StoreTypeOK
  BY StoreAssumption, SMT DEF StoreInit, StoreTypeOK, Owners
<1>2. ArgumentsGiven /\ TargetsKnown
  BY DEF StoreInit, ArgumentsGiven, TargetsKnown
<1>3. OneOwner
  BY DEF StoreInit, OneOwner, Owners
<1> QED
  BY <1>1, <1>2, <1>3 DEF Owned

\* Adding a guild the unique index lets through, to a document that exists,
\* keeps every guild with one agent: the heart of Add and of Restore.
LEMMA AssignKeepsOneOwner ==
    ASSUME StoreTypeOK, OneOwner, UNCHANGED known,
           NEW a \in known, NEW g \in Guild, MayAdd(a, g), Assign(a, g)
    PROVE  /\ guildIds' \in [Agent -> SUBSET Guild]
           /\ assigned' \subseteq Guild
           /\ OneOwner'
<1>1. a \in Agent
  BY DEF StoreTypeOK
<1>2. \A b \in Agent : guildIds'[b] = IF b = a THEN guildIds[b] \cup {g} ELSE guildIds[b]
  BY DEF Assign, StoreTypeOK
<1>3. \A b \in Agent : g \in guildIds[b] => b = a
  BY DEF MayAdd, Owners
<1>4. OneOwner'
  BY <1>1, <1>2, <1>3 DEF OneOwner
<1> QED
  BY <1>4 DEF Assign, StoreTypeOK

\* Every step of a call, and the pairing of a new agent, keeps Owned.
LEMMA OwnedKept == Owned /\ [StoreNext]_storeVars => Owned'
<1> SUFFICES ASSUME Owned, [StoreNext]_storeVars PROVE Owned'
  OBVIOUS
<1> USE DEF Owned
<1>1. ASSUME NEW a \in Agent, SavePublicKey(a) PROVE Owned'
  BY <1>1 DEF SavePublicKey, callVars, StoreTypeOK, ArgumentsGiven, TargetsKnown, OneOwner
<1>2. ASSUME NEW s \in Saver, NEW a \in Agent, NEW g \in Guild, Call(s, a, g)
      PROVE  Owned'
  BY <1>2 DEF Call, At, Goto, StoreTypeOK, ArgumentsGiven, TargetsKnown, OneOwner
<1>3. ASSUME NEW s \in Saver, Load(s) PROVE Owned'
  <2>1. /\ pc[s] = "load"
        /\ UNCHANGED <<known, uuid, guild, assigned, guildIds>>
    BY <1>3 DEF Load, At
  <2>2. /\ errors' \in 0 .. MaxErrors
        /\ \/ pc' = [pc EXCEPT ![s] = "true"] /\ previous' = [previous EXCEPT ![s] = None]
           \/ /\ pc' = [pc EXCEPT ![s] = "check"]
              /\ \E owner \in known \cup {None} : previous' = [previous EXCEPT ![s] = owner]
    <3>1. CASE /\ errors' = errors
               /\ \E owner \in FoundOwner(guild[s]) :
                    IF owner = uuid[s] THEN Return(s, "true")
                    ELSE /\ previous' = [previous EXCEPT ![s] = owner]
                         /\ Goto(s, "check")
      <4>1. FoundOwner(guild[s]) \subseteq known \cup {None}
        BY DEF FoundOwner, Owners, OneOwner
      <4> QED
        BY <3>1, <4>1 DEF Return, Goto, StoreTypeOK
    <3>2. CASE Throws /\ Goto(s, "check") /\ UNCHANGED previous
      <4>1. previous' = [previous EXCEPT ![s] = previous[s]]
        BY <3>2 DEF StoreTypeOK
      <4>2. previous[s] \in known \cup {None}
        BY DEF TargetsKnown
      <4> QED
        BY <3>2, <4>1, <4>2, StoreAssumption DEF Throws, Goto, StoreTypeOK
    <3> QED
      BY <1>3, <3>1, <3>2 DEF Load
  <2> QED
    BY <2>1, <2>2 DEF StoreTypeOK, ArgumentsGiven, TargetsKnown, OneOwner
<1>4. ASSUME NEW s \in Saver, Check(s) PROVE Owned'
  <2>1. /\ pc[s] = "check"
        /\ UNCHANGED <<known, uuid, guild, assigned, guildIds>>
    BY <1>4 DEF Check, At
  <2>2. errors' \in 0 .. MaxErrors
    BY <1>4, StoreAssumption DEF Check, Throws, StoreTypeOK
  <2>3. \/ pc' = [pc EXCEPT ![s] = "false"] /\ previous' = [previous EXCEPT ![s] = None]
        \/ /\ uuid[s] \in known /\ previous' = previous
           /\ pc' = [pc EXCEPT ![s] = "add"] \/ pc' = [pc EXCEPT ![s] = "pull"]
        \/ pc' = [pc EXCEPT ![s] = "restore"] /\ previous' = previous
    BY <1>4 DEF Check, Goto, Return
  <2> QED
    BY <2>1, <2>2, <2>3 DEF StoreTypeOK, ArgumentsGiven, TargetsKnown, OneOwner
<1>5. ASSUME NEW s \in Saver, Pull(s) PROVE Owned'
  <2>1. /\ pc[s] = "pull"
        /\ UNCHANGED <<known, uuid, guild, previous, assigned>>
    BY <1>5 DEF Pull, At
  <2>2. errors' \in 0 .. MaxErrors
    BY <1>5, StoreAssumption DEF Pull, Throws, StoreTypeOK
  <2>3. pc' = [pc EXCEPT ![s] = "add"] \/ pc' = [pc EXCEPT ![s] = "restore"]
    BY <1>5 DEF Pull, Goto
  <2>4. /\ guildIds' \in [Agent -> SUBSET Guild]
        /\ \A a \in Agent : guildIds'[a] \subseteq guildIds[a]
    BY <1>5 DEF Pull, Without, StoreTypeOK
  <2> QED
    BY <2>1, <2>2, <2>3, <2>4 DEF StoreTypeOK, ArgumentsGiven, TargetsKnown, OneOwner
<1>6. ASSUME NEW s \in Saver, Add(s) PROVE Owned'
  <2>1. /\ pc[s] = "add"
        /\ UNCHANGED <<known, uuid, guild>>
    BY <1>6 DEF Add, At
  <2>2. errors' \in 0 .. MaxErrors
    BY <1>6, StoreAssumption DEF Add, Throws, StoreTypeOK
  <2>3. \/ pc' = [pc EXCEPT ![s] = "true"] /\ previous' = [previous EXCEPT ![s] = None]
        \/ pc' = [pc EXCEPT ![s] = "restore"] /\ previous' = previous
    BY <1>6 DEF Add, Goto, Return
  <2>4. \/ MayAdd(uuid[s], guild[s]) /\ Assign(uuid[s], guild[s])
        \/ UNCHANGED <<guildIds, assigned>>
    BY <1>6 DEF Add
  <2>5. guildIds' \in [Agent -> SUBSET Guild] /\ assigned' \subseteq Guild /\ OneOwner'
    <3>1. CASE UNCHANGED <<guildIds, assigned>>
      BY <2>1, <3>1 DEF StoreTypeOK, OneOwner
    <3>2. CASE MayAdd(uuid[s], guild[s]) /\ Assign(uuid[s], guild[s])
      <4>1. uuid[s] \in known /\ guild[s] \in Guild
        BY <2>1 DEF ArgumentsGiven, TargetsKnown
      <4> QED
        BY <2>1, <3>2, <4>1, AssignKeepsOneOwner
    <3> QED
      BY <2>4, <3>1, <3>2
  <2> QED
    BY <2>1, <2>2, <2>3, <2>5 DEF StoreTypeOK, ArgumentsGiven, TargetsKnown
<1>7. ASSUME NEW s \in Saver, Restore(s) PROVE Owned'
  <2>1. /\ pc[s] = "restore"
        /\ UNCHANGED <<known, uuid, guild>>
    BY <1>7 DEF Restore, At
  <2>2. errors' \in 0 .. MaxErrors
    BY <1>7, StoreAssumption DEF Restore, Throws, StoreTypeOK
  <2>3. pc' = [pc EXCEPT ![s] = "false"] /\ previous' = [previous EXCEPT ![s] = None]
    BY <1>7 DEF Restore, Goto, Return
  <2>4. \/ previous[s] # None /\ MayAdd(previous[s], guild[s]) /\ Assign(previous[s], guild[s])
        \/ UNCHANGED <<guildIds, assigned>>
    BY <1>7 DEF Restore
  <2>5. guildIds' \in [Agent -> SUBSET Guild] /\ assigned' \subseteq Guild /\ OneOwner'
    <3>1. CASE UNCHANGED <<guildIds, assigned>>
      BY <2>1, <3>1 DEF StoreTypeOK, OneOwner
    <3>2. CASE previous[s] # None /\ MayAdd(previous[s], guild[s]) /\ Assign(previous[s], guild[s])
      <4>1. previous[s] \in known /\ guild[s] \in Guild
        BY <2>1, <3>2 DEF ArgumentsGiven, TargetsKnown
      <4> QED
        BY <2>1, <3>2, <4>1, AssignKeepsOneOwner
    <3> QED
      BY <2>4, <3>1, <3>2
  <2> QED
    BY <2>1, <2>2, <2>3, <2>5 DEF StoreTypeOK, ArgumentsGiven, TargetsKnown
<1>8. CASE UNCHANGED storeVars
  BY <1>8 DEF storeVars, callVars, StoreTypeOK, ArgumentsGiven, TargetsKnown, OneOwner
<1>9. CASE StoreRestart
  <2>1. /\ UNCHANGED <<known, guildIds, uuid, guild, errors>>
        /\ assigned' \subseteq assigned
        /\ previous' = [t \in Saver |-> None]
        /\ pc' = [t \in Saver |-> IF Saving(t) THEN "false" ELSE pc[t]]
    BY <1>9 DEF StoreRestart
  <2>2. StoreTypeOK'
    BY <2>1 DEF StoreTypeOK, Saving
  <2>3. ArgumentsGiven' /\ TargetsKnown'
    BY <2>1 DEF ArgumentsGiven, TargetsKnown, Saving
  <2> QED
    BY <2>1, <2>2, <2>3 DEF OneOwner
<1> QED
  BY <1>1, <1>2, <1>3, <1>4, <1>5, <1>6, <1>7, <1>8, <1>9 DEF StoreNext, SaveStep

\* Owned is an invariant of the collection.
THEOREM AlwaysOwned == StoreSpec => []Owned
BY OwnedInitially, OwnedKept, PTL DEF StoreSpec

\* A guild is assigned to one agent at most, and only to one that has paired,
\* whatever number of saveAgentGuildId calls overlap or fail.
THEOREM GuildHasOneOwner == StoreSpec => []OneOwner
<1>1. Owned => OneOwner
  BY DEF Owned
<1> QED
  BY <1>1, AlwaysOwned, PTL

-----------------------------------------------------------------------------
\* Call s has taken guild g from its previous agent and will give it to someone:
\* it is about to add it, or to restore it after the last call that may fail.
InHand(s, g) ==
    /\ guild[s] = g
    /\ previous[s] # None
    /\ pc[s] = "add" \/ (pc[s] = "restore" /\ errors = MaxErrors)

\* A guild that is owed an agent has one, or is in the hands of some call.
Held ==
    /\ \A s \in Saver : pc[s] = "pull" => previous[s] # None
    /\ \A g \in assigned : Owners(g) = {} => \E s \in Saver : InHand(s, g)

\* With one failing call at most, every step keeps the guilds held: a step of a
\* call changes the owners and the hands of its own guild only.
LEMMA HeldKept ==
    ASSUME MaxErrors <= 1, Owned, Held, [StoreNext]_storeVars
    PROVE  Held'
<1> USE DEF Owned
<1>1. ASSUME NEW a \in Agent, SavePublicKey(a) PROVE Held'
  BY <1>1 DEF SavePublicKey, callVars, Held, InHand, Owners
<1>2. ASSUME NEW s \in Saver, NEW a \in Agent, NEW g \in Guild, Call(s, a, g) PROVE Held'
  BY <1>2 DEF Call, At, Goto, StoreTypeOK, Held, InHand, Owners
<1>3. ASSUME NEW s \in Saver, Load(s) PROVE Held'
  <2>1. /\ pc[s] = "load"
        /\ UNCHANGED <<guild, assigned, guildIds>>
        /\ \A t \in Saver \ {s} : pc'[t] = pc[t] /\ previous'[t] = previous[t]
        /\ pc'[s] # "pull"
        /\ errors' = errors \/ errors # MaxErrors
    BY <1>3, StoreAssumption DEF Load, At, Goto, Return, Throws, StoreTypeOK
  <2>2. \A t \in Saver, g \in assigned : InHand(t, g) => InHand(t, g)'
    BY <2>1 DEF InHand
  <2> QED
    BY <2>1, <2>2 DEF Held, Owners
<1>4. ASSUME NEW s \in Saver, Check(s) PROVE Held'
  <2>1. /\ pc[s] = "check"
        /\ UNCHANGED <<guild, assigned, guildIds>>
        /\ \A t \in Saver \ {s} : pc'[t] = pc[t] /\ previous'[t] = previous[t]
        /\ pc'[s] = "pull" => previous'[s] # None
        /\ errors' = errors \/ errors # MaxErrors
    BY <1>4, StoreAssumption DEF Check, At, Goto, Return, Throws, StoreTypeOK
  <2>2. \A t \in Saver, g \in assigned : InHand(t, g) => InHand(t, g)'
    BY <2>1 DEF InHand
  <2> QED
    BY <2>1, <2>2 DEF Held, Owners
<1>5. ASSUME NEW s \in Saver, Pull(s) PROVE Held'
  <2>1. /\ pc[s] = "pull"
        /\ UNCHANGED <<guild, previous, assigned>>
        /\ \A t \in Saver \ {s} : pc'[t] = pc[t]
        /\ \/ pc'[s] = "add" /\ errors' = errors
           \/ pc'[s] = "restore" /\ errors' = MaxErrors /\ errors # MaxErrors
    BY <1>5, StoreAssumption DEF Pull, At, Goto, Throws, StoreTypeOK
  <2>2. previous[s] # None /\ guild[s] \in Guild
    BY <2>1 DEF Held, ArgumentsGiven
  <2>3. InHand(s, guild[s])'
    BY <2>1, <2>2 DEF InHand
  <2>4. \A a \in Agent, g \in Guild \ {guild[s]} : g \in guildIds[a] => g \in guildIds'[a]
    BY <1>5 DEF Pull, Without, StoreTypeOK
  <2>5. \A g \in Guild \ {guild[s]} : Owners(g)' = {} => Owners(g) = {}
    BY <2>4 DEF Owners
  <2>6. \A t \in Saver, g \in assigned : InHand(t, g) => InHand(t, g)'
    BY <2>1 DEF InHand
  <2> QED
    BY <2>1, <2>2, <2>3, <2>5, <2>6 DEF Held, StoreTypeOK
<1>6. ASSUME NEW s \in Saver, Add(s) PROVE Held'
  <2>1. /\ pc[s] = "add"
        /\ UNCHANGED <<guild>>
        /\ \A t \in Saver \ {s} : pc'[t] = pc[t] /\ previous'[t] = previous[t]
        /\ pc'[s] # "pull"
        /\ errors' = errors \/ errors # MaxErrors
    BY <1>6, StoreAssumption DEF Add, At, Goto, Return, Throws, StoreTypeOK
  <2>2. guild[s] \in Guild /\ uuid[s] \in Agent
    BY <2>1 DEF ArgumentsGiven
  <2>3. CASE Assign(uuid[s], guild[s])
    BY <2>1, <2>2, <2>3 DEF Assign, Held, InHand, Owners, StoreTypeOK
  <2>4. CASE UNCHANGED <<guildIds, assigned>> /\ ~MayAdd(uuid[s], guild[s])
    <3>1. Owners(guild[s]) # {}
      BY <2>4 DEF MayAdd
    <3> QED
      BY <2>1, <2>4, <3>1 DEF Held, InHand, Owners
  <2>5. CASE /\ UNCHANGED <<guildIds, assigned, previous>>
             /\ pc'[s] = "restore" /\ errors' = MaxErrors /\ errors # MaxErrors
    BY <2>1, <2>5 DEF Held, InHand, Owners
  <2> QED
    BY <1>6, <2>3, <2>4, <2>5, StoreAssumption DEF Add, Throws, Goto, StoreTypeOK
<1>7. ASSUME NEW s \in Saver, Restore(s) PROVE Held'
  <2>1. /\ pc[s] = "restore"
        /\ UNCHANGED <<guild>>
        /\ \A t \in Saver \ {s} : pc'[t] = pc[t] /\ previous'[t] = previous[t]
        /\ pc'[s] # "pull"
    BY <1>7 DEF Restore, At, Goto, Return, StoreTypeOK
  <2>2. guild[s] \in Guild
    BY <2>1 DEF ArgumentsGiven
  <2>3. CASE previous[s] # None /\ Assign(previous[s], guild[s]) /\ UNCHANGED errors
    <3>1. previous[s] \in Agent
      BY <2>3 DEF StoreTypeOK
    <3> QED
      BY <2>1, <2>2, <2>3, <3>1 DEF Assign, Held, InHand, Owners, StoreTypeOK
  <2>4. CASE /\ previous[s] # None => ~MayAdd(previous[s], guild[s])
             /\ UNCHANGED <<guildIds, assigned, errors>>
    <3>1. previous[s] # None => Owners(guild[s]) # {}
      BY <2>4 DEF MayAdd
    <3> QED
      BY <2>1, <2>4, <3>1 DEF Held, InHand, Owners
  <2>5. CASE errors # MaxErrors /\ UNCHANGED <<guildIds, assigned>>
    BY <2>1, <2>5 DEF Held, InHand, Owners
  <2> QED
    BY <1>7, <2>3, <2>4, <2>5, StoreAssumption DEF Restore, Throws, StoreTypeOK
<1>8. CASE UNCHANGED storeVars
  BY <1>8 DEF storeVars, callVars, Held, InHand, Owners
<1>9. CASE StoreRestart
  <2>1. /\ UNCHANGED guildIds
        /\ assigned' = assigned \ {guild[s] : s \in {t \in Saver : HalfMoved(t)}}
        /\ \A t \in Saver : pc'[t] # "pull"
    BY <1>9 DEF StoreRestart, Saving
  <2>2. \A s \in Saver, g \in assigned : InHand(s, g) => g \notin assigned'
    BY <2>1 DEF InHand, HalfMoved
  <2>3. \A g \in assigned' : Owners(g)' # {}
    BY <2>1, <2>2 DEF Held, Owners
  <2> QED
    BY <2>1, <2>3 DEF Held
<1> QED
  BY <1>1, <1>2, <1>3, <1>4, <1>5, <1>6, <1>7, <1>8, <1>9 DEF StoreNext, SaveStep

\* One failing call, at any point of any number of overlapping calls and whether
\* or not it took effect, does not cost a guild its agent: once no call works on
\* the guild, some agent has it.  Two failing calls may, and the end of the
\* process in the middle of a move.
THEOREM GuildKeepsAnAgent ==
    ASSUME MaxErrors <= 1
    PROVE  StoreSpec => []NeverOrphaned
<1>1. StoreInit => Held
  BY DEF StoreInit, Held, Owners
<1>2. Owned /\ Held /\ [StoreNext]_storeVars => Held'
  BY HeldKept
<1>3. Held => NeverOrphaned
  BY DEF Held, InHand, NeverOrphaned, Saving
<1> QED
  BY <1>1, <1>2, <1>3, AlwaysOwned, PTL DEF StoreSpec
===============================================================================
