---------------------------- MODULE LogChannelProofs ----------------------------
(* Theorems about LogChannel, for any commands, channels and log messages, any
   number of threads and any set of faults. *)
EXTENDS LogChannel, TLAPS

Label == {"idle", "asked", "find", "insert", "store", "lock", "event", "done"}

\* What a handler and a log message hold at each of their steps.  The handler of
\* a command and the log message it ends with are never there together.
FrameOK ==
    /\ \A c \in Command : /\ pc[c] # "event"
                          /\ pc[c] \notin {"idle", "done"} => target[c] \in Channel
                          /\ pc[c] \in {"insert", "store"} => cfg[c] = c
                          /\ log[c] # "none" => pc[c] = "done"
    /\ \A ch \in Channel : pc[ch] \in {"idle", "event", "lock", "done"}
    /\ \A h \in Handler : pc[h] = "lock" => cfg[h] \in ConfigRef
    /\ \A n \in Log : log[n] \in {"found", "sent"} => cfg[n] \in ConfigRef

\* Nobody knows the object of a command before it is stored.
FreshOK ==
    \A c \in Command : pc[c] \in {"idle", "asked", "find", "insert", "store"} =>
        /\ cache # c
        /\ \A x \in (Handler \cup Log) \ {c} : cfg[x] # c

Typed == TypeOK /\ FrameOK /\ FreshOK

USE DEF Handler, Log, ConfigRef

LEMMA InitTyped == Init => Typed
<1> SUFFICES ASSUME Init PROVE Typed
    OBVIOUS
<1>1. /\ \A h \in Handler : pc[h] = "idle"
      /\ \A n \in Log : log[n] = "none"
      /\ \A x \in Handler \cup Log : cfg[x] = None
      /\ channels = Channel /\ incident = {}
      BY DEF Init
<1>2. cache \in {None, Boot} /\ None \notin Command /\ Boot \notin Command
      BY LogAssumption DEF Init
<1>3. FrameOK /\ FreshOK
      BY <1>1, <1>2, LogAssumption DEF FrameOK, FreshOK
<1>4. heap \in [ConfigRef -> Channel \cup {None}] /\ db \in Seq(Channel)
      <2>1. CASE cache = None /\ heap = [r \in ConfigRef |-> None] /\ db = <<>>
            BY <2>1
      <2>2. ASSUME NEW ch \in Channel,
                   heap = [[r \in ConfigRef |-> None] EXCEPT ![Boot] = ch], db = <<ch>>
            PROVE  heap \in [ConfigRef -> Channel \cup {None}] /\ db \in Seq(Channel)
            BY <2>2
      <2>3. QED
            BY <2>1, <2>2 DEF Init
<1>5. QED
      BY <1>1, <1>2, <1>3, <1>4 DEF Init, Typed, TypeOK

\* A handler that ends.
LEMMA FinishEffect ==
    ASSUME Typed, NEW h \in Handler, Finish(h)
    PROVE  /\ pc' = [pc EXCEPT ![h] = "done"] /\ cfg' = [cfg EXCEPT ![h] = None]
           /\ pc' \in [Handler -> Label] /\ cfg' \in [Handler \cup Log -> ConfigRef \cup {None}]
           /\ pc'[h] = "done" /\ cfg'[h] = None
           /\ \A k \in Handler \ {h} : pc'[k] = pc[k]
           /\ \A x \in (Handler \cup Log) \ {h} : cfg'[x] = cfg[x]
<1>1. pc' = [pc EXCEPT ![h] = "done"] /\ cfg' = [cfg EXCEPT ![h] = None]
      BY DEF Finish, Goto
<1>2. pc \in [Handler -> Label] /\ cfg \in [Handler \cup Log -> ConfigRef \cup {None}]
      BY DEF Typed, TypeOK, Label
<1>3. QED
      BY <1>1, <1>2 DEF Label

\* The handlers of a command.
LEMMA IssueTyped ==
    ASSUME Typed, NEW c \in Command,
           Answered(c) \/ \E ch \in Channel : Issue(c, ch)
    PROVE  Typed'
<1>1. /\ pc[c] \in {"idle", "asked"}
      /\ \E label \in {"asked", "find", "done"} : pc' = [pc EXCEPT ![c] = label]
      /\ UNCHANGED <<cfg, heap, cache, db, channels, log, sentTo, incident>>
      BY DEF Issue, Answered, Goto, configVars, logVars
<1>2. /\ target' \in [Command -> Channel \cup {None}] /\ target'[c] \in Channel
      /\ \A d \in Command \ {c} : target'[d] = target[d]
      BY DEF Issue, Answered, Typed, TypeOK, FrameOK
<1>3. /\ pc' \in [Handler -> Label] /\ pc'[c] \in {"asked", "find", "done"}
      /\ \A k \in Handler \ {c} : pc'[k] = pc[k]
      BY <1>1 DEF Typed, TypeOK, Label
<1>4. FrameOK' /\ FreshOK'
      BY <1>1, <1>2, <1>3, LogAssumption DEF Typed, FrameOK, FreshOK
<1>5. QED
      BY <1>1, <1>2, <1>3, <1>4 DEF Typed, TypeOK, Label

LEMMA FindTyped ==
    ASSUME Typed, NEW c \in Command, Find(c)
    PROVE  Typed'
<1> DEFINE new == IF cache = None THEN c ELSE cache
           label == IF cache = None THEN "insert" ELSE "lock"
<1>1. /\ pc[c] = "find" /\ pc' = [pc EXCEPT ![c] = label] /\ cfg' = [cfg EXCEPT ![c] = new]
      /\ UNCHANGED <<target, heap, cache, db, channels, log, sentTo, incident>>
      BY DEF Find, Goto, configVars, logVars
<1>2. /\ new \in ConfigRef /\ label \in {"insert", "lock"}
      /\ label = "insert" => new = c
      /\ \A d \in Command \ {c} :
            pc[d] \in {"idle", "asked", "find", "insert", "store"} => new # d
      BY DEF Typed, TypeOK, FreshOK
<1> HIDE DEF new, label
<1>3. /\ pc' \in [Handler -> Label] /\ cfg' \in [Handler \cup Log -> ConfigRef \cup {None}]
      /\ pc'[c] = label /\ cfg'[c] = new
      /\ \A k \in Handler \ {c} : pc'[k] = pc[k]
      /\ \A x \in (Handler \cup Log) \ {c} : cfg'[x] = cfg[x]
      BY <1>1, <1>2 DEF Typed, TypeOK, Label
<1>4. FrameOK'
      BY <1>1, <1>2, <1>3, LogAssumption DEF Typed, FrameOK
<1>5. FreshOK'
      BY <1>1, <1>2, <1>3 DEF Typed, FreshOK
<1>6. QED
      BY <1>1, <1>3, <1>4, <1>5 DEF Typed, TypeOK, Label

LEMMA InsertTyped ==
    ASSUME Typed, NEW c \in Command, Insert(c)
    PROVE  Typed'
<1>1. /\ pc[c] = "insert" /\ target[c] \in Channel /\ log[c] = "none"
      /\ heap' = [heap EXCEPT ![c] = target[c]]
      /\ UNCHANGED <<target, cache, channels, log, sentTo>>
      BY DEF Insert, logVars, Typed, FrameOK
<1>2. /\ heap' \in [ConfigRef -> Channel \cup {None}] /\ db' \in Seq(Channel)
      /\ incident' \subseteq Incident
      <2>1. db \in Seq(Channel) /\ Append(db, target[c]) \in Seq(Channel)
            BY <1>1 DEF Typed, TypeOK
      <2>2. heap' \in [ConfigRef -> Channel \cup {None}]
            BY <1>1 DEF Typed, TypeOK
      <2>3. incident' \subseteq Incident
            BY DEF Insert, Note, Incident, Typed, TypeOK
      <2>4. QED
            BY <2>1, <2>2, <2>3 DEF Insert
<1>3. CASE Finish(c)
      <2>1. FrameOK' /\ FreshOK'
            BY <1>1, <1>3, FinishEffect, LogAssumption DEF Typed, FrameOK, FreshOK
      <2>2. QED
            BY <1>1, <1>2, <1>3, <2>1, FinishEffect DEF Typed, TypeOK, Label
<1>4. CASE Goto(c, "store") /\ UNCHANGED cfg
      <2>1. /\ pc' \in [Handler -> Label] /\ pc'[c] = "store"
            /\ \A k \in Handler \ {c} : pc'[k] = pc[k]
            BY <1>4 DEF Goto, Typed, TypeOK, Label
      <2>2. FrameOK' /\ FreshOK'
            BY <1>1, <1>4, <2>1, LogAssumption DEF Typed, FrameOK, FreshOK
      <2>3. QED
            BY <1>1, <1>2, <1>4, <2>1, <2>2 DEF Typed, TypeOK, Label
<1>5. QED
      BY <1>3, <1>4 DEF Insert

\* A command that ends, and its log message.
LEMMA FinishCommandEffect ==
    ASSUME Typed, NEW c \in Command, FinishCommand(c)
    PROVE  /\ Finish(c) /\ log' \in [Log -> {"none", "queued", "found", "sent", "done"}]
           /\ log'[c] = "queued"
           /\ \A n \in Log \ {c} : log'[n] = log[n]
BY DEF FinishCommand, Typed, TypeOK

LEMMA StoreTyped ==
    ASSUME Typed, NEW c \in Command, Store(c)
    PROVE  Typed'
<1>1. /\ pc[c] = "store" /\ cache' = c /\ FinishCommand(c)
      /\ UNCHANGED <<target, heap, db, channels, sentTo>>
      BY DEF Store
<1>2. incident' \subseteq Incident
      BY DEF Store, Note, Late, Incident, Typed, TypeOK
<1>3. FrameOK' /\ FreshOK'
      BY <1>1, FinishCommandEffect, FinishEffect, LogAssumption DEF Typed, FrameOK, FreshOK
<1>4. QED
      BY <1>1, <1>2, <1>3, FinishCommandEffect, FinishEffect DEF Typed, TypeOK, Label

\* The documents keep their type.
LEMMA Documents ==
    ASSUME Typed
    PROVE  /\ \A ch \in Channel : updateChannelID(ch) \in Seq(Channel)
           /\ removeFromDatabase \in Seq(Channel)
<1>1. db \in Seq(Channel)
      BY DEF Typed, TypeOK
<1>2. CASE db = <<>>
      BY <1>1, <1>2 DEF updateChannelID, removeFromDatabase
<1>3. CASE db # <<>>
      <2>1. Tail(db) \in Seq(Channel)
            BY <1>1, <1>3
      <2>2. ASSUME NEW ch \in Channel PROVE [db EXCEPT ![1] = ch] \in Seq(Channel)
            BY <1>1, <1>3
      <2>3. QED
            BY <1>3, <2>1, <2>2 DEF updateChannelID, removeFromDatabase
<1>4. QED
      BY <1>2, <1>3

LEMMA UpdateTyped ==
    ASSUME Typed, NEW c \in Command, Update(c)
    PROVE  Typed'
<1>1. /\ pc[c] = "lock" /\ cfg[c] \in ConfigRef /\ target[c] \in Channel /\ log[c] = "none"
      /\ heap' = [heap EXCEPT ![cfg[c]] = target[c]]
      /\ UNCHANGED <<target, cache, channels, sentTo>>
      BY DEF Update, Typed, FrameOK
<1>2. /\ heap' \in [ConfigRef -> Channel \cup {None}]
      BY <1>1 DEF Typed, TypeOK
<1>3. /\ incident' \subseteq Incident /\ db' \in Seq(Channel)
      <2>1. db \in Seq(Channel) /\ updateChannelID(target[c]) \in Seq(Channel)
            BY <1>1, Documents DEF Typed, TypeOK
      <2>2. incident' \subseteq Incident
            BY DEF Update, Note, Forked, Late, Incident, Typed, TypeOK
      <2>3. QED
            BY <2>1, <2>2 DEF Update
<1>4. CASE FinishCommand(c)
      <2>1. FrameOK' /\ FreshOK'
            BY <1>1, <1>4, FinishCommandEffect, FinishEffect, LogAssumption
            DEF Typed, FrameOK, FreshOK
      <2>2. QED
            BY <1>1, <1>2, <1>3, <1>4, <2>1, FinishCommandEffect, FinishEffect
            DEF Typed, TypeOK, Label
<1>5. CASE Finish(c) /\ UNCHANGED log
      <2>1. FrameOK' /\ FreshOK'
            BY <1>1, <1>5, FinishEffect, LogAssumption DEF Typed, FrameOK, FreshOK
      <2>2. QED
            BY <1>1, <1>2, <1>3, <1>5, <2>1, FinishEffect DEF Typed, TypeOK, Label
<1>6. QED
      BY <1>4, <1>5 DEF Update

\* The handler of a deletion.
LEMMA DeletionTyped ==
    ASSUME Typed, NEW ch \in Channel,
           UserDeletesChannel(ch) \/ FindDeleted(ch) \/ Remove(ch)
    PROVE  Typed'
<1>1. CASE UserDeletesChannel(ch)
      <2>1. /\ pc' \in [Handler -> Label] /\ pc'[ch] = "event"
            /\ \A k \in Handler \ {ch} : pc'[k] = pc[k]
            BY <1>1 DEF UserDeletesChannel, Goto, Typed, TypeOK, Label
      <2>2. /\ UNCHANGED <<target, cfg, heap, cache, db, log, sentTo, incident>>
            /\ channels' \subseteq Channel
            BY <1>1 DEF UserDeletesChannel, configVars, logVars, Typed, TypeOK
      <2>3. FrameOK' /\ FreshOK'
            BY <2>1, <2>2, LogAssumption DEF Typed, FrameOK, FreshOK
      <2>4. QED
            BY <2>1, <2>2, <2>3 DEF Typed, TypeOK, Label
<1>2. CASE FindDeleted(ch)
      <2> DEFINE label == IF cache = None THEN "done" ELSE "lock"
      <2>1. /\ pc' = [pc EXCEPT ![ch] = label] /\ cfg' = [cfg EXCEPT ![ch] = cache]
            /\ UNCHANGED <<target, heap, cache, db, channels, log, sentTo, incident>>
            BY <1>2 DEF FindDeleted, Goto, configVars, logVars
      <2>2. /\ label \in {"done", "lock"} /\ (label = "lock" => cache \in ConfigRef)
            BY DEF Typed, TypeOK
      <2> HIDE DEF label
      <2>3. /\ pc' \in [Handler -> Label] /\ cfg' \in [Handler \cup Log -> ConfigRef \cup {None}]
            /\ pc'[ch] = label /\ cfg'[ch] = cache
            /\ \A k \in Handler \ {ch} : pc'[k] = pc[k]
            /\ \A x \in (Handler \cup Log) \ {ch} : cfg'[x] = cfg[x]
            BY <2>1, <2>2 DEF Typed, TypeOK, Label
      <2>4. FrameOK'
            BY <2>1, <2>2, <2>3, LogAssumption DEF Typed, FrameOK
      <2>5. FreshOK'
            BY <2>1, <2>2, <2>3, LogAssumption DEF Typed, FreshOK
      <2>6. QED
            BY <2>1, <2>3, <2>4, <2>5 DEF Typed, TypeOK, Label
<1>3. CASE Remove(ch)
      <2>1. /\ Finish(ch) /\ UNCHANGED <<target, heap, channels, log, sentTo>>
            /\ cache' \in {cache, None}
            BY <1>3 DEF Remove, EntryErased, logVars
      <2>2. /\ db' \in Seq(Channel) /\ incident' \subseteq Incident
            BY <1>3, Documents DEF Remove, Note, Forked, Incident, Typed, TypeOK
      <2>3. FrameOK' /\ FreshOK'
            BY <2>1, FinishEffect, LogAssumption DEF Typed, FrameOK, FreshOK
      <2>4. QED
            BY <2>1, <2>2, <2>3, FinishEffect DEF Typed, TypeOK, Label
<1>4. QED
      BY <1>1, <1>2, <1>3

\* The log messages, whose steps touch no handler.
LEMMA DeliverTyped ==
    ASSUME Typed, NEW n \in Log, (n \in Other /\ Post(n)) \/ Deliver(n)
    PROVE  /\ Typed'
           /\ UNCHANGED <<pc, target, channels, heap, cache, db, incident>>
           /\ \A h \in Handler : pc[h] \notin {"idle", "done"} => cfg'[h] = cfg[h]
<1>1. CASE n \in Other /\ Post(n)
      <2>1. /\ log' \in [Log -> {"none", "queued", "found", "sent", "done"}]
            /\ log'[n] = "queued" /\ \A m \in Log \ {n} : log'[m] = log[m]
            /\ UNCHANGED <<pc, target, channels, cfg, heap, cache, db, sentTo, incident>>
            BY <1>1 DEF Post, handlerVars, configVars, Typed, TypeOK
      <2>2. FrameOK' /\ FreshOK'
            BY <1>1, <2>1, LogAssumption DEF Typed, FrameOK, FreshOK
      <2>3. QED
            BY <2>1, <2>2 DEF Typed, TypeOK
<1>2. CASE Deliver(n)
      <2>1. /\ log[n] \in {"queued", "found", "sent"} /\ log'[n] \in {"found", "sent", "done"}
            /\ log' \in [Log -> {"none", "queued", "found", "sent", "done"}]
            /\ \A m \in Log \ {n} : log'[m] = log[m]
            BY <1>2 DEF Deliver, FindLog, Send, AnswerLog, Typed, TypeOK
      <2>2. UNCHANGED <<pc, target, channels, heap, cache, db, incident>>
            BY <1>2 DEF Deliver, FindLog, Send, AnswerLog, handlerVars, configVars
      <2>3. \/ cfg' = cfg /\ log[n] = "found"
            \/ cfg' = [cfg EXCEPT ![n] = cache] /\ (log'[n] # "done" => cache # None)
            \/ cfg' = [cfg EXCEPT ![n] = None] /\ log'[n] = "done"
            BY <1>2 DEF Deliver, FindLog, Send, AnswerLog, Typed, TypeOK
      <2>4. /\ cfg' \in [Handler \cup Log -> ConfigRef \cup {None}]
            /\ \A x \in (Handler \cup Log) \ {n} : cfg'[x] = cfg[x]
            /\ cfg'[n] \in {cfg[n], cache, None}
            /\ log'[n] \in {"found", "sent"} => cfg'[n] \in ConfigRef
            BY <2>1, <2>3 DEF Typed, TypeOK, FrameOK
      <2>5. sentTo' \in [Log -> Channel \cup {None}]
            <3>1. log[n] = "found" => heap[cfg[n]] \in Channel \cup {None}
                  BY DEF Typed, TypeOK, FrameOK
            <3>2. QED
                  BY <1>2, <3>1 DEF Deliver, FindLog, Send, AnswerLog, Typed, TypeOK
      <2>6. n \in Command => pc[n] = "done"
            BY <2>1 DEF Typed, FrameOK
      <2>7. FrameOK'
            BY <2>1, <2>2, <2>4, <2>6, LogAssumption DEF Typed, FrameOK
      <2>8. FreshOK'
            BY <2>2, <2>4, <2>6, LogAssumption DEF Typed, FreshOK
      <2>9. \A h \in Handler : pc[h] \notin {"idle", "done"} => h # n
            BY <2>6, LogAssumption
      <2>10. QED
            BY <2>1, <2>2, <2>4, <2>5, <2>7, <2>8, <2>9 DEF Typed, TypeOK
<1>3. QED
      BY <1>1, <1>2

LEMMA RestartTyped ==
    ASSUME Typed, Restart
    PROVE  Typed'
<1>1. /\ \A h \in Handler : /\ pc'[h] = IF pc[h] = "idle" THEN "idle" ELSE "done"
      /\ \A n \in Log : log'[n] \in {"none", "done"} /\ (log'[n] # "none" => log[n] # "none")
      /\ cfg' = [x \in Handler \cup Log |-> None]
      /\ cache' \in {None, Boot}
      /\ UNCHANGED <<target, db, channels>>
      BY DEF Restart, Typed, TypeOK
<1>2. heap' \in [ConfigRef -> Channel \cup {None}]
      <2>1. db # <<>> => db[Len(db)] \in Channel
            BY DEF Typed, TypeOK
      <2>2. (IF db = <<>> THEN None ELSE db[Len(db)]) \in Channel \cup {None}
            BY <2>1
      <2>3. QED
            BY <2>2 DEF Restart
<1>3. /\ pc' \in [Handler -> Label] /\ sentTo' \in [Log -> Channel \cup {None}]
      /\ log' \in [Log -> {"none", "queued", "found", "sent", "done"}]
      /\ incident' \subseteq Incident
      BY DEF Restart, Note, Incident, Label, Typed, TypeOK
<1>4. FrameOK' /\ FreshOK'
      BY <1>1, LogAssumption DEF Typed, FrameOK, FreshOK
<1>5. QED
      BY <1>1, <1>2, <1>3, <1>4 DEF Typed, TypeOK, Label

LEMMA NextTyped ==
    ASSUME Typed, [Next]_vars
    PROVE  Typed'
<1>1. ASSUME NEW h \in Handler, Handle(h)
      PROVE  Typed'
      <2>1. CASE h \in Command
            BY <1>1, <2>1, IssueTyped, FindTyped, InsertTyped, StoreTyped, UpdateTyped
            DEF Handle
      <2>2. CASE h \notin Command
            BY <1>1, <2>2, DeletionTyped DEF Handle
      <2>3. QED
            BY <2>1, <2>2
<1>2. CASE UNCHANGED vars
      BY <1>2 DEF vars, handlerVars, configVars, logVars, Typed, TypeOK, FrameOK, FreshOK
<1>3. QED
      BY <1>1, <1>2, IssueTyped, DeletionTyped, DeliverTyped, RestartTyped DEF Next, Post

-----------------------------------------------------------------------------
(***************************************************************************)
(* A log message in flight holds the lock of its configuration, and the    *)
(* handlers that change one without it have it for themselves.             *)
(***************************************************************************)

\* No step of a handler touches a log message in flight or its configuration.
LEMMA CommandSent ==
    ASSUME Typed, NEW c \in Command,
           \/ Answered(c) \/ Find(c) \/ Insert(c) \/ Store(c) \/ Update(c)
           \/ \E ch \in Channel : Issue(c, ch),
           NEW n \in Log, log'[n] = "sent"
    PROVE  /\ log[n] = "sent" /\ sentTo'[n] = sentTo[n] /\ cfg'[n] = cfg[n]
           /\ heap'[cfg[n]] = heap[cfg[n]]
<1>1. pc[c] # "done" /\ log[c] = "none"
      BY DEF Answered, Find, Insert, Store, Update, Issue, Typed, FrameOK
<1>2. /\ sentTo' = sentTo
      /\ log' = log \/ log' = [log EXCEPT ![c] = "queued"]
      /\ \E new : cfg' \in {cfg, [cfg EXCEPT ![c] = new]}
      BY DEF Answered, Find, Insert, Store, Update, Issue, FinishCommand, Finish, logVars
<1>3. n # c /\ log[n] = "sent" /\ cfg'[n] = cfg[n] /\ cfg[n] \in ConfigRef
      BY <1>1, <1>2 DEF Typed, TypeOK, FrameOK
<1>4. heap'[cfg[n]] = heap[cfg[n]]
      <2>1. CASE Insert(c)
            BY <1>3, <2>1 DEF Insert, Typed, TypeOK, FreshOK
      <2>2. CASE Update(c)
            BY <1>3, <2>2 DEF Update, Unlocked, Typed, TypeOK
      <2>3. QED
            BY <2>1, <2>2 DEF Answered, Find, Store, Issue, configVars
<1>5. QED
      BY <1>2, <1>3, <1>4

LEMMA NextSent ==
    ASSUME Typed, SentWhereRecorded, [Next]_vars
    PROVE  SentWhereRecorded'
<1>1. ASSUME NEW n \in Log, log'[n] = "sent",
             /\ log[n] = "sent" /\ sentTo'[n] = sentTo[n] /\ cfg'[n] = cfg[n]
             /\ heap'[cfg[n]] = heap[cfg[n]]
      PROVE  heap'[cfg'[n]] = sentTo'[n]
      BY <1>1 DEF SentWhereRecorded
<1>2. ASSUME NEW c \in Command,
             \/ Answered(c) \/ Find(c) \/ Insert(c) \/ Store(c) \/ Update(c)
             \/ \E ch \in Channel : Issue(c, ch)
      PROVE  SentWhereRecorded'
      BY <1>1, <1>2, CommandSent DEF SentWhereRecorded
<1>3. ASSUME NEW ch \in Channel, UserDeletesChannel(ch) \/ FindDeleted(ch) \/ Remove(ch)
      PROVE  SentWhereRecorded'
      <2>1. /\ UNCHANGED <<heap, log, sentTo>>
            /\ \E new : cfg' \in {cfg, [cfg EXCEPT ![ch] = new]}
            BY <1>3 DEF UserDeletesChannel, FindDeleted, Remove, Finish, configVars, logVars
      <2>2. \A n \in Log : cfg'[n] = cfg[n]
            BY <2>1, LogAssumption DEF Typed, TypeOK
      <2>3. QED
            BY <2>1, <2>2 DEF SentWhereRecorded
<1>4. ASSUME NEW n \in Log, Post(n) \/ Deliver(n)
      PROVE  SentWhereRecorded'
      <2>1. /\ \A m \in Log \ {n} : /\ log'[m] = log[m] /\ cfg'[m] = cfg[m]
                                    /\ sentTo'[m] = sentTo[m]
            /\ heap' = heap
            BY <1>4 DEF Post, Deliver, FindLog, Send, AnswerLog, configVars, Typed, TypeOK
      <2>2. log'[n] = "sent" => heap[cfg'[n]] = sentTo'[n]
            BY <1>4 DEF Post, Deliver, FindLog, Send, AnswerLog, Typed, TypeOK
      <2>3. QED
            BY <2>1, <2>2 DEF SentWhereRecorded
<1>5. CASE Restart
      BY <1>5 DEF Restart, SentWhereRecorded
<1>6. CASE UNCHANGED vars
      BY <1>6 DEF vars, configVars, logVars, SentWhereRecorded
<1>7. QED
      BY <1>2, <1>3, <1>4, <1>5, <1>6 DEF Next, Handle

-----------------------------------------------------------------------------
(***************************************************************************)
(* The collection and the cache.  Between the insertion of a document and  *)
(* the store of its object, the guild has no object in the cache, and no   *)
(* second command is between the two.                                      *)
(***************************************************************************)

Sane == incident \cap {"forked", "missed", "dbError"} = {}

Storing(c) == pc[c] = "store"

SavedOK ==
    Sane =>
        /\ (\A c \in Command : ~Storing(c)) =>
              db = IF cache = None THEN <<>> ELSE <<heap[cache]>>
        /\ \A c \in Command : Storing(c) => cache = None /\ db = <<heap[c]>>
        /\ \A c, d \in Command : Storing(c) /\ Storing(d) => c = d

\* Steps that change neither side.
Apart ==
    /\ Sane' => Sane
    /\ Sane' => UNCHANGED <<cache, db>>
    /\ \A c \in Command : Storing(c)' <=> Storing(c)
    /\ Sane' /\ cache # None => heap'[cache] = heap[cache]
    /\ Sane' => \A c \in Command : Storing(c) => heap'[c] = heap[c]

LEMMA InitSaved == Init => SavedOK
<1> SUFFICES ASSUME Init PROVE SavedOK
    OBVIOUS
<1>1. \A c \in Command : ~Storing(c)
      BY DEF Init, Storing
<1>2. db = IF cache = None THEN <<>> ELSE <<heap[cache]>>
      <2>1. CASE cache = None /\ db = <<>>
            BY <2>1
      <2>2. ASSUME NEW ch \in Channel, cache = Boot, db = <<ch>>,
                   heap = [[r \in ConfigRef |-> None] EXCEPT ![Boot] = ch]
            PROVE  db = IF cache = None THEN <<>> ELSE <<heap[cache]>>
            BY <2>2, LogAssumption
      <2>3. QED
            BY <2>1, <2>2 DEF Init
<1>3. QED
      BY <1>1, <1>2 DEF SavedOK

LEMMA ApartSaved ==
    ASSUME SavedOK, Apart
    PROVE  SavedOK'
<1>1. SUFFICES ASSUME Sane'
               PROVE  /\ (\A c \in Command : ~Storing(c)') =>
                            db' = IF cache' = None THEN <<>> ELSE <<heap'[cache']>>
                      /\ \A c \in Command : Storing(c)' => cache' = None /\ db' = <<heap'[c]>>
                      /\ \A c, d \in Command : Storing(c)' /\ Storing(d)' => c = d
      BY DEF SavedOK
<1>2. QED
      BY <1>1 DEF SavedOK, Apart

LEMMA CommandSaved ==
    ASSUME Typed, SavedOK, NEW c \in Command,
           \/ Answered(c) \/ Find(c) \/ Insert(c) \/ Store(c) \/ Update(c)
           \/ \E ch \in Channel : Issue(c, ch)
    PROVE  SavedOK'
<1>1. \A d \in Command \ {c} : pc'[d] = pc[d]
      BY DEF Answered, Find, Insert, Store, Update, Issue, FinishCommand, Finish, Goto, Typed, TypeOK
<1>2. Sane' => Sane
      BY DEF Answered, Find, Insert, Store, Update, Issue, Note, Sane
<1>3. CASE Answered(c) \/ Find(c) \/ \E ch \in Channel : Issue(c, ch)
      <2>1. /\ pc[c] # "store" /\ pc'[c] # "store" /\ UNCHANGED <<heap, cache, db, incident>>
            BY <1>3 DEF Answered, Find, Issue, Goto, configVars, Typed, TypeOK
      <2>2. QED
            BY <1>1, <1>2, <2>1, ApartSaved DEF Apart, Storing
<1>4. CASE Insert(c)
      <2>1. /\ pc[c] = "insert" /\ cache' = cache /\ target[c] \in Channel
            /\ heap'[c] = target[c] /\ \A r \in ConfigRef \ {c} : heap'[r] = heap[r]
            /\ cache # c /\ cache \in ConfigRef \cup {None} /\ db \in Seq(Channel)
            BY <1>4 DEF Insert, Typed, TypeOK, FrameOK, FreshOK
      <2>2. CASE Sane'
            <3>1. /\ db' = Append(db, target[c]) /\ db = <<>> /\ pc'[c] = "store"
                  BY <1>4, <2>2 DEF Insert, Goto, Note, Sane, Typed, TypeOK
            <3>2. \A r : db # <<r>>
                  BY <3>1
            <3>3. cache = None /\ \A d \in Command : ~Storing(d)
                  BY <1>2, <2>2, <3>1, <3>2 DEF SavedOK
            <3>4. db' = <<heap'[c]>>
                  BY <2>1, <3>1
            <3>5. \A d \in Command : Storing(d)' => d = c
                  BY <1>1, <3>3 DEF Storing
            <3>6. QED
                  BY <2>1, <3>1, <3>3, <3>4, <3>5 DEF SavedOK, Storing
      <2>3. QED
            BY <2>2 DEF SavedOK
<1>5. CASE Store(c)
      <2>1. /\ Storing(c) /\ cache' = c /\ UNCHANGED <<heap, db>> /\ pc'[c] = "done"
            /\ c # None
            BY <1>5, LogAssumption
            DEF Store, FinishCommand, Finish, Goto, Storing, Typed, TypeOK
      <2>2. Sane => /\ db = <<heap[c]>>
                    /\ \A d \in Command : Storing(d) => d = c
            BY <2>1 DEF SavedOK
      <2>3. QED
            BY <1>1, <1>2, <2>1, <2>2 DEF SavedOK, Storing
<1>6. CASE Update(c)
      <2>1. /\ pc[c] = "lock" /\ pc'[c] = "done" /\ cache' = cache /\ cfg[c] \in ConfigRef
            /\ heap' = [heap EXCEPT ![cfg[c]] = target[c]]
            BY <1>6 DEF Update, FinishCommand, Finish, Goto, Typed, TypeOK, FrameOK
      <2>2. CASE Sane'
            <3>1. cfg[c] = cache /\ db' = updateChannelID(target[c]) /\ cache # None
                  BY <1>6, <2>1, <2>2, LogAssumption DEF Update, Note, Forked, Sane
            <3>2. /\ db = <<heap[cache]>> /\ \A d \in Command : ~Storing(d)
                  BY <1>2, <2>2, <3>1 DEF SavedOK
            <3>3. db' = <<target[c]>>
                  BY <3>1, <3>2 DEF updateChannelID
            <3>4. heap'[cache] = target[c]
                  BY <2>1, <3>1 DEF Typed, TypeOK
            <3>5. QED
                  BY <1>1, <2>1, <3>1, <3>2, <3>3, <3>4 DEF SavedOK, Storing
      <2>3. QED
            BY <2>2 DEF SavedOK
<1>7. QED
      BY <1>3, <1>4, <1>5, <1>6

LEMMA NextSaved ==
    ASSUME Typed, SavedOK, [Next]_vars
    PROVE  SavedOK'
<1>1. ASSUME NEW ch \in Channel, UserDeletesChannel(ch) \/ FindDeleted(ch)
      PROVE  SavedOK'
      <2>1. /\ \A c \in Command : pc'[c] = pc[c]
            /\ UNCHANGED <<heap, cache, db, incident>>
            BY <1>1, LogAssumption
            DEF UserDeletesChannel, FindDeleted, Goto, configVars, Typed, TypeOK
      <2>2. QED
            BY <2>1, ApartSaved DEF Apart, Storing, Sane
<1>2. ASSUME NEW ch \in Channel, Remove(ch)
      PROVE  SavedOK'
      <2>1. /\ \A c \in Command : pc'[c] = pc[c]
            /\ heap' = heap /\ incident \subseteq incident' /\ pc[ch] = "lock"
            /\ cfg[ch] \in ConfigRef
            BY <1>2, LogAssumption
            DEF Remove, Note, Finish, Goto, configVars, Typed, TypeOK, FrameOK
      <2>2. CASE UNCHANGED <<db, cache, incident>>
            BY <2>1, <2>2, ApartSaved DEF Apart, Storing, Sane
      <2>3. CASE db' = removeFromDatabase /\ cache' = None /\ Note(Forked(cfg[ch]))
            <3>1. Sane' => Sane /\ cfg[ch] = cache /\ cache # None
                  BY <2>1, <2>3, LogAssumption DEF Note, Forked, Sane
            <3>2. Sane' => db = <<heap[cache]>> /\ \A c \in Command : ~Storing(c)
                  BY <3>1 DEF SavedOK
            <3>3. Sane' => db' = <<>>
                  BY <2>3, <3>2 DEF removeFromDatabase
            <3>4. QED
                  BY <2>1, <2>3, <3>2, <3>3 DEF SavedOK, Storing
      <2>4. CASE Note({"dbError"})
            BY <2>4 DEF Note, Sane, SavedOK
      <2>5. QED
            BY <1>2, <2>2, <2>3, <2>4 DEF Remove, EntryErased
<1>3. CASE Restart
      <2>1. SUFFICES ASSUME Sane' PROVE SavedOK'
            BY DEF SavedOK
      <2>2. Sane /\ \A c \in Command : pc[c] \in {"idle", "done"}
            BY <1>3, <2>1 DEF Restart, Note, Sane
      <2>3. db = IF cache = None THEN <<>> ELSE <<heap[cache]>>
            BY <2>2 DEF SavedOK, Storing
      <2>4. /\ \A c \in Command : pc'[c] # "store"
            /\ db' = db
            BY <1>3, <2>2 DEF Restart
      <2>5. CASE db = <<>>
            BY <1>3, <2>4, <2>5 DEF Restart, SavedOK, Storing
      <2>6. CASE db # <<>>
            <3>1. db = <<heap[cache]>> /\ db[Len(db)] = heap[cache]
                  BY <2>3, <2>6
            <3>2. cache' = Boot /\ heap'[Boot] = heap[cache] /\ Boot # None
                  BY <1>3, <2>6, <3>1, LogAssumption DEF Restart
            <3>3. QED
                  BY <2>4, <3>1, <3>2 DEF SavedOK, Storing
      <2>7. QED
            BY <2>5, <2>6
<1>4. ASSUME NEW n \in Log, (n \in Other /\ Post(n)) \/ Deliver(n)
      PROVE  SavedOK'
      BY <1>4, DeliverTyped, ApartSaved DEF Apart, Storing, Sane
<1>5. CASE UNCHANGED vars
      BY <1>5, ApartSaved DEF vars, handlerVars, configVars, Apart, Storing, Sane
<1>6. QED
      BY <1>1, <1>2, <1>3, <1>4, <1>5, CommandSaved DEF Next, Handle, Post

-----------------------------------------------------------------------------
(***************************************************************************)
(* The channel.  When the guild's channel is gone, the handler of its      *)
(* deletion is still to look for the configuration, or has found it.       *)
(***************************************************************************)

Pending(ch) == ch \in Channel /\ (pc[ch] = "event" \/ (pc[ch] = "lock" /\ cfg[ch] = cache))

ExistsOK == incident = {} /\ cache # None => heap[cache] \in channels \/ Pending(heap[cache])

LEMMA InitExists == Init => ExistsOK
<1> SUFFICES ASSUME Init PROVE ExistsOK
    OBVIOUS
<1>1. cache = None \/ heap[cache] \in Channel
      BY DEF Init
<1>2. QED
      BY <1>1 DEF Init, ExistsOK

LEMMA CommandExists ==
    ASSUME Typed, ExistsOK, NEW c \in Command,
           \/ Answered(c) \/ Find(c) \/ Insert(c) \/ Store(c) \/ Update(c)
           \/ \E ch \in Channel : Issue(c, ch)
    PROVE  ExistsOK'
<1>1. /\ channels' = channels
      /\ \A ch \in Channel : pc'[ch] = pc[ch] /\ cfg'[ch] = cfg[ch]
      BY LogAssumption
      DEF Answered, Find, Insert, Store, Update, Issue, FinishCommand, Finish, Goto, Typed, TypeOK
<1>2. incident' = {} => incident = {}
      BY DEF Answered, Find, Insert, Store, Update, Issue, Note
<1>3. CASE UNCHANGED cache /\ (cache # None => heap'[cache] = heap[cache])
      BY <1>1, <1>2, <1>3 DEF ExistsOK, Pending
<1>4. CASE Answered(c) \/ Find(c) \/ \E ch \in Channel : Issue(c, ch)
      BY <1>3, <1>4 DEF Answered, Find, Issue, configVars
<1>5. CASE Insert(c)
      <2>1. cache' = cache /\ cache # c /\ cache \in ConfigRef \cup {None}
            /\ \A r \in ConfigRef \ {c} : heap'[r] = heap[r]
            BY <1>5 DEF Insert, Typed, TypeOK, FreshOK
      <2>2. QED
            BY <1>3, <2>1
<1>6. CASE Store(c)
      <2>1. cache' = c /\ heap' = heap /\ (incident' = {} => heap[c] \in channels)
            BY <1>6 DEF Store, Note, Late
      <2>2. QED
            BY <1>1, <2>1 DEF ExistsOK
<1>7. CASE Update(c)
      <2>1. /\ cache' = cache /\ cfg[c] \in ConfigRef
            /\ heap' = [heap EXCEPT ![cfg[c]] = target[c]]
            /\ incident' = {} => cfg[c] = cache /\ target[c] \in channels
            BY <1>7 DEF Update, Note, Forked, Late, Typed, FrameOK
      <2>2. incident' = {} => heap'[cache'] \in channels'
            BY <1>1, <2>1 DEF Typed, TypeOK
      <2>3. QED
            BY <2>2 DEF ExistsOK
<1>8. QED
      BY <1>4, <1>5, <1>6, <1>7

LEMMA NextExists ==
    ASSUME Typed, SavedOK, ExistsOK, [Next]_vars
    PROVE  ExistsOK'
<1>1. ASSUME NEW ch \in Channel, UserDeletesChannel(ch)
      PROVE  ExistsOK'
      <2>1. /\ channels' = channels \ {ch} /\ pc'[ch] = "event"
            /\ \A k \in Channel \ {ch} : pc'[k] = pc[k]
            /\ UNCHANGED <<cfg, heap, cache, incident>>
            BY <1>1 DEF UserDeletesChannel, Goto, configVars, Typed, TypeOK
      <2>2. QED
            BY <1>1, <2>1 DEF ExistsOK, Pending
<1>2. ASSUME NEW ch \in Channel, FindDeleted(ch)
      PROVE  ExistsOK'
      <2>1. /\ cache # None => pc'[ch] = "lock" /\ cfg'[ch] = cache
            /\ \A k \in Channel \ {ch} : pc'[k] = pc[k] /\ cfg'[k] = cfg[k]
            /\ UNCHANGED <<channels, heap, cache, incident>>
            BY <1>2 DEF FindDeleted, Goto, configVars, Typed, TypeOK
      <2>2. QED
            BY <1>2, <2>1 DEF ExistsOK, Pending
<1>3. ASSUME NEW ch \in Channel, Remove(ch)
      PROVE  ExistsOK'
      <2>1. /\ pc[ch] = "lock" /\ UNCHANGED <<heap, channels>>
            /\ \A k \in Channel \ {ch} : pc'[k] = pc[k] /\ cfg'[k] = cfg[k]
            BY <1>3 DEF Remove, Finish, Goto, Typed, TypeOK
      <2>2. CASE heap[cfg[ch]] # ch /\ UNCHANGED <<cache, incident>>
            BY <2>1, <2>2 DEF ExistsOK, Pending
      <2>3. CASE cache' = None
            BY <2>3 DEF ExistsOK
      <2>4. CASE Note({"dbError"})
            BY <2>4 DEF Note, ExistsOK
      <2>5. QED
            BY <1>3, <2>2, <2>3, <2>4 DEF Remove, EntryErased
<1>4. CASE Restart
      <2>1. SUFFICES ASSUME incident' = {}, cache' # None
                     PROVE  heap'[cache'] \in channels'
            BY DEF ExistsOK
      <2>2. /\ incident = {} /\ Sane /\ channels' = channels /\ db # <<>>
            /\ \A h \in Handler : pc[h] \in {"idle", "done"}
            BY <1>4, <2>1 DEF Restart, Note, Sane
      <2>3. cache # None /\ db = <<heap[cache]>>
            BY <2>2 DEF SavedOK, Storing
      <2>4. heap[cache] \in channels
            BY <2>2, <2>3 DEF ExistsOK, Pending
      <2>5. cache' = Boot /\ heap'[Boot] = heap[cache]
            BY <1>4, <2>2, <2>3 DEF Restart
      <2>6. QED
            BY <2>2, <2>4, <2>5
<1>5. ASSUME NEW n \in Log, (n \in Other /\ Post(n)) \/ Deliver(n)
      PROVE  ExistsOK'
      <2>1. \A ch \in Channel : (pc[ch] # "event" /\ pc[ch] # "lock") \/ cfg'[ch] = cfg[ch]
            BY <1>5, DeliverTyped
      <2>2. QED
            BY <1>5, <2>1, DeliverTyped DEF ExistsOK, Pending
<1>6. CASE UNCHANGED vars
      BY <1>6 DEF vars, handlerVars, configVars, ExistsOK, Pending
<1>7. QED
      BY <1>1, <1>2, <1>3, <1>4, <1>5, <1>6, CommandExists DEF Next, Handle, Post

IInv == Typed /\ SentWhereRecorded /\ SavedOK /\ ExistsOK

LEMMA Invariant == Spec => []IInv
<1>1. Init => SentWhereRecorded
      BY DEF Init, SentWhereRecorded
<1>2. Init => IInv
      BY <1>1, InitTyped, InitSaved, InitExists DEF IInv
<1>3. IInv /\ [Next]_vars => IInv'
      BY NextTyped, NextSent, NextSaved, NextExists DEF IInv
<1>4. QED
      BY <1>2, <1>3, PTL DEF Spec

\* Every variable keeps its type.
THEOREM TypeCorrect == Spec => []TypeOK
<1>1. IInv => TypeOK
      BY DEF IInv, Typed
<1>2. QED
      BY <1>1, Invariant, PTL

\* The channel of a log message in flight is the one its configuration records.
THEOREM SentStaysRecorded == Spec => []SentWhereRecorded
<1>1. IInv => SentWhereRecorded
      BY DEF IInv
<1>2. QED
      BY <1>1, Invariant, PTL

\* A restart brings no old log channel back.
THEOREM CollectionFollowsCache == Spec => []SavedMatchesCache
<1>1. IInv => SavedMatchesCache
      BY DEF IInv, SavedOK, Sane, Storing, SavedMatchesCache
<1>2. QED
      BY <1>1, Invariant, PTL

\* The log channel of a guild at rest exists.
THEOREM RestingChannelExists == Spec => []ChannelExists
<1>1. IInv => ChannelExists
      BY DEF IInv, ExistsOK, Pending, ChannelExists
<1>2. QED
      BY <1>1, Invariant, PTL
=============================================================================
