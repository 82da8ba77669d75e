------------------------------ MODULE LogChannel ------------------------------
(***************************************************************************)
(* LogComponent for one guild: /setlogchannel, the deletion of the log     *)
(* channel, and the log messages the components send there.                *)
(*                                                                         *)
(* The handlers and the answers of Discord run on the threads of D++, the  *)
(* log messages on the one thread of ComponentLogger.  A log message keeps *)
(* the shared lock of the configuration until Discord has answered, a      *)
(* handler that wants it exclusively blocks its thread until then.         *)
(***************************************************************************)
EXTENDS Naturals, Sequences, FiniteSets

CONSTANTS
    Command,    \* the /setlogchannel interactions
    Channel,    \* the text channels the guild starts with
    Other,      \* log messages of other components for the guild
    Boot,       \* the configuration object a start of the process builds
    None,       \* a null pointer
    Threads,    \* threads of D++
    Faults      \* which of "restart" and "dbError" may happen

ASSUME LogAssumption ==
    /\ Boot \notin Command
    /\ Command \cap (Channel \cup Other) = {} /\ Channel \cap Other = {}
    /\ None \notin Command \cup Channel \cup {Boot}
    /\ Threads \in Nat \ {0}
    /\ Faults \subseteq {"restart", "dbError"}

\* A handler: of a command, or of the deletion of a channel.
Handler == Command \cup Channel

\* A log message: the one a command ends with, or another component's.
Log == Command \cup Other
ConfigRef == Command \cup {Boot}

VARIABLES
    pc,         \* where each handler stands
    target,     \* the channel each command asks for
    cfg,        \* the configuration each handler or log message found
    heap,       \* LogConfig objects: the channel of each
    cache,      \* m_configs: the object stored for the guild
    db,         \* the guild's documents: their channels
    channels,   \* Discord: the channels that exist
    log,        \* where each log message stands
    sentTo,     \* the channel each log message was sent to
    incident    \* history: what has made memory and the collection differ

handlerVars == <<pc, target, channels>>
configVars == <<heap, cache, db>>
logVars == <<log, sentTo>>
vars == <<handlerVars, cfg, configVars, logVars, incident>>

\* "forked": a handler worked on an object that is not the guild's any more;
\* "late": a command set a channel that was gone; "missed": the process was not
\* running when a channel went, or stopped in the middle of a handler.
Incident == {"forked", "late", "missed", "dbError"}

Init ==
    /\ pc = [h \in Handler |-> "idle"]
    /\ target = [c \in Command |-> None]
    /\ cfg = [x \in Handler \cup Log |-> None]
    /\ channels = Channel
    /\ log = [n \in Log |-> "none"]
    /\ sentTo = [n \in Log |-> None]
    /\ incident = {}
    /\ \/ cache = None /\ heap = [r \in ConfigRef |-> None] /\ db = <<>>
       \/ \E ch \in Channel :
             /\ cache = Boot
             /\ heap = [[r \in ConfigRef |-> None] EXCEPT ![Boot] = ch]
             /\ db = <<ch>>

-----------------------------------------------------------------------------
(* Threads and locks *)

\* Handlers that occupy a thread.
Busy == {h \in Handler : pc[h] \in {"find", "insert", "store", "lock"}}

\* A thread is free for the next handler or answer.
FreeThread == Cardinality(Busy) < Threads

\* Variation: a log message does not hold the lock while it waits.
UnlockedAlways(r) == TRUE

\* No log message in flight holds the configuration.
Unlocked(r) == \A n \in Log : log[n] = "sent" => cfg[n] # r

Note(kinds) == incident' = incident \cup kinds

Forked(r) == IF r = cache THEN {} ELSE {"forked"}
Late(ch) == IF ch \in channels THEN {} ELSE {"late"}

\* Variation: the field is cleared.
channelIDCleared(ch) == IF db = <<>> THEN db ELSE [db EXCEPT ![1] = None]

\* The first document of the guild is updated or removed.
updateChannelID(ch) == IF db = <<>> THEN db ELSE [db EXCEPT ![1] = ch]
removeFromDatabase == IF db = <<>> THEN db ELSE Tail(db)

Throws == "dbError" \in Faults

Goto(h, label) == pc' = [pc EXCEPT ![h] = label]

\* A handler that ends no longer holds the configuration.
Finish(h) == Goto(h, "done") /\ cfg' = [cfg EXCEPT ![h] = None]

\* A command that ends sends a log message, which is queued.
FinishCommand(c) ==
    /\ Finish(c)
    /\ log' = [log EXCEPT ![c] = "queued"]

-----------------------------------------------------------------------------
(* onSetLogChannel *)

\* channel_get is sent and the handler returns.
Issue(c, ch) ==
    /\ pc[c] = "idle"
    /\ ch \in channels
    /\ target' = [target EXCEPT ![c] = ch]
    /\ Goto(c, "asked")
    /\ UNCHANGED <<cfg, configVars, channels, logVars, incident>>

\* Discord's answer runs on a thread.  An error ends the command.
Answered(c) ==
    /\ pc[c] = "asked"
    /\ FreeThread
    /\ Goto(c, "find") \/ Goto(c, "done")
    /\ UNCHANGED <<target, cfg, configVars, channels, logVars, incident>>

Find(c) ==
    /\ pc[c] = "find"
    /\ cfg' = [cfg EXCEPT ![c] = IF cache = None THEN c ELSE cache]
    /\ Goto(c, IF cache = None THEN "insert" ELSE "lock")
    /\ UNCHANGED <<target, configVars, channels, logVars, incident>>

\* The first configuration of the guild: its document is inserted ...
Insert(c) ==
    /\ pc[c] = "insert"
    /\ heap' = [heap EXCEPT ![c] = target[c]]
    /\ \/ /\ db' = Append(db, target[c])
          /\ Note(IF db = <<>> THEN {} ELSE {"forked"})
          /\ Goto(c, "store")
          /\ UNCHANGED cfg
       \/ Throws /\ Finish(c) /\ UNCHANGED db /\ Note({"dbError"})
    /\ UNCHANGED <<target, cache, channels, logVars>>

\* ... and it is stored, over what another command may have stored meanwhile.
Store(c) ==
    /\ pc[c] = "store"
    /\ cache' = c
    /\ Note((IF cache = None THEN {} ELSE {"forked"}) \cup Late(heap[c]))
    /\ FinishCommand(c)
    /\ UNCHANGED <<target, heap, db, channels, sentTo>>

\* Under the exclusive lock: change the channel and save it.
Update(c) ==
    LET r == cfg[c]
    IN  /\ pc[c] = "lock"
        /\ c \in Command
        /\ Unlocked(r)
        /\ heap' = [heap EXCEPT ![r] = target[c]]
        /\ \/ /\ db' = updateChannelID(target[c])
              /\ Note(Forked(r) \cup Late(target[c]))
              /\ FinishCommand(c)
           \/ /\ Throws
              /\ Note({"dbError"})
              /\ Finish(c)
              /\ UNCHANGED <<db, log>>
        /\ UNCHANGED <<target, cache, channels, sentTo>>

-----------------------------------------------------------------------------
(* onChannelDelete *)

UserDeletesChannel(ch) ==
    /\ ch \in channels
    /\ channels' = channels \ {ch}
    /\ Goto(ch, "event")
    /\ UNCHANGED <<target, cfg, configVars, logVars, incident>>

\* The event is handled on a thread: without a configuration that is all.
FindDeleted(ch) ==
    /\ pc[ch] = "event"
    /\ FreeThread
    /\ cfg' = [cfg EXCEPT ![ch] = cache]
    /\ Goto(ch, IF cache = None THEN "done" ELSE "lock")
    /\ UNCHANGED <<target, configVars, channels, logVars, incident>>

\* Variation: the document goes and the configuration stays.
EntryLeft == cache

\* The guild's entry after its erasure.
EntryErased == None

\* Under the exclusive lock: the configuration goes if the channel is its own.
Remove(ch) ==
    LET r == cfg[ch]
    IN  /\ pc[ch] = "lock"
        /\ ch \in Channel
        /\ Unlocked(r)
        /\ IF heap[r] # ch
           THEN UNCHANGED <<db, cache, incident>>
           ELSE \/ /\ db' = removeFromDatabase
                   /\ cache' = EntryErased
                   /\ Note(Forked(r))
                \/ Throws /\ UNCHANGED <<db, cache>> /\ Note({"dbError"})
        /\ Finish(ch)
        /\ UNCHANGED <<target, heap, channels, logVars>>

-----------------------------------------------------------------------------
(* onComponentLog, on the logger's thread *)

\* Another component logs something of the guild.
Post(n) ==
    /\ n \in Other
    /\ log[n] = "none"
    /\ log' = [log EXCEPT ![n] = "queued"]
    /\ UNCHANGED <<handlerVars, cfg, configVars, sentTo, incident>>

\* The thread takes a message up: it finds the configuration, or drops it.
FindLog(n) ==
    /\ log[n] = "queued"
    /\ \A m \in Log : log[m] # "found"
    /\ cfg' = [cfg EXCEPT ![n] = cache]
    /\ log' = [log EXCEPT ![n] = IF cache = None THEN "done" ELSE "found"]
    /\ UNCHANGED <<handlerVars, configVars, sentTo, incident>>

\* Under the shared lock, which it keeps: the message is sent.
Send(n) ==
    /\ log[n] = "found"
    /\ log' = [log EXCEPT ![n] = "sent"]
    /\ sentTo' = [sentTo EXCEPT ![n] = heap[cfg[n]]]
    /\ UNCHANGED <<handlerVars, cfg, configVars, incident>>

\* Variation: an error does not resume the coroutine.
AnswersPosted(n) == sentTo[n] \in channels

\* The callback of AwaitDpp resumes the coroutine for every result, the message
\* or an error.
Answers(n) == TRUE

\* The answer runs on a thread of D++ and releases the lock there.
AnswerLog(n) ==
    /\ log[n] = "sent"
    /\ Answers(n)
    /\ FreeThread
    /\ log' = [log EXCEPT ![n] = "done"]
    /\ cfg' = [cfg EXCEPT ![n] = None]
    /\ sentTo' = [sentTo EXCEPT ![n] = None]
    /\ UNCHANGED <<handlerVars, configVars, incident>>

-----------------------------------------------------------------------------
\* The process ends and starts again: every document is stored, so that the
\* last one stays; handlers, log messages and waiting events are gone.
Restart ==
    /\ "restart" \in Faults
    /\ Note(IF \E h \in Handler : pc[h] \notin {"idle", "done"} THEN {"missed"} ELSE {})
    /\ pc' = [h \in Handler |-> IF pc[h] = "idle" THEN "idle" ELSE "done"]
    /\ cfg' = [x \in DOMAIN cfg |-> None]
    /\ log' = [n \in Log |-> IF log[n] = "none" THEN "none" ELSE "done"]
    /\ sentTo' = [n \in Log |-> None]
    /\ heap' = [[r \in ConfigRef |-> None] EXCEPT
                   ![Boot] = IF db = <<>> THEN None ELSE db[Len(db)]]
    /\ cache' = IF db = <<>> THEN None ELSE Boot
    /\ UNCHANGED <<target, db, channels>>

Handle(h) ==
    IF h \in Command
    THEN Answered(h) \/ Find(h) \/ Insert(h) \/ Store(h) \/ Update(h)
    ELSE FindDeleted(h) \/ Remove(h)

Deliver(n) == FindLog(n) \/ Send(n) \/ AnswerLog(n)

Next ==
    \/ \E c \in Command, ch \in Channel : Issue(c, ch)
    \/ \E ch \in Channel : UserDeletesChannel(ch)
    \/ \E n \in Log : Post(n) \/ Deliver(n)
    \/ \E h \in Handler : Handle(h)
    \/ Restart

Spec == Init /\ [][Next]_vars

-----------------------------------------------------------------------------
(* Properties *)

\* Every variable has its type.
TypeOK ==
    /\ pc \in [Handler -> {"idle", "asked", "find", "insert", "store", "lock",
                           "event", "done"}]
    /\ target \in [Command -> Channel \cup {None}]
    /\ cfg \in [Handler \cup Log -> ConfigRef \cup {None}]
    /\ heap \in [ConfigRef -> Channel \cup {None}]
    /\ cache \in ConfigRef \cup {None}
    /\ db \in Seq(Channel)
    /\ channels \subseteq Channel
    /\ log \in [Log -> {"none", "queued", "found", "sent", "done"}]
    /\ sentTo \in [Log -> Channel \cup {None}]
    /\ incident \subseteq Incident

\* While a log message is on its way its configuration keeps the channel the
\* message was sent to, which the error it may end with names: nothing changes
\* a configuration another thread is reading.
SentWhereRecorded == \A n \in Log : log[n] = "sent" => heap[cfg[n]] = sentTo[n]

\* Unless two handlers worked on different objects or a database call threw, the
\* guild has one document at most and it says what the cache says, so that a
\* restart does not bring an old log channel back.
SavedMatchesCache ==
    incident \cap {"forked", "missed", "dbError"} = {}
      /\ (\A c \in Command : pc[c] # "store") =>
        db = IF cache = None THEN <<>> ELSE <<heap[cache]>>

\* Once every handler has ended, the log channel of the guild exists: deleting
\* it removes the configuration, or a command has moved it elsewhere, unless a
\* command set a channel that was already gone or one of the other incidents
\* happened.
ChannelExists ==
    incident = {} /\ (\A h \in Handler : pc[h] \in {"idle", "done"}) =>
        cache = None \/ heap[cache] \in channels

\* D++ resumes every handler and runs every answer it has a thread for; Discord
\* answers; the logger's thread runs.
Fairness ==
    /\ \A h \in Handler : WF_vars(Handle(h))
    /\ \A n \in Log : WF_vars(Deliver(n))

FairSpec == Spec /\ Fairness

\* Every thread of D++ is taken by a handler that waits for the exclusive lock of
\* a configuration, and a log message whose answer needs a thread holds it.
Blocked ==
    /\ ~FreeThread
    /\ \A h \in Busy : pc[h] = "lock" /\ ~Unlocked(cfg[h])

\* Every log message leaves the queue and releases the lock it took, unless the
\* threads are all blocked: nothing in the program resolves that, and nothing
\* else in it keeps a message or its lock for ever.
LogsEnd == []<>(Blocked \/ \A n \in Log : log[n] \in {"none", "done"})

\* Every command ends, with its document and its cache entry written, unless the
\* threads are all blocked.
CommandsEnd == []<>(Blocked \/ \A c \in Command : pc[c] \in {"idle", "done"})
=============================================================================
