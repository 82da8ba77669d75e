---------------------------- MODULE StatusChannel ----------------------------
(***************************************************************************)
(* The life of one guild's status-channel configuration in                 *)
(* ServerStatusComponent: /setstatuschannel, the channel-delete and        *)
(* message-delete events, the ServerConfigs cache, the ServerConfig        *)
(* collection and a restart of the process.                                *)
(*                                                                         *)
(* Handlers run on the threads of the D++ cluster, so between two          *)
(* critical sections of one handler any other handler may run: between     *)
(* ServerConfigs::find and the lock of the configuration it returned, and  *)
(* at every co_await.  A step below is one such section.                   *)
(*                                                                         *)
(* All the state a handler touches is that of the guild of its event, so   *)
(* the module describes one guild.                                         *)
(***************************************************************************)
EXTENDS Naturals, Sequences

CONSTANTS
    Command,    \* the /setstatuschannel interactions (event.command.id)
    Channel,    \* the text channels the guild starts with
    Boot,       \* the configuration object a start of the process builds
    None,       \* an empty std::optional, a null pointer, a default id
    Faults,     \* which of the faults below may happen
    MaxDeletions    \* bound: how often users delete a widget or a channel

Kind == {"agent", "server"}

\* Where a command stands while it posts a widget of each kind.
Sent == [agent |-> "agentSent", server |-> "serverSent"]
Made == [agent |-> "agentMade", server |-> "serverMade"]
Failed == [agent |-> "agentFailed", server |-> "serverFailed"]
ConfigRef == Command \cup {Boot}

\* A widget message.  Its id is unique (who posted it, and which widget it
\* is); the channel it was posted in is part of the identity.
Message == [by : ConfigRef, kind : Kind, channel : Channel]

ASSUME ConstantsAssumption ==
    /\ Boot \notin Command
    /\ None \notin ConfigRef \cup Channel \cup Message
    /\ Faults \subseteq {"restart", "dbError", "lostAnswer", "refusedDelete"}
    /\ MaxDeletions \in Nat

Optional(S) == S \cup {None}

ServerConfig ==
    [channelID : Optional(Channel), agentMessageID : Optional(Message),
     messageID : Optional(Message), commandID : Optional(Command)]

\* What the collection keeps of a configuration: commandID is never saved.
Document ==
    [channelID : Optional(Channel), agentMessageID : Optional(Message),
     messageID : Optional(Message)]

Event == [kind : {"message"}, id : Message, by : {"bot", "user"}]
           \cup [kind : {"channel"}, id : Channel, by : {"user"}]

VARIABLES
    pc,         \* where each command stands in onSetStatusChannel
    target,     \* the channel each command asks for
    cfg,        \* the configuration object each command holds
    purge,      \* the previous widgets a command has still to delete
    post,       \* where a command has posted each widget
    heap,       \* the ServerConfig objects
    cache,      \* ServerConfigs: the object stored for the guild
    db,         \* the guild's documents, in insertion order
    channels,   \* Discord: the channels that exist
    live,       \* Discord: the widget messages that exist
    left,       \* history: messages the program has let go of on the way below
    events,     \* delete events not yet delivered to the bot
    handling,   \* delete events whose handler has looked up the cache
    deletions,  \* deletions by users so far
    incident    \* history: which of the windows below has been hit

frameVars == <<target, cfg, purge, post>>
commandVars == <<pc, frameVars>>
discordVars == <<channels, live, left, events, deletions>>
vars == <<commandVars, heap, cache, db, discordVars, handling, incident>>

(***************************************************************************)
(* incident records the things that let memory, the collection and Discord *)
(* drift apart, so that the properties can say that nothing else does: a   *)
(* handler worked on an object the cache did not hold ("forked"), a        *)
(* restart cut a command short ("interrupted"), a database call threw      *)
(* ("dbError"), or a delete event never came to the handler ("missed").    *)
(*                                                                         *)
(* left records the messages nobody answers for although there was no      *)
(* incident: Discord refused to delete them, or answered their post with   *)
(* an error, or their configuration was removed because a user deleted the *)
(* other widget.                                                           *)
(***************************************************************************)
Incident == {"forked", "interrupted", "dbError", "missed"}

\* Memory and the collection have had no reason to differ.
Intact == incident \subseteq {"missed"}

\* No handler has written past the other, and every write was made.
Synced == incident \cap {"forked", "dbError"} = {}

\* The widgets a configuration records.
WidgetsOf(config) == {config.agentMessageID, config.messageID} \ {None}

Blank == [channelID |-> None, agentMessageID |-> None, messageID |-> None,
          commandID |-> None]

\* Variation: the command id is saved too.
getValueWithCommand(config) == config

getValue(config) ==
    [channelID |-> config.channelID, agentMessageID |-> config.agentMessageID,
     messageID |-> config.messageID]

FromDocument(doc) ==
    [channelID |-> doc.channelID, agentMessageID |-> doc.agentMessageID,
     messageID |-> doc.messageID, commandID |-> None]

BootConfig(ch) ==
    [channelID |-> ch,
     agentMessageID |-> [by |-> Boot, kind |-> "agent", channel |-> ch],
     messageID |-> [by |-> Boot, kind |-> "server", channel |-> ch],
     commandID |-> None]

Widget(c, k) == [by |-> c, kind |-> k, channel |-> post[c][k]]

NoWidgets == [k \in Kind |-> None]

Waiting == {"idle", "done"}
Running(c) == pc[c] \notin Waiting

(***************************************************************************)
(* A guild that has never set a channel, or one whose configuration was    *)
(* loaded with both widgets in place.                                      *)
(***************************************************************************)
Init ==
    /\ pc = [c \in Command |-> "idle"]
    /\ target = [c \in Command |-> None]
    /\ cfg = [c \in Command |-> None]
    /\ purge = [c \in Command |-> NoWidgets]
    /\ post = [c \in Command |-> NoWidgets]
    /\ channels = Channel
    /\ left = {}
    /\ events = {}
    /\ handling = {}
    /\ deletions = 0
    /\ incident = {}
    /\ \/ /\ cache = None
          /\ heap = [r \in ConfigRef |-> Blank]
          /\ db = <<>>
          /\ live = {}
       \/ \E ch \in Channel :
             LET config == BootConfig(ch)
             IN  /\ cache = Boot
                 /\ heap = [[r \in ConfigRef |-> Blank] EXCEPT ![Boot] = config]
                 /\ db = <<getValue(config)>>
                 /\ live = {config.agentMessageID, config.messageID}

-----------------------------------------------------------------------------
(***************************************************************************)
(* The collection.  It has no index on guildID: insert_one always adds a   *)
(* document, update_one and delete_one act on the first that matches.      *)
(***************************************************************************)
updateChannelID(config) ==
    IF db = <<>> THEN db ELSE [db EXCEPT ![1].channelID = config.channelID]

\* Variation: the agent message is forgotten.
updateServerMessageOnly(config) ==
    IF db = <<>> THEN db ELSE [db EXCEPT ![1].messageID = config.messageID]

updateStatusWidget(config) ==
    IF db = <<>> THEN db
    ELSE [db EXCEPT ![1] = [@ EXCEPT !.agentMessageID = config.agentMessageID,
                                     !.messageID = config.messageID]]

removeFromDatabase == IF db = <<>> THEN db ELSE Tail(db)

\* A database call may throw, which ends the handler.
Throws == "dbError" \in Faults

\* Commands keep the exclusive lock of their object between steps only while
\* they save it; every other critical section is one step.
Locked(r) == \E c \in Command : pc[c] = "saving" /\ cfg[c] = r

Note(ok, r) ==
    incident' = incident \cup (IF ok THEN {} ELSE {"dbError"})
                         \cup (IF r = cache THEN {} ELSE {"forked"})

Goto(c, label) == pc' = [pc EXCEPT ![c] = label]

\* The coroutine ends and its frame is gone.
Finish(c) ==
    /\ pc' = [pc EXCEPT ![c] = "done"]
    /\ target' = [target EXCEPT ![c] = None]
    /\ cfg' = [cfg EXCEPT ![c] = None]
    /\ purge' = [purge EXCEPT ![c] = NoWidgets]
    /\ post' = [post EXCEPT ![c] = NoWidgets]

-----------------------------------------------------------------------------
(* onSetStatusChannel *)

\* The configuration now belongs to command c and has no widgets.
Retarget(config, c) ==
    [channelID |-> target[c], agentMessageID |-> None, messageID |-> None,
     commandID |-> c]

\* An administrator sends the command for a channel of the guild; the handler
\* asks Discord for the channel and waits.
Issue(c, ch) ==
    /\ pc[c] = "idle"
    /\ ch \in channels
    /\ target' = [target EXCEPT ![c] = ch]
    /\ Goto(c, "lookup")
    /\ UNCHANGED <<cfg, purge, post, heap, cache, db, discordVars, handling,
                   incident>>

\* co_channel_get answers with an error: the command ends.
LookupFails(c) ==
    /\ pc[c] = "lookup"
    /\ Finish(c)
    /\ UNCHANGED <<heap, cache, db, discordVars, handling, incident>>

\* The channel was seen (it may be gone by now) and the cache is read.
Find(c) ==
    /\ pc[c] = "lookup"
    /\ cfg' = [cfg EXCEPT ![c] = IF cache = None THEN c ELSE cache]
    /\ Goto(c, IF cache = None THEN "create" ELSE "reuse")
    /\ UNCHANGED <<target, purge, post, heap, cache, db, discordVars, handling,
                   incident>>

\* No configuration was found: build one and insert its document.
Insert(c) ==
    /\ pc[c] = "create"
    /\ heap' = [heap EXCEPT ![c] = Retarget(Blank, c)]
    /\ \/ /\ db' = Append(db, getValue(heap'[c]))
          /\ incident' = incident \cup IF db = <<>> THEN {} ELSE {"forked"}
          /\ Goto(c, "store")
          /\ UNCHANGED frameVars
       \/ /\ Throws
          /\ incident' = incident \cup {"dbError"}
          /\ Finish(c)
          /\ UNCHANGED db
    /\ UNCHANGED <<cache, discordVars, handling>>

\* ServerConfigs::store overwrites whatever another command stored since Find.
Store(c) ==
    /\ pc[c] = "store"
    /\ cache' = c
    /\ incident' = IF cache = None THEN incident ELSE incident \cup {"forked"}
    /\ Goto(c, "purge")
    /\ UNCHANGED <<frameVars, heap, db, discordVars, handling>>

\* Take over the object that was found: remember its widgets, retarget it and
\* save the channel.  A widget that is not in the previous channel cannot be
\* deleted through it: the call fails and its answer is ignored.
Reuse(c) ==
    LET r == cfg[c]
        old == heap[r]
        Deletable(m) == IF m # None /\ m.channel = old.channelID THEN m ELSE None
    IN  /\ pc[c] = "reuse"
        /\ ~Locked(r)
        /\ heap' = [heap EXCEPT ![r] = Retarget(old, c)]
        /\ \/ /\ db' = updateChannelID(heap'[r])
              /\ purge' = [purge EXCEPT ![c] =
                     [agent |-> Deletable(old.agentMessageID),
                      server |-> Deletable(old.messageID)]]
              /\ Note(TRUE, r)
              /\ Goto(c, "saving")
              /\ UNCHANGED <<target, cfg, post>>
           \/ /\ Throws
              /\ Note(FALSE, r)
              /\ Finish(c)
              /\ UNCHANGED db
        /\ UNCHANGED <<cache, discordVars, handling>>

\* Still under the lock: save the emptied widget, and release.
SaveWidget(c) ==
    /\ pc[c] = "saving"
    /\ \/ /\ db' = updateStatusWidget(heap[cfg[c]])
          /\ Note(TRUE, cfg[c])
          /\ Goto(c, "purge")
          /\ UNCHANGED frameVars
       \/ /\ Throws
          /\ Note(FALSE, cfg[c])
          /\ Finish(c)
          /\ UNCHANGED db
    /\ UNCHANGED <<heap, cache, discordVars, handling>>

\* Discord is asked to delete messages, and nobody looks at its answer: those it
\* refuses to delete stay.  The deletion of a message by the bot is announced to
\* it like any other.
BotDeletes(M) ==
    \E deleted \in SUBSET (M \cap live) :
        /\ "refusedDelete" \notin Faults => deleted = M \cap live
        /\ live' = live \ deleted
        /\ left' = left \cup ((M \cap live) \ deleted)
        /\ events' = events \cup
              {[kind |-> "message", id |-> m, by |-> "bot"] : m \in deleted}
        /\ UNCHANGED <<channels, deletions>>

\* Delete the previous widgets, the agent's first.
Purge(c, k) ==
    /\ pc[c] = "purge"
    /\ purge[c][k] # None
    /\ k = "server" => purge[c]["agent"] = None
    /\ BotDeletes({purge[c][k]})
    /\ purge' = [purge EXCEPT ![c][k] = None]
    /\ UNCHANGED <<pc, target, cfg, post, heap, cache, db, handling, incident>>

\* Build the agent widget from the configuration as it is now (another command
\* may have retargeted it) and ask Discord to post it.
SendAgent(c) ==
    /\ pc[c] = "purge"
    /\ \A k \in Kind : purge[c][k] = None
    /\ ~Locked(cfg[c])
    /\ post' = [post EXCEPT ![c]["agent"] = heap[cfg[c]].channelID]
    /\ Goto(c, "agentSent")
    /\ UNCHANGED <<target, cfg, purge, heap, cache, db, discordVars, handling,
                   incident>>

\* Discord posts the widget, if its channel still exists ...
Posted(c, k) ==
    /\ pc[c] = Sent[k]
    /\ post[c][k] \in channels
    /\ live' = live \cup {Widget(c, k)}
    /\ Goto(c, Made[k])
    /\ UNCHANGED <<frameVars, heap, cache, db, channels, left, events,
                   deletions, handling, incident>>

\* ... or refuses it; or posts it and the answer is lost, which looks the same.
Refused(c, k) ==
    /\ pc[c] = Sent[k]
    /\ \/ UNCHANGED <<live, left>>
       \/ /\ "lostAnswer" \in Faults
          /\ post[c][k] \in channels
          /\ live' = live \cup {Widget(c, k)}
          /\ left' = left \cup {Widget(c, k)}
    /\ Goto(c, Failed[k])
    /\ UNCHANGED <<frameVars, heap, cache, db, channels, events,
                   deletions, handling, incident>>

\* Variation: the command id is not read again after the wait.
CurrentUnchecked(c) == TRUE

\* The configuration still belongs to this command.
Current(c) == heap[cfg[c]].commandID = c

\* Variation: a failed command keeps the configuration.
Released(config) == [config EXCEPT !.agentMessageID = None]

\* A configuration without widgets that no command builds.
Unbuilt(config) == [config EXCEPT !.agentMessageID = None, !.commandID = None]

ReleaseCommand(c) ==
    heap' = IF Current(c) THEN [heap EXCEPT ![cfg[c]] = Unbuilt(@)] ELSE heap

\* The agent widget could not be created.  The configuration has none yet, so
\* giving it back is what it is in Undo.
AgentFailed(c) ==
    /\ pc[c] = "agentFailed"
    /\ ~Locked(cfg[c])
    /\ ReleaseCommand(c)
    /\ Note(TRUE, cfg[c])
    /\ Finish(c)
    /\ UNCHANGED <<cache, db, discordVars, handling>>

\* Record the agent widget in memory and ask for the server widget.
RecordAgent(c) ==
    LET r == cfg[c]
    IN  /\ pc[c] = "agentMade"
        /\ ~Locked(r)
        /\ Current(c)
        /\ heap' = [heap EXCEPT ![r].agentMessageID = Widget(c, "agent")]
        /\ post' = [post EXCEPT ![c]["server"] = heap[r].channelID]
        /\ Note(TRUE, r)
        /\ Goto(c, "serverSent")
        /\ UNCHANGED <<target, cfg, purge, cache, db, discordVars, handling>>

\* The server widget could not be created: ask for the agent widget's deletion,
\* whose event may arrive at once ...
ServerFailed(c) ==
    /\ pc[c] = "serverFailed"
    /\ BotDeletes({Widget(c, "agent")})
    /\ Goto(c, "undo")
    /\ UNCHANGED <<frameVars, heap, cache, db, handling, incident>>

\* ... and only then lock the configuration and forget the widget.
Undo(c) ==
    /\ pc[c] = "undo"
    /\ ~Locked(cfg[c])
    /\ ReleaseCommand(c)
    /\ Note(TRUE, cfg[c])
    /\ Finish(c)
    /\ UNCHANGED <<cache, db, discordVars, handling>>

\* Record the server widget, end the build and save both widgets.
RecordServer(c) ==
    LET r == cfg[c]
    IN  /\ pc[c] = "serverMade"
        /\ ~Locked(r)
        /\ Current(c)
        /\ heap' = [heap EXCEPT ![r].messageID = Widget(c, "server"),
                                ![r].commandID = None]
        /\ \/ db' = updateStatusWidget(heap'[r]) /\ Note(TRUE, r)
           \/ Throws /\ UNCHANGED db /\ Note(FALSE, r)
        /\ Finish(c)
        /\ UNCHANGED <<cache, discordVars, handling>>

\* Variation: only the agent widget is taken back.
AgentPostOnly(c, k) == {Widget(c, "agent")}

\* What a command has posted once its widget of kind k is there.
Posts(c, k) ==
    {Widget(c, "agent")} \cup IF k = "server" THEN {Widget(c, "server")} ELSE {}

\* A later command took the configuration over: delete what this one posted.
Abandon(c, k) ==
    /\ pc[c] = Made[k]
    /\ ~Locked(cfg[c])
    /\ ~Current(c)
    /\ BotDeletes(Posts(c, k))
    /\ Note(TRUE, cfg[c])
    /\ Finish(c)
    /\ UNCHANGED <<heap, cache, db, handling>>

Continue(c) ==
    \/ LookupFails(c) \/ Find(c)
    \/ Insert(c) \/ Store(c) \/ Reuse(c) \/ SaveWidget(c)
    \/ SendAgent(c) \/ AgentFailed(c) \/ RecordAgent(c)
    \/ ServerFailed(c) \/ Undo(c) \/ RecordServer(c)
    \/ \E k \in Kind : Purge(c, k) \/ Posted(c, k) \/ Refused(c, k) \/ Abandon(c, k)

-----------------------------------------------------------------------------
(* Discord and its delete events *)

UserDeletes == deletions < MaxDeletions /\ deletions' = deletions + 1

UserDeletesMessage(m) ==
    /\ m \in live
    /\ UserDeletes
    /\ live' = live \ {m}
    /\ events' = events \cup {[kind |-> "message", id |-> m, by |-> "user"]}
    /\ UNCHANGED <<commandVars, heap, cache, db, channels, left, handling, incident>>

\* The messages of a deleted channel go without an event of their own.
UserDeletesChannel(ch) ==
    /\ ch \in channels
    /\ UserDeletes
    /\ channels' = channels \ {ch}
    /\ live' = {m \in live : m.channel # ch}
    /\ events' = events \cup {[kind |-> "channel", id |-> ch, by |-> "user"]}
    /\ UNCHANGED <<commandVars, heap, cache, db, left, handling, incident>>

\* The handler of an event reads the cache, and ends if nothing is there.
Deliver(e) ==
    /\ e \in events
    /\ events' = events \ {e}
    /\ handling' = IF cache = None THEN handling
                   ELSE handling \cup {[event |-> e, cfg |-> cache]}
    /\ UNCHANGED <<commandVars, heap, cache, db, channels, live, left, deletions,
                   incident>>

\* A deleted channel is announced to LogComponent first, whose database call may
\* throw: the event then ends there.
Miss(e) ==
    /\ e \in events
    /\ e.kind = "channel"
    /\ Throws
    /\ events' = events \ {e}
    /\ incident' = incident \cup {"missed"}
    /\ UNCHANGED <<commandVars, heap, cache, db, channels, live, left, deletions,
                   handling>>

\* Variation: a build in progress is not looked at.
ConcernsBuilding(e, config) ==
    \/ /\ e.kind = "channel"
       /\ config.channelID = e.id
    \/ /\ e.kind = "message"
       /\ config.channelID = e.id.channel
       /\ e.id \in {config.messageID, config.agentMessageID}

\* Variation: the agent widget is not looked at.
ConcernsServerWidget(e, config) ==
    \/ /\ e.kind = "channel"
       /\ config.channelID = e.id
    \/ /\ e.kind = "message"
       /\ config.commandID = None
       /\ e.id = config.messageID

\* Whether the event is about the configuration the handler holds.
Concerns(e, config) ==
    \/ /\ e.kind = "channel"
       /\ config.channelID = e.id
    \/ /\ e.kind = "message"
       /\ config.channelID = e.id.channel
       /\ config.commandID = None
       /\ e.id \in {config.messageID, config.agentMessageID}

\* onChannelDelete and onMessageDelete, from the lock of the configuration on:
\* the document and the cache entry are removed by guild, not by object, and a
\* widget that was not deleted stays where it is.
Handle(h) ==
    /\ h \in handling
    /\ ~Locked(h.cfg)
    /\ handling' = handling \ {h}
    /\ IF Concerns(h.event, heap[h.cfg])
       THEN \/ /\ db' = removeFromDatabase
               /\ cache' = None
               /\ left' = left \cup WidgetsOf(heap[h.cfg])
               /\ Note(TRUE, h.cfg)
            \/ /\ Throws
               /\ Note(FALSE, h.cfg)
               /\ UNCHANGED <<db, cache, left>>
       ELSE UNCHANGED <<db, cache, left, incident>>
    /\ UNCHANGED <<commandVars, heap, channels, live, events, deletions>>

\* The process ends and starts again: the handlers and the objects are gone,
\* events sent meanwhile are lost, and the constructor stores every document,
\* so that the last one stays.
Restart ==
    /\ "restart" \in Faults
    /\ pc' = [c \in Command |-> IF Running(c) THEN "done" ELSE pc[c]]
    /\ target' = [c \in Command |-> None]
    /\ cfg' = [c \in Command |-> None]
    /\ purge' = [c \in Command |-> NoWidgets]
    /\ post' = [c \in Command |-> NoWidgets]
    /\ incident' = incident
          \cup (IF \E c \in Command : Running(c) THEN {"interrupted"} ELSE {})
          \cup (IF events \cup handling = {} THEN {} ELSE {"missed"})
    /\ heap' = [[r \in ConfigRef |-> Blank] EXCEPT
                   ![Boot] = IF db = <<>> THEN Blank ELSE FromDocument(db[Len(db)])]
    /\ cache' = IF db = <<>> THEN None ELSE Boot
    /\ events' = {}
    /\ handling' = {}
    /\ UNCHANGED <<db, channels, live, left, deletions>>

Next ==
    \/ \E c \in Command : Continue(c) \/ \E ch \in Channel : Issue(c, ch)
    \/ \E m \in live : UserDeletesMessage(m)
    \/ \E ch \in Channel : UserDeletesChannel(ch)
    \/ \E e \in events : Deliver(e) \/ Miss(e)
    \/ \E h \in handling : Handle(h)
    \/ Restart

Spec == Init /\ [][Next]_vars

-----------------------------------------------------------------------------
(* Properties *)

Label == {"idle", "lookup", "create", "store", "reuse", "saving", "purge",
          "agentSent", "agentMade", "agentFailed",
          "serverSent", "serverMade", "serverFailed", "undo", "done"}

\* Every variable has the shape the code's declarations give it.
TypeOK ==
    /\ pc \in [Command -> Label]
    /\ target \in [Command -> Optional(Channel)]
    /\ cfg \in [Command -> Optional(ConfigRef)]
    /\ purge \in [Command -> [Kind -> Optional(Message)]]
    /\ post \in [Command -> [Kind -> Optional(Channel)]]
    /\ heap \in [ConfigRef -> ServerConfig]
    /\ cache \in Optional(ConfigRef)
    /\ db \in Seq(Document)
    /\ channels \subseteq Channel
    /\ live \subseteq Message
    /\ left \subseteq Message
    /\ events \subseteq Event
    /\ handling \subseteq [event : Event, cfg : ConfigRef]
    /\ deletions \in 0 .. MaxDeletions
    /\ incident \subseteq Incident

Consistent(config) ==
    \A m \in {config.agentMessageID, config.messageID} :
        m # None => m.channel = config.channelID

\* The widgets a configuration records were posted in the channel it records,
\* however many commands retarget it while a widget is on its way: the command
\* id read again under the lock is what makes a late answer harmless.  Only an
\* object loaded from a document can be inconsistent, and only after an
\* incident: the channel and the widget are saved by two updates.
WidgetInChannel ==
    \A r \in ConfigRef : r # Boot \/ Intact => Consistent(heap[r])

\* The configuration in force records the message, or a command that is still
\* at work posted it or has to delete it.  An object that is not in force is freed
\* when the commands that hold it end, and answers for nothing.
Tracked(m) ==
    \/ cache # None /\ m \in WidgetsOf(heap[cache])
    \/ \E c \in Command : /\ Running(c)
                          /\ m.by = c \/ \E k \in Kind : purge[c][k] = m

\* No command leaves a widget behind in Discord: whichever way it is overtaken
\* or fails, each message it posted or replaced ends up recorded or deleted, also
\* when the process restarts between commands, as long as memory and the
\* collection have had no reason to differ and Discord does as it is told and
\* says what it did.
NoLeakedWidget == Intact => \A m \in live \ left : Tracked(m)

\* The document of a configuration: the widgets are saved when both exist.
Saved(config) ==
    IF config.commandID = None THEN getValue(config)
    ELSE [getValue(config) EXCEPT !.agentMessageID = None, !.messageID = None]

\* Outside the two windows where a document is being written, the collection
\* holds what the cache holds, through failed builds, superseded commands,
\* deletions and restarts at any point of a command, unless handlers worked on
\* two objects or a database call threw.
SavedMatchesCache ==
    Synced /\ (\A c \in Command : pc[c] \notin {"store", "saving"}) =>
        db = IF cache = None THEN <<>> ELSE <<Saved(heap[cache])>>

\* A configuration is removed because a user deleted its channel or a widget,
\* never because of a message the bot itself deleted, although the bot is told
\* of both alike.
OnlyUsersErase ==
    [][\A h \in handling :
          Handle(h) /\ cache' # cache => h.event.by = "user"]_vars

\* The buttons and the menu of a server widget find the configuration they
\* belong to ("You shouldn't be able to press this."): with no event on its way,
\* a guild that shows a server widget has a configuration.  It does not hold:
\* deleting the agent widget removes the configuration and leaves the other.
PressFindsConfig ==
    (\E m \in live : m.kind = "server") /\ events = {} /\ handling = {} =>
        cache # None

-----------------------------------------------------------------------------
(* Liveness: D++ resumes every coroutine, answers every request or times it
   out, and delivers every event. *)

Fairness ==
    /\ \A c \in Command : WF_vars(Continue(c))
    /\ WF_vars(\E e \in events : Deliver(e) \/ Miss(e))
    /\ WF_vars(\E h \in handling : Handle(h))

FairSpec == Spec /\ Fairness

Building == cache # None /\ heap[cache].commandID # None

\* "Server status widget is still building, please try again!" does not stay:
\* every way a command ends gives the configuration back.  A database call that
\* throws is the exception: nothing resets the command id then.
BuildingEnds == []<>(Building => "dbError" \in incident)

UserEvent == {e \in Event : e.by = "user"}

\* The configuration in force records the channel or the widget of the event.
Recorded(e) ==
    /\ cache # None
    /\ IF e.kind = "channel" THEN heap[cache].channelID = e.id
       ELSE /\ ~Building
            /\ e.id \in {heap[cache].messageID, heap[cache].agentMessageID}

\* What the configuration in force records is there.
NothingMissing == \A e \in UserEvent : Recorded(e) => e.id \in live \cup channels

\* A deletion by a user of the channel or of a widget of the configuration in
\* force, announced while no widget is being built, is acted on: the
\* configuration goes, or a later command gives it other widgets, unless an
\* incident happens, before the deletion or after it.  Each kind of incident can
\* keep a deletion from being noticed.
DeletionNoticed ==
    (\E e \in UserEvent : e \in events /\ Recorded(e)) ~>
        (NothingMissing \/ incident # {})

-----------------------------------------------------------------------------
(* Refinement: the configuration in force, seen from outside. *)

Phase ==
    CASE cache = None -> "absent"
      [] cache # None /\ heap[cache].commandID # None -> "building"
      [] OTHER -> IF None \in {heap[cache].agentMessageID, heap[cache].messageID}
                  THEN "broken" ELSE "ready"

Owner == IF cache = None THEN None ELSE heap[cache].commandID
Place == IF cache = None THEN None ELSE heap[cache].channelID

Shown == IF Phase = "ready" THEN {heap[cache].agentMessageID, heap[cache].messageID}
                            ELSE {}

Begun == {c \in Command : pc[c] \notin {"idle", "lookup", "create", "store", "reuse"}}

Lifecycle == INSTANCE WidgetLifecycle
    WITH phase <- Phase, owner <- Owner, place <- Place, shown <- Shown,
         begun <- Begun

\* As long as the process does not restart, the handlers implement the
\* lifecycle: however commands, late answers and delete events interleave, an
\* overtaken command has no effect on what the guild shows, and a guild is ready
\* only with the two widgets of one command.
ImplementsLifecycle == Lifecycle!Spec
=============================================================================
