------------------------- MODULE StatusChannelProofs -------------------------
(* Theorems about StatusChannel, for any number of commands and channels and
   any set of faults (two theorems exclude one fault each, and say so). *)
EXTENDS StatusChannel, TLAPS

Holding == {"store", "reuse", "saving", "purge", "agentSent", "agentMade",
            "agentFailed", "serverSent", "serverMade", "serverFailed", "undo"}
Posting == {"agentSent", "agentMade", "agentFailed", "serverSent", "serverMade",
            "serverFailed", "undo"}
PostingServer == {"serverSent", "serverMade", "serverFailed", "undo"}

\* What the frame of a command holds at each of its steps, and that an object
\* somebody can reach has a channel: the part of a step's type that the
\* declarations do not give.
FrameOK ==
    /\ \A c \in Command :
          /\ pc[c] \notin Waiting => target[c] \in Channel
          /\ pc[c] = "create" => cfg[c] = c
          /\ pc[c] \in Holding =>
                cfg[c] \in ConfigRef /\ heap[cfg[c]].channelID \in Channel
          /\ pc[c] = "store" => cfg[c] = c
          /\ pc[c] \in Posting => post[c]["agent"] \in Channel
          /\ pc[c] \in PostingServer => post[c]["server"] \in Channel
    /\ cache # None => heap[cache].channelID \in Channel
    /\ \A i \in 1 .. Len(db) : db[i].channelID \in Channel

Typed == TypeOK /\ FrameOK

USE DEF Kind, Optional

LEMMA BootMessage ==
  ASSUME NEW ch \in Channel
  PROVE  /\ BootConfig(ch) \in ServerConfig
         /\ BootConfig(ch).channelID = ch
         /\ BootConfig(ch).agentMessageID \in Message
         /\ BootConfig(ch).messageID \in Message
  BY DEF BootConfig, ServerConfig, Message, ConfigRef

LEMMA Documents == \A config \in ServerConfig :
                     /\ getValue(config) \in Document
                     /\ getValue(config).channelID = config.channelID
  BY DEF getValue, ServerConfig, Document

LEMMA BlankConfig == Blank \in ServerConfig
  BY DEF Blank, ServerConfig

LEMMA InitTyped == Init => Typed
<1> SUFFICES ASSUME Init PROVE Typed
  OBVIOUS
<1>1. /\ pc \in [Command -> Label]
      /\ target \in [Command -> Optional(Channel)]
      /\ cfg \in [Command -> Optional(ConfigRef)]
      /\ purge \in [Command -> [Kind -> Optional(Message)]]
      /\ post \in [Command -> [Kind -> Optional(Channel)]]
      /\ channels \subseteq Channel
      /\ events \subseteq Event
      /\ handling \subseteq [event : Event, cfg : ConfigRef]
      /\ deletions \in 0 .. MaxDeletions
      /\ incident \subseteq Incident
  BY ConstantsAssumption DEF Init, Label, NoWidgets
<1>2. /\ heap \in [ConfigRef -> ServerConfig]
      /\ cache \in Optional(ConfigRef)
      /\ live \subseteq Message
      /\ cache # None => heap[cache].channelID \in Channel
  BY BootMessage, BlankConfig DEF Init, ConfigRef
<1>3. /\ db \in Seq(Document)
      /\ \A i \in 1 .. Len(db) : db[i].channelID \in Channel
  <2>1. CASE db = <<>>
    BY <2>1
  <2>2. CASE \E ch \in Channel : db = <<getValue(BootConfig(ch))>>
    BY <2>2, BootMessage, Documents
  <2> QED
    BY <2>1, <2>2 DEF Init
<1> QED
  BY <1>1, <1>2, <1>3
  DEF Init, Typed, TypeOK, FrameOK, Waiting, Holding, Posting, PostingServer

LEMMA IssueTyped ==
  ASSUME Typed, NEW c \in Command, NEW ch \in Channel, Issue(c, ch)
  PROVE  Typed'
  BY ConstantsAssumption
  DEF Issue, Goto, frameVars, discordVars, Typed, TypeOK, FrameOK, Label, Waiting,
      Holding, Posting, PostingServer

\* The frame of a command that ends.
LEMMA FinishTyped ==
  ASSUME Typed, NEW c \in Command, Finish(c),
         heap' \in [ConfigRef -> ServerConfig],
         \A r \in ConfigRef :
            heap[r].channelID \in Channel => heap'[r].channelID \in Channel
  PROVE  /\ pc' \in [Command -> Label]
         /\ target' \in [Command -> Optional(Channel)]
         /\ cfg' \in [Command -> Optional(ConfigRef)]
         /\ purge' \in [Command -> [Kind -> Optional(Message)]]
         /\ post' \in [Command -> [Kind -> Optional(Channel)]]
         /\ FrameOK!1'
<1>1. NoWidgets \in [Kind -> Optional(Message)] /\ NoWidgets \in [Kind -> Optional(Channel)]
  BY DEF NoWidgets
<1>2. /\ pc' \in [Command -> Label]
      /\ target' \in [Command -> Optional(Channel)]
      /\ cfg' \in [Command -> Optional(ConfigRef)]
      /\ purge' \in [Command -> [Kind -> Optional(Message)]]
      /\ post' \in [Command -> [Kind -> Optional(Channel)]]
  BY <1>1 DEF Finish, Typed, TypeOK, Label
<1>3. FrameOK!1'
  BY DEF Finish, Typed, TypeOK, FrameOK, Waiting, Holding, Posting, PostingServer
<1> QED
  BY <1>2, <1>3

LEMMA FindTyped ==
  ASSUME Typed, NEW c \in Command, LookupFails(c) \/ Find(c)
  PROVE  Typed'
<1>1. CASE LookupFails(c)
  BY <1>1, FinishTyped
  DEF LookupFails, discordVars, Typed, TypeOK, FrameOK
<1>2. CASE Find(c)
  BY <1>2, ConstantsAssumption
  DEF Find, Goto, frameVars, discordVars, Typed, TypeOK, FrameOK, Label,
      Waiting, Holding, Posting, PostingServer, ConfigRef
<1> QED
  BY <1>1, <1>2

LEMMA InsertTyped ==
  ASSUME Typed, NEW c \in Command, Insert(c)
  PROVE  Typed'
<1>1. /\ heap' \in [ConfigRef -> ServerConfig]
      /\ heap'[c].channelID = target[c]
      /\ target[c] \in Channel
      /\ \A r \in ConfigRef :
            heap[r].channelID \in Channel => heap'[r].channelID \in Channel
  BY DEF Insert, Retarget, Typed, TypeOK, FrameOK, Waiting, ConfigRef, ServerConfig
<1>2. getValue(heap'[c]) \in Document /\ getValue(heap'[c]).channelID \in Channel
  BY <1>1, Documents DEF ConfigRef
<1>3. CASE Finish(c) /\ UNCHANGED db /\ incident' = incident \cup {"dbError"}
  BY <1>1, <1>3, FinishTyped
  DEF Insert, discordVars, Typed, TypeOK, FrameOK, Incident
<1>4. CASE /\ db' = Append(db, getValue(heap'[c]))
           /\ incident' = incident \cup IF db = <<>> THEN {} ELSE {"forked"}
           /\ Goto(c, "store")
           /\ UNCHANGED frameVars
  <2>1. db' \in Seq(Document) /\ \A i \in 1 .. Len(db') : db'[i].channelID \in Channel
    BY <1>2, <1>4 DEF Typed, TypeOK, FrameOK
  <2>2. incident' \subseteq Incident /\ pc' \in [Command -> Label]
    BY <1>4 DEF Goto, Typed, TypeOK, Label, Incident
  <2>3. FrameOK!1'
    BY <1>1, <1>4
    DEF Insert, Goto, frameVars, Typed, TypeOK, FrameOK, ConfigRef, Waiting,
        Holding, Posting, PostingServer
  <2> QED
    BY <1>1, <1>4, <2>1, <2>2, <2>3
    DEF Insert, frameVars, discordVars, Typed, TypeOK, FrameOK
<1> QED
  BY <1>3, <1>4 DEF Insert

LEMMA StoreTyped ==
  ASSUME Typed, NEW c \in Command, Store(c)
  PROVE  Typed'
  BY ConstantsAssumption
  DEF Store, Goto, frameVars, discordVars, Typed, TypeOK, FrameOK, Label, Waiting,
      Holding, Posting, PostingServer, ConfigRef, Incident

LEMMA NoteTyped ==
  ASSUME incident \subseteq Incident, NEW ok, NEW r, Note(ok, r)
  PROVE  incident' \subseteq Incident
  BY DEF Note, Incident

\* What the collection's operations keep of its documents.
DocumentsOK(docs) ==
    docs \in Seq(Document) /\ \A i \in 1 .. Len(docs) : docs[i].channelID \in Channel

LEMMA RemoveTyped ==
  ASSUME DocumentsOK(db)
  PROVE  DocumentsOK(removeFromDatabase)
<1>1. CASE db = <<>>
  BY <1>1 DEF DocumentsOK, removeFromDatabase
<1>2. CASE db # <<>>
  BY <1>2 DEF DocumentsOK, removeFromDatabase
<1> QED
  BY <1>1, <1>2

LEMMA DatabaseTyped ==
  ASSUME DocumentsOK(db), NEW config \in ServerConfig, config.channelID \in Channel
  PROVE  /\ DocumentsOK(updateChannelID(config))
         /\ DocumentsOK(updateStatusWidget(config))
<1>1. CASE db = <<>>
  BY <1>1 DEF DocumentsOK, updateChannelID, updateStatusWidget
<1>2. CASE db # <<>>
  <2>1. 1 \in 1 .. Len(db) /\ db[1] \in Document
    BY <1>2 DEF DocumentsOK
  <2>2. /\ [db[1] EXCEPT !.channelID = config.channelID] \in Document
        /\ [db[1] EXCEPT !.agentMessageID = config.agentMessageID,
                         !.messageID = config.messageID] \in Document
    BY <2>1 DEF Document, ServerConfig
  <2>3. DocumentsOK(updateChannelID(config))
    BY <1>2, <2>1, <2>2 DEF DocumentsOK, updateChannelID, Document
  <2>4. DocumentsOK(updateStatusWidget(config))
    BY <1>2, <2>1, <2>2 DEF DocumentsOK, updateStatusWidget, Document
  <2> QED
    BY <2>3, <2>4
<1> QED
  BY <1>1, <1>2

LEMMA ReuseTyped ==
  ASSUME Typed, NEW c \in Command, Reuse(c)
  PROVE  Typed'
<1>1. /\ cfg[c] \in ConfigRef
      /\ heap[cfg[c]] \in ServerConfig
      /\ target[c] \in Channel
  BY DEF Reuse, Typed, TypeOK, FrameOK, Holding, Waiting
<1>2. /\ heap' \in [ConfigRef -> ServerConfig]
      /\ heap'[cfg[c]].channelID \in Channel
      /\ \A r \in ConfigRef :
            heap[r].channelID \in Channel => heap'[r].channelID \in Channel
  BY <1>1 DEF Reuse, Retarget, Typed, TypeOK, ServerConfig
<1>3. incident' \subseteq Incident
  BY NoteTyped DEF Reuse, Typed, TypeOK
<1>4. CASE Finish(c) /\ UNCHANGED db
  BY <1>2, <1>3, <1>4, FinishTyped DEF Reuse, discordVars, Typed, TypeOK, FrameOK
<1>5. CASE /\ db' = updateChannelID(heap'[cfg[c]])
           /\ Goto(c, "saving")
           /\ UNCHANGED <<target, cfg, post>>
           /\ \E m1, m2 \in Optional(Message) :
                 purge' = [purge EXCEPT ![c] = [agent |-> m1, server |-> m2]]
  <2>1. DocumentsOK(db')
    BY <1>1, <1>2, <1>5, DatabaseTyped DEF DocumentsOK, Typed, TypeOK, FrameOK
  <2>2. pc' \in [Command -> Label] /\ purge' \in [Command -> [Kind -> Optional(Message)]]
    BY <1>5 DEF Goto, Typed, TypeOK, Label
  <2>3. FrameOK!1'
    BY <1>1, <1>2, <1>5
    DEF Goto, Typed, TypeOK, FrameOK, Waiting, Holding, Posting, PostingServer
  <2> QED
    BY <1>2, <1>3, <1>5, <2>1, <2>2, <2>3
    DEF Reuse, discordVars, DocumentsOK, Typed, TypeOK, FrameOK
<1>6. heap[cfg[c]].agentMessageID \in Optional(Message) /\
      heap[cfg[c]].messageID \in Optional(Message)
  BY <1>1 DEF ServerConfig
<1> QED
  BY <1>4, <1>5, <1>6 DEF Reuse

LEMMA SaveWidgetTyped ==
  ASSUME Typed, NEW c \in Command, SaveWidget(c)
  PROVE  Typed'
<1>1. /\ cfg[c] \in ConfigRef
      /\ heap[cfg[c]] \in ServerConfig
      /\ heap[cfg[c]].channelID \in Channel
  BY DEF SaveWidget, Typed, TypeOK, FrameOK, Holding
<1>2. incident' \subseteq Incident
  BY NoteTyped DEF SaveWidget, Typed, TypeOK
<1>3. CASE Finish(c) /\ UNCHANGED db
  BY <1>2, <1>3, FinishTyped DEF SaveWidget, discordVars, Typed, TypeOK, FrameOK
<1>4. CASE /\ db' = updateStatusWidget(heap[cfg[c]])
           /\ Goto(c, "purge")
           /\ UNCHANGED frameVars
  <2>1. DocumentsOK(db')
    BY <1>1, <1>4, DatabaseTyped DEF DocumentsOK, Typed, TypeOK, FrameOK
  <2>2. pc' \in [Command -> Label] /\ FrameOK!1'
    BY <1>1, <1>4
    DEF SaveWidget, frameVars, Goto, Typed, TypeOK, FrameOK, Label, Waiting, Holding,
        Posting, PostingServer
  <2> QED
    BY <1>2, <1>4, <2>1, <2>2
    DEF SaveWidget, frameVars, discordVars, DocumentsOK, Typed, TypeOK, FrameOK
<1> QED
  BY <1>3, <1>4 DEF SaveWidget

\* Deleting, or asking for, a widget.
LEMMA PurgeTyped ==
  ASSUME Typed, NEW c \in Command, NEW k \in Kind, Purge(c, k)
  PROVE  Typed'
<1>1. purge' \in [Command -> [Kind -> Optional(Message)]]
  BY DEF Purge, Typed, TypeOK
<1>2. purge[c][k] \in Message
  BY DEF Purge, Typed, TypeOK
<1>3. live' \subseteq Message /\ events' \subseteq Event
  BY <1>2 DEF Purge, BotDeletes, Event, Typed, TypeOK
<1> QED
  BY <1>1, <1>3 DEF Purge, BotDeletes, Typed, TypeOK, FrameOK

LEMMA SendAgentTyped ==
  ASSUME Typed, NEW c \in Command, SendAgent(c)
  PROVE  Typed'
  BY DEF SendAgent, Goto, discordVars, Typed, TypeOK, FrameOK, Label, Waiting,
         Holding, Posting, PostingServer

LEMMA WidgetTyped ==
  ASSUME NEW c \in Command, NEW k \in Kind, post[c][k] \in Channel
  PROVE  Widget(c, k) \in Message
  BY DEF Widget, Message, ConfigRef

LEMMA AnswerTyped ==
  ASSUME Typed, NEW c \in Command, NEW k \in Kind, Posted(c, k) \/ Refused(c, k)
  PROVE  Typed'
<1>1. /\ pc[c] = Sent[k]
      /\ Goto(c, Made[k]) \/ Goto(c, Failed[k])
      /\ UNCHANGED <<frameVars, heap, cache, db, channels, events, deletions,
                     handling, incident>>
      /\ live' \in {live, live \cup {Widget(c, k)}}
      /\ left' \in {left, left \cup {Widget(c, k)}}
  BY DEF Posted, Refused
<1>2. post[c][k] \in Channel
  BY <1>1 DEF Sent, Typed, TypeOK, FrameOK, Posting, PostingServer
<1>3. Widget(c, k) \in Message
  BY <1>2, WidgetTyped
<1>4. k = "agent" \/ k = "server"
  OBVIOUS
<1>5. pc' \in [Command -> Label]
  BY <1>1, <1>4 DEF Made, Failed, Goto, Typed, TypeOK, Label
<1>6. pc'[c] \in Posting /\ (pc'[c] \in PostingServer <=> pc[c] \in PostingServer)
  BY <1>1, <1>4 DEF Sent, Made, Failed, Goto, Typed, TypeOK, Posting, PostingServer
<1>7. pc[c] \in Posting /\ \A d \in Command \ {c} : pc'[d] = pc[d]
  BY <1>1, <1>4 DEF Sent, Goto, Typed, TypeOK, Posting
<1>8. FrameOK!1'
  BY <1>1, <1>6, <1>7
  DEF frameVars, Typed, FrameOK, Waiting, Holding, Posting, PostingServer
<1> QED
  BY <1>1, <1>3, <1>5, <1>8 DEF frameVars, Typed, TypeOK, FrameOK

LEMMA ReleaseTyped ==
  ASSUME Typed, NEW c \in Command, cfg[c] \in ConfigRef, ReleaseCommand(c)
  PROVE  /\ heap' \in [ConfigRef -> ServerConfig]
         /\ \A r \in ConfigRef :
               /\ heap'[r].channelID = heap[r].channelID
               /\ heap'[r].messageID = heap[r].messageID
               /\ heap'[r].agentMessageID \in {heap[r].agentMessageID, None}
               /\ heap'[r].commandID \in {heap[r].commandID, None}
<1>1. \A config \in ServerConfig :
         /\ Unbuilt(config) \in ServerConfig
         /\ Unbuilt(config).channelID = config.channelID
         /\ Unbuilt(config).messageID = config.messageID
         /\ Unbuilt(config).agentMessageID = None
         /\ Unbuilt(config).commandID = None
  BY DEF Unbuilt, ServerConfig
<1>2. heap \in [ConfigRef -> ServerConfig]
  BY DEF Typed, TypeOK
<1>3. heap' = heap \/ heap' = [heap EXCEPT ![cfg[c]] = Unbuilt(heap[cfg[c]])]
  BY DEF ReleaseCommand
<1> QED
  BY <1>1, <1>2, <1>3

LEMMA FailureTyped ==
  ASSUME Typed, NEW c \in Command, AgentFailed(c) \/ Undo(c)
  PROVE  Typed'
<1>1. /\ cfg[c] \in ConfigRef
      /\ ReleaseCommand(c) /\ Note(TRUE, cfg[c]) /\ Finish(c)
      /\ UNCHANGED <<cache, db, discordVars, handling>>
  BY DEF AgentFailed, Undo, Typed, TypeOK, FrameOK, Holding
<1>2. incident' \subseteq Incident
  BY <1>1, NoteTyped DEF Typed, TypeOK
<1> QED
  BY <1>1, <1>2, ReleaseTyped, FinishTyped DEF discordVars, Typed, TypeOK, FrameOK

LEMMA RecordAgentTyped ==
  ASSUME Typed, NEW c \in Command, RecordAgent(c)
  PROVE  Typed'
<1>1. /\ cfg[c] \in ConfigRef
      /\ heap[cfg[c]] \in ServerConfig
      /\ heap[cfg[c]].channelID \in Channel
      /\ Widget(c, "agent") \in Message
  BY WidgetTyped DEF RecordAgent, Typed, TypeOK, FrameOK, Holding, Posting
<1>2. /\ heap' \in [ConfigRef -> ServerConfig]
      /\ \A r \in ConfigRef : heap'[r].channelID = heap[r].channelID
  BY <1>1 DEF RecordAgent, Typed, TypeOK, ServerConfig
<1>3. incident' \subseteq Incident
  BY NoteTyped DEF RecordAgent, Typed, TypeOK
<1>4. post' \in [Command -> [Kind -> Optional(Channel)]]
  BY <1>1 DEF RecordAgent, Typed, TypeOK
<1>5. pc' \in [Command -> Label] /\ FrameOK!1'
  BY <1>1, <1>2
  DEF RecordAgent, Goto, Typed, TypeOK, FrameOK, Label, Waiting, Holding, Posting,
      PostingServer
<1> QED
  BY <1>2, <1>3, <1>4, <1>5 DEF RecordAgent, discordVars, Typed, TypeOK, FrameOK

LEMMA RecordServerTyped ==
  ASSUME Typed, NEW c \in Command, RecordServer(c)
  PROVE  Typed'
<1>1. /\ cfg[c] \in ConfigRef
      /\ heap[cfg[c]] \in ServerConfig
      /\ heap[cfg[c]].channelID \in Channel
      /\ Widget(c, "server") \in Message
  BY WidgetTyped DEF RecordServer, Typed, TypeOK, FrameOK, Holding, PostingServer
<1>2. /\ heap' \in [ConfigRef -> ServerConfig]
      /\ \A r \in ConfigRef : heap'[r].channelID = heap[r].channelID
  BY <1>1 DEF RecordServer, Typed, TypeOK, ServerConfig
<1>3. incident' \subseteq Incident
  BY NoteTyped DEF RecordServer, Typed, TypeOK
<1>4. db' = updateStatusWidget(heap'[cfg[c]]) \/ db' = db
  BY DEF RecordServer
<1>5. heap'[cfg[c]] \in ServerConfig /\ heap'[cfg[c]].channelID \in Channel
  BY <1>1, <1>2
<1>6. DocumentsOK(db)
  BY DEF DocumentsOK, Typed, TypeOK, FrameOK
<1>7. DocumentsOK(db')
  BY <1>4, <1>5, <1>6, DatabaseTyped
<1> QED
  BY <1>2, <1>3, <1>7, FinishTyped
  DEF RecordServer, discordVars, DocumentsOK, Typed, TypeOK, FrameOK

LEMMA BotDeletesTyped ==
  ASSUME Typed, NEW M \in SUBSET Message, BotDeletes(M)
  PROVE  live' \subseteq Message /\ left' \subseteq Message /\ events' \subseteq Event
  BY DEF BotDeletes, Event, Typed, TypeOK

LEMMA ServerFailedTyped ==
  ASSUME Typed, NEW c \in Command, ServerFailed(c)
  PROVE  Typed'
<1>1. live' \subseteq Message /\ left' \subseteq Message /\ events' \subseteq Event
  BY WidgetTyped, BotDeletesTyped
  DEF ServerFailed, Typed, TypeOK, FrameOK, Posting
<1>2. pc' \in [Command -> Label]
  BY DEF ServerFailed, Goto, Typed, TypeOK, Label
<1>3. /\ pc[c] = "serverFailed" /\ pc'[c] = "undo"
      /\ \A d \in Command \ {c} : pc'[d] = pc[d]
  BY DEF ServerFailed, Goto, Typed, TypeOK
<1>4. FrameOK!1'
  BY <1>3
  DEF ServerFailed, frameVars, Typed, FrameOK, Waiting, Holding, Posting, PostingServer
<1> QED
  BY <1>1, <1>2, <1>4 DEF ServerFailed, BotDeletes, frameVars, Typed, TypeOK, FrameOK

LEMMA AbandonTyped ==
  ASSUME Typed, NEW c \in Command, NEW k \in Kind, Abandon(c, k)
  PROVE  Typed'
<1>1. Posts(c, k) \subseteq Message
  <2>1. Widget(c, "agent") \in Message
    BY WidgetTyped DEF Abandon, Made, Typed, FrameOK, Posting
  <2>2. k = "server" => Widget(c, "server") \in Message
    BY WidgetTyped DEF Abandon, Made, Typed, FrameOK, PostingServer
  <2> QED
    BY <2>1, <2>2 DEF Posts
<1>2. live' \subseteq Message /\ left' \subseteq Message /\ events' \subseteq Event
  BY <1>1, BotDeletesTyped DEF Abandon
<1>3. incident' \subseteq Incident
  BY NoteTyped DEF Abandon, Typed, TypeOK
<1> QED
  BY <1>2, <1>3, FinishTyped
  DEF Abandon, BotDeletes, Typed, TypeOK, FrameOK

\* Deletions by users, and the events.
LEMMA UserTyped ==
  ASSUME Typed,
         \/ \E m \in live : UserDeletesMessage(m)
         \/ \E ch \in Channel : UserDeletesChannel(ch)
  PROVE  Typed'
<1>1. /\ live' \subseteq Message /\ channels' \subseteq Channel /\ events' \subseteq Event
      /\ deletions' \in 0 .. MaxDeletions
  BY ConstantsAssumption
  DEF UserDeletesMessage, UserDeletesChannel, UserDeletes, Event, Typed, TypeOK
<1> QED
  BY <1>1
  DEF UserDeletesMessage, UserDeletesChannel, commandVars, frameVars, Typed, TypeOK,
      FrameOK

LEMMA DeliverTyped ==
  ASSUME Typed, NEW e \in events, Deliver(e) \/ Miss(e)
  PROVE  Typed'
<1>1. CASE Deliver(e)
  <2>1. handling' \subseteq [event : Event, cfg : ConfigRef] /\ events' \subseteq Event
    BY <1>1 DEF Deliver, Typed, TypeOK
  <2> QED
    BY <1>1, <2>1 DEF Deliver, commandVars, frameVars, Typed, TypeOK, FrameOK
<1>2. CASE Miss(e)
  <2>1. incident' \subseteq Incident /\ events' \subseteq Event
    BY <1>2 DEF Miss, Incident, Typed, TypeOK
  <2> QED
    BY <1>2, <2>1 DEF Miss, commandVars, frameVars, Typed, TypeOK, FrameOK
<1> QED
  BY <1>1, <1>2

LEMMA HandleTyped ==
  ASSUME Typed, NEW h \in handling, Handle(h)
  PROVE  Typed'
<1>1. incident' \subseteq Incident
  BY NoteTyped DEF Handle, Typed, TypeOK
<1>2. cache' \in {cache, None} /\ db' \in {db, removeFromDatabase}
  BY DEF Handle
<1>3. heap' = heap /\ Blank \in ServerConfig
  BY BlankConfig DEF Handle
<1>4. DocumentsOK(db')
  BY <1>2, RemoveTyped DEF DocumentsOK, Typed, TypeOK, FrameOK
<1>5. left' \subseteq Message
  <2>1. heap[h.cfg] \in ServerConfig
    BY DEF Typed, TypeOK
  <2>2. WidgetsOf(heap[h.cfg]) \subseteq Message
    BY <2>1 DEF WidgetsOf, ServerConfig
  <2> QED
    BY <2>2 DEF Handle, Typed, TypeOK
<1> QED
  BY <1>1, <1>2, <1>4, <1>5
  DEF Handle, commandVars, frameVars, discordVars, DocumentsOK, Typed, TypeOK, FrameOK

LEMMA RestartTyped ==
  ASSUME Typed, Restart
  PROVE  Typed'
<1>1. /\ pc' \in [Command -> Label]
      /\ target' \in [Command -> Optional(Channel)]
      /\ cfg' \in [Command -> Optional(ConfigRef)]
      /\ purge' \in [Command -> [Kind -> Optional(Message)]]
      /\ post' \in [Command -> [Kind -> Optional(Channel)]]
  BY DEF Restart, NoWidgets, Typed, TypeOK, Label
<1>2. incident' \subseteq Incident
  BY DEF Restart, Incident, Typed, TypeOK
<1>3. /\ heap' \in [ConfigRef -> ServerConfig]
      /\ cache' \in Optional(ConfigRef)
      /\ cache' # None => heap'[cache'].channelID \in Channel
  <2>1. CASE db = <<>>
    BY <2>1, BlankConfig DEF Restart, ConfigRef
  <2>2. CASE db # <<>>
    <3>1. Len(db) \in 1 .. Len(db) /\ db[Len(db)] \in Document
      BY <2>2 DEF Typed, TypeOK
    <3>2. /\ FromDocument(db[Len(db)]) \in ServerConfig
          /\ FromDocument(db[Len(db)]).channelID \in Channel
      BY <3>1 DEF FromDocument, ServerConfig, Document, Typed, FrameOK
    <3> QED
      BY <2>2, <3>2, BlankConfig DEF Restart, ConfigRef
  <2> QED
    BY <2>1, <2>2
<1>4. \A c \in Command : pc'[c] \in Waiting
  BY DEF Restart, Running, Waiting
<1>5. FrameOK!1'
  BY <1>4 DEF Waiting, Holding, Posting, PostingServer
<1> QED
  BY <1>1, <1>2, <1>3, <1>5 DEF Restart, Typed, TypeOK, FrameOK

LEMMA NextTyped == Typed /\ [Next]_vars => Typed'
<1> SUFFICES ASSUME Typed, [Next]_vars PROVE Typed'
  OBVIOUS
<1>1. CASE UNCHANGED vars
  BY <1>1 DEF vars, commandVars, frameVars, discordVars, Typed, TypeOK, FrameOK
<1>2. ASSUME NEW c \in Command, Continue(c) PROVE Typed'
  BY <1>2, FindTyped, InsertTyped, StoreTyped, ReuseTyped, SaveWidgetTyped, PurgeTyped,
     SendAgentTyped, AnswerTyped, FailureTyped, RecordAgentTyped, ServerFailedTyped,
     RecordServerTyped, AbandonTyped
  DEF Continue
<1> QED
  BY <1>1, <1>2, IssueTyped, UserTyped, DeliverTyped, HandleTyped, RestartTyped DEF Next

\* Every variable keeps the shape its declaration gives it; in particular no
\* handler uses a frame, an object or a channel before it has been set.
THEOREM TypeCorrect == Spec => []TypeOK
<1>1. Typed => TypeOK
  BY DEF Typed
<1> QED
  BY <1>1, InitTyped, NextTyped, PTL DEF Spec

-----------------------------------------------------------------------------
(***************************************************************************)
(* What is common to the steps of a command from the moment it holds an    *)
(* object that the cache holds, or held.                                   *)
(***************************************************************************)
Early == {"idle", "lookup", "create", "store"}
Busy == Holding \ {"store", "reuse"}

Work(c) ==
    \/ Reuse(c) \/ SaveWidget(c) \/ SendAgent(c) \/ AgentFailed(c) \/ RecordAgent(c)
    \/ ServerFailed(c) \/ Undo(c) \/ RecordServer(c)
    \/ \E k \in Kind : Purge(c, k) \/ Posted(c, k) \/ Refused(c, k) \/ Abandon(c, k)

\* The frames of the other commands.
OthersKept(c) ==
    \A d \in Command \ {c} : UNCHANGED <<pc[d], target[d], cfg[d], purge[d], post[d]>>

LEMMA OthersFinish ==
  ASSUME Typed, NEW c \in Command, Finish(c)
  PROVE  OthersKept(c) /\ pc'[c] = "done" /\ cfg'[c] = None /\ purge'[c] = NoWidgets
  BY DEF Finish, OthersKept, Typed, TypeOK

LEMMA OthersGoto ==
  ASSUME Typed, NEW c \in Command, NEW label, Goto(c, label),
         \A d \in Command \ {c} : UNCHANGED <<target[d], cfg[d], purge[d], post[d]>>
  PROVE  OthersKept(c) /\ pc'[c] = label
  BY DEF Goto, OthersKept, Typed, TypeOK

LEMMA WorkFrame ==
  ASSUME Typed, NEW c \in Command, Work(c)
  PROVE  /\ pc[c] \in Holding \ {"store"} /\ cfg[c] \in ConfigRef
         /\ OthersKept(c)
         /\ pc'[c] \in Busy \cup {"done"}
         /\ pc'[c] # "done" => cfg'[c] = cfg[c]
         /\ cfg'[c] \in {cfg[c], None}
         /\ \A r \in ConfigRef \ {cfg[c]} : heap'[r] = heap[r]
         /\ UNCHANGED <<cache, channels, handling>>
<1> USE DEF Holding, Busy
<1>0. pc[c] \in Holding => cfg[c] \in ConfigRef
  BY DEF Typed, FrameOK
<1>1. CASE Reuse(c)
  <2>1. /\ pc[c] = "reuse" /\ cfg[c] \in ConfigRef
        /\ heap' = [heap EXCEPT ![cfg[c]] = Retarget(heap[cfg[c]], c)]
        /\ UNCHANGED <<cache, channels, handling>>
        /\ \/ Finish(c)
           \/ /\ Goto(c, "saving") /\ UNCHANGED <<target, cfg, post>>
              /\ \E f : purge' = [purge EXCEPT ![c] = f]
    BY <1>0, <1>1 DEF Reuse, discordVars
  <2>2. /\ OthersKept(c)
        /\ (pc'[c] = "saving" /\ cfg' = cfg) \/ (pc'[c] = "done" /\ cfg'[c] = None)
    BY <2>1, OthersFinish, OthersGoto DEF Typed, TypeOK
  <2> QED
    BY <2>1, <2>2 DEF Typed, TypeOK
<1>2. CASE SaveWidget(c)
  <2>1. /\ pc[c] = "saving" /\ UNCHANGED <<heap, cache, channels, handling>>
        /\ Finish(c) \/ (Goto(c, "purge") /\ UNCHANGED frameVars)
    BY <1>2 DEF SaveWidget, discordVars
  <2>2. /\ OthersKept(c)
        /\ (pc'[c] = "purge" /\ cfg' = cfg) \/ (pc'[c] = "done" /\ cfg'[c] = None)
    BY <2>1, OthersFinish, OthersGoto DEF frameVars
  <2> QED
    BY <1>0, <2>1, <2>2
<1>3. CASE SendAgent(c)
  BY <1>0, <1>3, OthersGoto DEF SendAgent, discordVars, Typed, TypeOK
<1>4. CASE AgentFailed(c) \/ Undo(c)
  BY <1>0, <1>4, OthersFinish
  DEF AgentFailed, Undo, ReleaseCommand, discordVars, Typed, TypeOK
<1>5. CASE RecordAgent(c)
  BY <1>0, <1>5, OthersGoto DEF RecordAgent, discordVars, Typed, TypeOK
<1>6. CASE ServerFailed(c)
  BY <1>0, <1>6, OthersGoto DEF ServerFailed, BotDeletes, frameVars, Typed, TypeOK
<1>7. CASE RecordServer(c)
  BY <1>0, <1>7, OthersFinish DEF RecordServer, discordVars, Typed, TypeOK
<1>8. ASSUME NEW k \in Kind, Purge(c, k)
      PROVE  /\ pc[c] = "purge" /\ OthersKept(c) /\ pc' = pc /\ cfg' = cfg /\ heap' = heap
             /\ UNCHANGED <<cache, channels, handling>>
  BY <1>8 DEF Purge, BotDeletes, OthersKept, Typed, TypeOK
<1>9. ASSUME NEW k \in Kind, Posted(c, k) \/ Refused(c, k)
      PROVE  /\ pc[c] \in Posting /\ OthersKept(c) /\ pc'[c] \in Posting
             /\ UNCHANGED <<cfg, heap, cache, channels, handling>>
  <2>1. pc[c] = Sent[k] /\ Sent[k] \in Posting /\ Made[k] \in Posting /\ Failed[k] \in Posting
    BY <1>9 DEF Posted, Refused, Sent, Made, Failed, Posting
  <2> QED
    BY <1>9, <2>1, OthersGoto DEF Posted, Refused, frameVars
<1>10. ASSUME NEW k \in Kind, Abandon(c, k)
       PROVE  /\ pc[c] \in Posting /\ OthersKept(c) /\ pc'[c] = "done" /\ cfg'[c] = None
              /\ UNCHANGED <<heap, cache, channels, handling>>
  BY <1>10, OthersFinish DEF Abandon, BotDeletes, Made, Posting
<1> QED
  BY <1>0, <1>1, <1>2, <1>3, <1>4, <1>5, <1>6, <1>7, <1>8, <1>9, <1>10 DEF Work, Posting

\* The other steps.
LEMMA OtherSteps ==
  ASSUME [Next]_vars
  PROVE  \/ UNCHANGED vars
         \/ \E c \in Command, ch \in Channel : Issue(c, ch)
         \/ \E c \in Command : \/ LookupFails(c) \/ Find(c) \/ Insert(c) \/ Store(c)
                               \/ Work(c)
         \/ /\ UNCHANGED <<commandVars, heap, db>>
            /\ cache' = cache
            /\ \/ \E m \in live : UserDeletesMessage(m)
               \/ \E ch \in Channel : UserDeletesChannel(ch)
               \/ \E e \in events : Deliver(e) \/ Miss(e)
         \/ /\ UNCHANGED <<commandVars, heap, channels, live, events, deletions>>
            /\ \E h \in handling : Handle(h)
         \/ Restart
<1>1. \A c \in Command : Continue(c) => \/ LookupFails(c) \/ Find(c) \/ Insert(c)
                                        \/ Store(c) \/ Work(c)
  BY DEF Continue, Work
<1>2. \A m \in live : UserDeletesMessage(m) => UNCHANGED <<commandVars, heap, cache, db>>
  BY DEF UserDeletesMessage
<1>3. \A ch \in Channel : UserDeletesChannel(ch) => UNCHANGED <<commandVars, heap, cache, db>>
  BY DEF UserDeletesChannel
<1>4. \A e \in events : Deliver(e) \/ Miss(e) => UNCHANGED <<commandVars, heap, cache, db>>
  BY DEF Deliver, Miss
<1>5. \A h \in handling : Handle(h) =>
        UNCHANGED <<commandVars, heap, channels, live, events, deletions>>
  BY DEF Handle
<1> QED
  BY <1>1, <1>2, <1>3, <1>4, <1>5 DEF Next

-----------------------------------------------------------------------------
(* An object that is still to be built, or that only its builder holds. *)

FreshOK ==
    \A c \in Command : pc[c] \in Early =>
        /\ cache # c
        /\ \A d \in Command \ {c} : cfg[d] # c
        /\ heap[c] = IF pc[c] = "store" THEN Retarget(Blank, c) ELSE Blank

LEMMA InitFresh == Init => FreshOK
<1> SUFFICES ASSUME Init PROVE FreshOK
  OBVIOUS
<1>1. \A c \in Command : c # Boot /\ c # None /\ c \in ConfigRef
  BY ConstantsAssumption DEF ConfigRef
<1>2. \A c \in Command : pc[c] = "idle" /\ cfg[c] = None /\ cache # c /\ heap[c] = Blank
  BY <1>1 DEF Init
<1> QED
  BY <1>1, <1>2 DEF FreshOK

\* A step that leaves the early commands and their objects alone.
LEMMA QuietFresh ==
  ASSUME FreshOK, cache' \in {cache, None},
         \A c \in Command : cfg'[c] \in {cfg[c], None},
         \A c \in Command : pc'[c] \in Early =>
            UNCHANGED <<pc[c], target[c], heap[c]>>
  PROVE  FreshOK'
<1>1. None \notin Command
  BY ConstantsAssumption DEF ConfigRef
<1> QED
  BY <1>1 DEF FreshOK, Retarget

LEMMA WorkFresh ==
  ASSUME Typed, FreshOK, NEW c \in Command, Work(c)
  PROVE  FreshOK'
<1>1. \A d \in Command : pc'[d] \in Early => UNCHANGED <<pc[d], target[d], heap[d]>>
  <2> SUFFICES ASSUME NEW d \in Command, pc'[d] \in Early
               PROVE  UNCHANGED <<pc[d], target[d], heap[d]>>
    OBVIOUS
  <2>1. d # c
    BY WorkFrame DEF Early, Busy, Holding
  <2>2. UNCHANGED <<pc[d], target[d]>> /\ cfg[c] # d
    BY <2>1, WorkFrame DEF OthersKept, FreshOK
  <2> QED
    BY <2>2, WorkFrame DEF ConfigRef
<1> QED
  BY <1>1, WorkFrame, QuietFresh DEF OthersKept

LEMMA NextFresh == Typed /\ FreshOK /\ [Next]_vars => FreshOK'
<1> SUFFICES ASSUME Typed, FreshOK, [Next]_vars PROVE FreshOK'
  OBVIOUS
<1>0. None \notin Command /\ Boot \notin Command /\ Command \subseteq ConfigRef
  BY ConstantsAssumption DEF ConfigRef
<1>1. CASE UNCHANGED vars
  BY <1>1, QuietFresh DEF vars, commandVars, frameVars
<1>2. ASSUME NEW c \in Command, NEW ch \in Channel, Issue(c, ch) PROVE FreshOK'
  BY <1>2 DEF Issue, Goto, Typed, TypeOK, FreshOK, Early, Retarget
<1>3. ASSUME NEW c \in Command, LookupFails(c) PROVE FreshOK'
  BY <1>3, OthersFinish, QuietFresh DEF LookupFails, OthersKept, Early
<1>4. ASSUME NEW c \in Command, Find(c) PROVE FreshOK'
  BY <1>0, <1>4 DEF Find, Goto, Typed, TypeOK, FreshOK, Early, Retarget
<1>5. ASSUME NEW c \in Command, Insert(c) PROVE FreshOK'
  <2>1. /\ heap' = [heap EXCEPT ![c] = Retarget(Blank, c)] /\ cache' = cache
        /\ heap \in [ConfigRef -> ServerConfig] /\ pc[c] = "create"
    BY <1>5 DEF Insert, Typed, TypeOK
  <2>2. CASE Finish(c)
    BY <1>0, <2>1, <2>2, OthersFinish, QuietFresh DEF OthersKept, Early
  <2>3. CASE Goto(c, "store") /\ UNCHANGED frameVars
    BY <1>0, <2>1, <2>3 DEF Goto, frameVars, Typed, TypeOK, FreshOK, Early, Retarget
  <2> QED
    BY <1>5, <2>2, <2>3 DEF Insert
<1>6. ASSUME NEW c \in Command, Store(c) PROVE FreshOK'
  BY <1>0, <1>6
  DEF Store, Goto, frameVars, Typed, TypeOK, FrameOK, FreshOK, Early, Retarget, Waiting
<1>7. CASE UNCHANGED <<commandVars, heap>> /\ cache' \in {cache, None}
  BY <1>7, QuietFresh DEF commandVars, frameVars
<1>8. CASE \E h \in handling : Handle(h)
  BY <1>7, <1>8 DEF Handle
<1>9. CASE Restart
  <2>1. cache' \in {None, Boot} /\ \A c \in Command : cfg'[c] = None
    BY <1>9 DEF Restart
  <2>2. \A c \in Command : heap'[c] = Blank /\ pc'[c] # "store"
    BY <1>0, <1>9 DEF Restart, Running, Waiting
  <2> QED
    BY <1>0, <2>1, <2>2 DEF FreshOK
<1> QED
  BY <1>1, <1>2, <1>3, <1>4, <1>5, <1>6, <1>7, <1>8, <1>9, WorkFresh, OtherSteps

-----------------------------------------------------------------------------
(* What an object records while a command that owns it is at work. *)

Owning == Holding \ {"reuse"}

DraftAt(c) ==
    pc[c] \in Owning /\ Current(c) =>
        heap[cfg[c]].agentMessageID =
            IF pc[c] \in PostingServer THEN Widget(c, "agent") ELSE None

DraftOK == \A c \in Command : DraftAt(c)

LEMMA InitDraft == Init => DraftOK
  BY DEF Init, DraftOK, DraftAt, Owning, Holding

\* The steps of one command are no concern of another one, whose object they
\* leave or take away.
LEMMA OthersDraft ==
  ASSUME Typed, DraftOK, NEW c \in Command, OthersKept(c),
         \A r \in ConfigRef : heap'[r] = heap[r] \/ heap'[r].commandID \in {c, None}
  PROVE  \A d \in Command \ {c} : DraftAt(d)'
<1> SUFFICES ASSUME NEW d \in Command \ {c}, pc'[d] \in Owning, Current(d)'
             PROVE  DraftAt(d)'
  BY DEF DraftAt
<1>1. UNCHANGED <<pc[d], cfg[d], post[d]>> /\ cfg[d] \in ConfigRef
  BY DEF OthersKept, Owning, Typed, FrameOK
<1>2. d # None
  BY ConstantsAssumption DEF ConfigRef
<1>3. heap'[cfg[d]] = heap[cfg[d]]
  BY <1>1, <1>2 DEF Current
<1>4. DraftAt(d)
  BY DEF DraftOK
<1> QED
  BY <1>1, <1>3, <1>4 DEF DraftAt, Current, Widget

\* What a step does to the object its command holds.
LEMMA WorkObject ==
  ASSUME Typed, NEW c \in Command, Work(c)
  PROVE  /\ \A r \in ConfigRef : heap'[r] = heap[r] \/ heap'[r].commandID \in {c, None}
         /\ \/ UNCHANGED heap
            \/ Reuse(c) /\ heap' = [heap EXCEPT ![cfg[c]] = Retarget(heap[cfg[c]], c)]
            \/ /\ AgentFailed(c) \/ Undo(c)
               /\ Current(c) /\ heap' = [heap EXCEPT ![cfg[c]] = Unbuilt(heap[cfg[c]])]
            \/ RecordAgent(c)
            \/ RecordServer(c)
<1>1. cfg[c] \in ConfigRef /\ heap \in [ConfigRef -> ServerConfig]
  BY WorkFrame DEF Typed, TypeOK
<1>2. CASE Reuse(c)
  BY <1>1, <1>2 DEF Reuse, Retarget
<1>3. CASE AgentFailed(c) \/ Undo(c)
  BY <1>1, <1>3, ReleaseTyped DEF AgentFailed, Undo, ReleaseCommand, Unbuilt, ServerConfig
<1>4. CASE RecordAgent(c)
  BY <1>1, <1>4 DEF RecordAgent, Current, ServerConfig
<1>5. CASE RecordServer(c)
  BY <1>1, <1>5 DEF RecordServer, ServerConfig
<1>6. CASE UNCHANGED heap
  BY <1>6
<1> QED
  BY <1>2, <1>3, <1>4, <1>5, <1>6
  DEF Work, SaveWidget, SendAgent, ServerFailed, Purge, Posted, Refused, Abandon

LEMMA WorkDraft ==
  ASSUME Typed, DraftOK, NEW c \in Command, Work(c)
  PROVE  DraftOK'
<1>1. \A d \in Command \ {c} : DraftAt(d)'
  BY WorkFrame, WorkObject, OthersDraft
<1> SUFFICES DraftAt(c)'
  BY <1>1 DEF DraftOK
<1>2. /\ cfg[c] \in ConfigRef /\ heap \in [ConfigRef -> ServerConfig]
      /\ pc[c] \in Holding \ {"store"}
  BY WorkFrame DEF Typed, TypeOK
<1>3. DraftAt(c)
  BY DEF DraftOK
<1>4. ASSUME pc'[c] = "done" PROVE DraftAt(c)'
  BY <1>4 DEF DraftAt, Owning, Holding
<1>5. CASE Reuse(c)
  <2>1. heap'[cfg[c]].agentMessageID = None
    BY <1>2, <1>5 DEF Reuse, Retarget
  <2>2. pc'[c] = "done" \/ (pc'[c] = "saving" /\ cfg'[c] = cfg[c])
    <3>1. Finish(c) \/ Goto(c, "saving")
      BY <1>5 DEF Reuse
    <3>2. pc'[c] = "done" \/ pc'[c] = "saving"
      BY <3>1, OthersFinish DEF Goto, Typed, TypeOK
    <3> QED
      BY <3>2, WorkFrame
  <2> QED
    BY <1>4, <2>1, <2>2 DEF DraftAt, PostingServer
<1>6. CASE SaveWidget(c) \/ SendAgent(c) \/ \E k \in Kind : Purge(c, k)
  <2>1. pc[c] \in {"saving", "purge"} /\ heap' = heap
    BY <1>6 DEF SaveWidget, SendAgent, Purge
  <2>2. pc'[c] \in {"purge", "agentSent", "done"}
    <3>1. Finish(c) \/ Goto(c, "purge") \/ Goto(c, "agentSent") \/ (pc[c] = "purge" /\ pc' = pc)
      BY <1>6 DEF SaveWidget, SendAgent, Purge
    <3> QED
      BY <3>1, OthersFinish DEF Goto, Typed, TypeOK
  <2> QED
    BY <1>3, <1>4, <2>1, <2>2, WorkFrame DEF DraftAt, Current, Owning, Holding, PostingServer
<1>7. CASE ServerFailed(c) \/ \E k \in Kind : Posted(c, k) \/ Refused(c, k)
  <2>1. UNCHANGED <<cfg, post, heap>>
    BY <1>7 DEF ServerFailed, Posted, Refused, frameVars
  <2>2. pc[c] \in Owning /\ (pc'[c] \in PostingServer <=> pc[c] \in PostingServer)
    <3>1. CASE ServerFailed(c)
      BY <3>1 DEF ServerFailed, Goto, Owning, Holding, PostingServer, Typed, TypeOK
    <3>2. ASSUME NEW k \in Kind, Posted(c, k) \/ Refused(c, k)
          PROVE  pc[c] \in Owning /\ (pc'[c] \in PostingServer <=> pc[c] \in PostingServer)
      <4>1. k = "agent" \/ k = "server"
        OBVIOUS
      <4>2. pc[c] = Sent[k] /\ (Goto(c, Made[k]) \/ Goto(c, Failed[k]))
        BY <3>2 DEF Posted, Refused
      <4>3. pc[c] = Sent[k] /\ (pc'[c] = Made[k] \/ pc'[c] = Failed[k])
        BY <4>2 DEF Goto, Typed, TypeOK
      <4> QED
        BY <4>1, <4>3 DEF Sent, Made, Failed, Owning, Holding, PostingServer
    <3> QED
      BY <1>7, <3>1, <3>2
  <2> QED
    BY <1>3, <2>1, <2>2 DEF DraftAt, Current, Widget
<1>8. CASE RecordAgent(c)
  <2>1. /\ pc'[c] = "serverSent" /\ cfg' = cfg /\ post'[c]["agent"] = post[c]["agent"]
        /\ heap'[cfg[c]].agentMessageID = Widget(c, "agent")
    <3>1. /\ Goto(c, "serverSent") /\ UNCHANGED cfg
          /\ heap' = [heap EXCEPT ![cfg[c]].agentMessageID = Widget(c, "agent")]
          /\ post' = [post EXCEPT ![c]["server"] = heap[cfg[c]].channelID]
      BY <1>8 DEF RecordAgent
    <3>2. pc'[c] = "serverSent" /\ post'[c]["agent"] = post[c]["agent"]
      BY <3>1 DEF Goto, Typed, TypeOK
    <3>3. heap'[cfg[c]].agentMessageID = Widget(c, "agent")
      BY <1>2, <3>1 DEF ServerConfig
    <3> QED
      BY <3>1, <3>2, <3>3
  <2>2. Widget(c, "agent")' = Widget(c, "agent")
    BY <2>1 DEF Widget
  <2> QED
    BY <2>1, <2>2 DEF DraftAt, PostingServer
<1>9. CASE AgentFailed(c) \/ Undo(c) \/ RecordServer(c) \/ \E k \in Kind : Abandon(c, k)
  BY <1>4, <1>9, OthersFinish DEF AgentFailed, Undo, RecordServer, Abandon
<1> QED
  BY <1>5, <1>6, <1>7, <1>8, <1>9 DEF Work

LEMMA NextDraft == Typed /\ FreshOK /\ DraftOK /\ [Next]_vars => DraftOK'
<1> SUFFICES ASSUME Typed, FreshOK, DraftOK, [Next]_vars PROVE DraftOK'
  OBVIOUS
<1>1. ASSUME UNCHANGED <<commandVars, heap>> PROVE DraftOK'
  BY <1>1 DEF commandVars, frameVars, DraftOK, DraftAt, Current, Widget
<1>2. ASSUME NEW c \in Command, NEW ch \in Channel, Issue(c, ch) PROVE DraftOK'
  <2>1. OthersKept(c) /\ pc'[c] = "lookup" /\ heap' = heap
    BY <1>2, OthersGoto DEF Issue, Typed, TypeOK
  <2> QED
    BY <2>1, OthersDraft DEF DraftOK, DraftAt, Owning, Holding
<1>3. ASSUME NEW c \in Command, LookupFails(c) \/ Find(c) PROVE DraftOK'
  <2>1. OthersKept(c) /\ pc'[c] \notin Owning /\ heap' = heap
    BY <1>3, OthersFinish, OthersGoto DEF LookupFails, Find, Owning, Holding, Typed, TypeOK
  <2> QED
    BY <2>1, OthersDraft DEF DraftOK, DraftAt
<1>4. ASSUME NEW c \in Command, Insert(c) PROVE DraftOK'
  <2>1. /\ heap' = [heap EXCEPT ![c] = Retarget(Blank, c)]
        /\ heap \in [ConfigRef -> ServerConfig] /\ c \in ConfigRef /\ cfg[c] = c
    BY <1>4 DEF Insert, Typed, TypeOK, FrameOK, ConfigRef
  <2>2. OthersKept(c) /\ (pc'[c] = "done" \/ (pc'[c] = "store" /\ cfg' = cfg))
    BY <1>4, OthersFinish, OthersGoto DEF Insert, frameVars
  <2>3. DraftAt(c)'
    BY <2>1, <2>2 DEF DraftAt, Retarget, Owning, Holding, PostingServer
  <2> QED
    BY <2>1, <2>2, <2>3, OthersDraft DEF DraftOK, Retarget
<1>5. ASSUME NEW c \in Command, Store(c) PROVE DraftOK'
  <2>1. OthersKept(c) /\ pc[c] = "store" /\ pc'[c] = "purge" /\ UNCHANGED <<cfg, post, heap>>
    BY <1>5, OthersGoto DEF Store, frameVars
  <2>2. DraftAt(c)'
    BY <2>1 DEF DraftOK, DraftAt, Current, Owning, Holding, PostingServer
  <2> QED
    BY <2>1, <2>2, OthersDraft DEF DraftOK
<1>6. CASE Restart
  BY <1>6 DEF Restart, Running, Waiting, DraftOK, DraftAt, Owning, Holding
<1> QED
  BY <1>1, <1>2, <1>3, <1>4, <1>5, <1>6, WorkDraft, OtherSteps DEF vars

-----------------------------------------------------------------------------
(***************************************************************************)
(* The widgets of a configuration and its channel.  A command that still   *)
(* owns the configuration has posted in the configuration's channel: the   *)
(* channel changes only together with the owner.                           *)
(***************************************************************************)
PostsFollow ==
    \A c \in Command :
        /\ pc[c] \in Posting /\ Current(c) =>
              post[c]["agent"] = heap[cfg[c]].channelID
        /\ pc[c] \in PostingServer /\ Current(c) =>
              post[c]["server"] = heap[cfg[c]].channelID

LEMMA InitPosts == Init => PostsFollow
  BY DEF Init, PostsFollow, Posting, PostingServer

\* A step that changes neither objects nor frames, except for ending commands.
LEMMA QuietPosts ==
  ASSUME PostsFollow, UNCHANGED heap,
         \A c \in Command :
            pc'[c] \in Waiting \/ UNCHANGED <<pc[c], cfg[c], post[c]>>
  PROVE  PostsFollow'
  BY DEF PostsFollow, Current, Posting, PostingServer, Waiting

LEMMA FinishQuiet ==
  ASSUME Typed, NEW c \in Command, Finish(c)
  PROVE  \A d \in Command : pc'[d] \in Waiting \/ UNCHANGED <<pc[d], cfg[d], post[d]>>
  BY DEF Finish, Typed, TypeOK, Waiting

LEMMA GotoPosts ==
  ASSUME Typed, PostsFollow, NEW c \in Command, NEW label, Goto(c, label),
         label \notin Posting, UNCHANGED <<heap, post>>,
         \A d \in Command \ {c} : cfg'[d] = cfg[d]
  PROVE  PostsFollow'
  BY DEF Goto, Typed, TypeOK, PostsFollow, Current, Posting, PostingServer

LEMMA NextPosts == Typed /\ PostsFollow /\ [Next]_vars => PostsFollow'
<1> SUFFICES ASSUME Typed, PostsFollow, [Next]_vars PROVE PostsFollow'
  OBVIOUS
<1>1. CASE UNCHANGED vars
  BY <1>1, QuietPosts DEF vars, commandVars, frameVars
<1>2. ASSUME NEW c \in Command, NEW ch \in Channel, Issue(c, ch) PROVE PostsFollow'
  BY <1>2, GotoPosts DEF Issue, Posting, frameVars
<1>3. ASSUME NEW c \in Command, LookupFails(c) PROVE PostsFollow'
  BY <1>3, FinishQuiet, QuietPosts DEF LookupFails
<1>4. ASSUME NEW c \in Command, Find(c) PROVE PostsFollow'
  <2>1. \A d \in Command \ {c} : cfg'[d] = cfg[d]
    BY <1>4 DEF Find, Typed, TypeOK
  <2> QED
    BY <1>4, <2>1, GotoPosts DEF Find, Posting
<1>5. ASSUME NEW c \in Command, Insert(c) PROVE PostsFollow'
  <2>1. \A d \in Command : pc'[d] \notin Posting \/ (d # c /\ UNCHANGED <<pc[d], cfg[d], post[d]>>)
    BY <1>5 DEF Insert, Goto, Finish, frameVars, Typed, TypeOK, Posting
  <2>2. \A r \in ConfigRef : heap'[r] = heap[r] \/ heap'[r].commandID = c
    BY <1>5 DEF Insert, Retarget, Typed, TypeOK
  <2> QED
    BY <2>1, <2>2
    DEF PostsFollow, Current, Typed, FrameOK, Posting, PostingServer, Holding
<1>6. ASSUME NEW c \in Command, Reuse(c) PROVE PostsFollow'
  <2>1. \A d \in Command : pc'[d] \notin Posting \/ (d # c /\ UNCHANGED <<pc[d], cfg[d], post[d]>>)
    BY <1>6 DEF Reuse, Goto, Finish, Typed, TypeOK, Posting
  <2>2. \A r \in ConfigRef : heap'[r] = heap[r] \/ heap'[r].commandID = c
    BY <1>6 DEF Reuse, Retarget, Typed, TypeOK
  <2> QED
    BY <2>1, <2>2
    DEF PostsFollow, Current, Typed, FrameOK, Posting, PostingServer, Holding
<1>7. ASSUME NEW c \in Command, Store(c) PROVE PostsFollow'
  BY <1>7, GotoPosts DEF Store, frameVars, Posting
<1>8. ASSUME NEW c \in Command, SaveWidget(c) PROVE PostsFollow'
  BY <1>8, GotoPosts, FinishQuiet, QuietPosts DEF SaveWidget, frameVars, Posting
<1>9. ASSUME NEW c \in Command, NEW k \in Kind, Purge(c, k) PROVE PostsFollow'
  BY <1>9, QuietPosts DEF Purge
<1>10. ASSUME NEW c \in Command, SendAgent(c) PROVE PostsFollow'
  BY <1>10
  DEF SendAgent, Goto, Typed, TypeOK, PostsFollow, Current, Posting, PostingServer
<1>11. ASSUME NEW c \in Command, NEW k \in Kind, Posted(c, k) \/ Refused(c, k)
       PROVE  PostsFollow'
  <2>1. k = "agent" \/ k = "server"
    OBVIOUS
  <2>2. /\ pc[c] \in Posting
        /\ pc'[c] \in PostingServer => pc[c] \in PostingServer
        /\ \A d \in Command \ {c} : pc'[d] = pc[d]
        /\ UNCHANGED <<heap, cfg, post>>
    BY <1>11, <2>1
    DEF Posted, Refused, Sent, Made, Failed, Goto, frameVars, Typed, TypeOK, Posting,
        PostingServer
  <2> QED
    BY <2>2 DEF PostsFollow, Current
<1>12. ASSUME NEW c \in Command, AgentFailed(c) \/ Undo(c) PROVE PostsFollow'
  <2>1. \A d \in Command : pc'[d] \in Waiting \/ UNCHANGED <<pc[d], cfg[d], post[d]>>
    BY <1>12, FinishQuiet DEF AgentFailed, Undo
  <2>2. \A r \in ConfigRef : /\ heap'[r].channelID = heap[r].channelID
                             /\ heap'[r].commandID \in {heap[r].commandID, None}
    BY <1>12, ReleaseTyped DEF AgentFailed, Undo, Typed, FrameOK, Holding
  <2> QED
    BY <2>1, <2>2, ConstantsAssumption
    DEF PostsFollow, Current, Typed, FrameOK, Posting, PostingServer, Holding, Waiting,
        ConfigRef
<1>13. ASSUME NEW c \in Command, RecordAgent(c) PROVE PostsFollow'
  <2>1. \A r \in ConfigRef : /\ heap'[r].channelID = heap[r].channelID
                             /\ heap'[r].commandID = heap[r].commandID
    BY <1>13 DEF RecordAgent, Typed, TypeOK, ServerConfig
  <2>2. /\ cfg' = cfg /\ cfg[c] \in ConfigRef /\ pc[c] \in Posting
        /\ \A d \in Command \ {c} : UNCHANGED <<pc[d], post[d]>>
        /\ post'[c]["agent"] = post[c]["agent"]
        /\ post'[c]["server"] = heap[cfg[c]].channelID
    BY <1>13 DEF RecordAgent, Goto, Typed, TypeOK, FrameOK, Holding, Posting
  <2> QED
    BY <2>1, <2>2
    DEF PostsFollow, Current, Typed, FrameOK, Posting, PostingServer, Holding
<1>14. ASSUME NEW c \in Command, RecordServer(c) PROVE PostsFollow'
  <2>1. \A d \in Command : pc'[d] \in Waiting \/ UNCHANGED <<pc[d], cfg[d], post[d]>>
    BY <1>14, FinishQuiet DEF RecordServer
  <2>2. \A r \in ConfigRef : /\ heap'[r].channelID = heap[r].channelID
                             /\ heap'[r].commandID \in {heap[r].commandID, None}
    BY <1>14 DEF RecordServer, Typed, TypeOK, ServerConfig
  <2> QED
    BY <2>1, <2>2, ConstantsAssumption
    DEF PostsFollow, Current, Typed, FrameOK, Posting, PostingServer, Holding, Waiting,
        ConfigRef
<1>15. ASSUME NEW c \in Command, ServerFailed(c) PROVE PostsFollow'
  BY <1>15
  DEF ServerFailed, frameVars, Goto, Typed, TypeOK, PostsFollow, Current, Posting,
      PostingServer
<1>16. ASSUME NEW c \in Command, NEW k \in Kind, Abandon(c, k) PROVE PostsFollow'
  BY <1>16, FinishQuiet, QuietPosts DEF Abandon
<1>17. CASE \/ \E m \in live : UserDeletesMessage(m)
            \/ \E ch \in Channel : UserDeletesChannel(ch)
            \/ \E e \in events : Deliver(e) \/ Miss(e)
            \/ \E h \in handling : Handle(h)
  BY <1>17, QuietPosts
  DEF UserDeletesMessage, UserDeletesChannel, Deliver, Miss, Handle, commandVars, frameVars
<1>18. CASE Restart
  <2>1. \A c \in Command : pc'[c] \in Waiting
    BY <1>18 DEF Restart, Running, Waiting
  <2> QED
    BY <2>1 DEF PostsFollow, Waiting, Posting, PostingServer
<1> QED
  BY <1>1, <1>2, <1>3, <1>4, <1>5, <1>6, <1>7, <1>8, <1>9, <1>10, <1>11, <1>12, <1>13,
     <1>14, <1>15, <1>16, <1>17, <1>18
  DEF Next, Continue

-----------------------------------------------------------------------------
(***************************************************************************)
(* Memory and collection.  Two commands at most are in a window where they *)
(* differ, and while no incident has happened only one is: a new           *)
(* configuration that is in the collection and not yet in the cache, or a  *)
(* retargeted one whose channel is saved and whose widget is not.          *)
(***************************************************************************)
Writing == {"store", "saving"}

Expected == IF cache = None THEN <<>> ELSE <<Saved(heap[cache])>>

\* A build has no server widget to show.
HiddenServer == \A r \in ConfigRef : heap[r].commandID # None => heap[r].messageID = None

Retargeted(c) ==
    /\ cache = cfg[c]
    /\ heap[cache].commandID # None
    /\ heap[cache].agentMessageID = None
    /\ \E d \in Document : db = <<d>> /\ d.channelID = heap[cache].channelID

InSync ==
    Synced =>
        /\ (\A c \in Command : pc[c] \notin Writing) => db = Expected
        /\ \A c \in Command : pc[c] = "store" => cache = None /\ db = <<Saved(heap[c])>>
        /\ \A c \in Command : pc[c] = "saving" => Retargeted(c)
        /\ \A c, d \in Command : pc[c] \in Writing /\ pc[d] \in Writing => c = d

LEMMA InitSync == Init => HiddenServer /\ InSync /\ WidgetInChannel
<1> SUFFICES ASSUME Init PROVE HiddenServer /\ InSync /\ WidgetInChannel
  OBVIOUS
<1>1. \A c \in Command : pc[c] = "idle"
  BY DEF Init
<1>2. CASE cache = None /\ heap = [r \in ConfigRef |-> Blank] /\ db = <<>>
  BY <1>1, <1>2
  DEF HiddenServer, InSync, Expected, WidgetInChannel, Consistent, Blank, Writing
<1>3. ASSUME NEW ch \in Channel, cache = Boot,
             heap = [[r \in ConfigRef |-> Blank] EXCEPT ![Boot] = BootConfig(ch)],
             db = <<getValue(BootConfig(ch))>>
      PROVE  HiddenServer /\ InSync /\ WidgetInChannel
  <2>1. \A r \in ConfigRef : heap[r].commandID = None /\ Consistent(heap[r])
    BY <1>3 DEF BootConfig, Blank, Consistent
  <2>2. heap[Boot] = BootConfig(ch) /\ cache # None
    BY <1>3, ConstantsAssumption DEF ConfigRef
  <2>3. db = Expected
    BY <1>3, <2>2 DEF Expected, Saved, BootConfig
  <2> QED
    BY <1>1, <2>1, <2>3 DEF HiddenServer, InSync, WidgetInChannel, Writing
<1> QED
  BY <1>2, <1>3 DEF Init

LEMMA NextHidden == Typed /\ HiddenServer /\ [Next]_vars => HiddenServer'
<1> SUFFICES ASSUME Typed, HiddenServer, [Next]_vars PROVE HiddenServer'
  OBVIOUS
<1>1. CASE UNCHANGED heap
  BY <1>1 DEF HiddenServer
<1>2. ASSUME NEW c \in Command, Insert(c) \/ Reuse(c) PROVE HiddenServer'
  <2>1. \A config : Retarget(config, c).messageID = None
    BY DEF Retarget
  <2>2. \A r \in ConfigRef : heap'[r] = heap[r] \/ heap'[r] = Retarget(Blank, c)
                                              \/ heap'[r] = Retarget(heap[cfg[c]], c)
    BY <1>2 DEF Insert, Reuse, Typed, TypeOK
  <2> QED
    BY <2>1, <2>2 DEF HiddenServer
<1>3. ASSUME NEW c \in Command, AgentFailed(c) \/ Undo(c) PROVE HiddenServer'
  BY <1>3, ReleaseTyped DEF AgentFailed, Undo, HiddenServer, Typed, FrameOK, Holding
<1>4. ASSUME NEW c \in Command, RecordAgent(c) \/ RecordServer(c) PROVE HiddenServer'
  <2>1. heap \in [ConfigRef -> ServerConfig] /\ cfg[c] \in ConfigRef
    BY <1>4 DEF RecordAgent, RecordServer, Typed, TypeOK, FrameOK, Holding
  <2>2. CASE RecordAgent(c)
    BY <2>1, <2>2 DEF RecordAgent, HiddenServer, ServerConfig
  <2>3. CASE RecordServer(c)
    BY <2>1, <2>3 DEF RecordServer, HiddenServer, ServerConfig
  <2> QED
    BY <1>4, <2>2, <2>3
<1>5. CASE Restart
  BY <1>5 DEF Restart, FromDocument, Blank, HiddenServer
<1>6. \/ UNCHANGED heap
      \/ \E c \in Command : \/ Insert(c) \/ Reuse(c) \/ AgentFailed(c) \/ Undo(c)
                            \/ RecordAgent(c) \/ RecordServer(c)
      \/ Restart
  BY DEF Next, Continue, vars, commandVars, discordVars, Issue, LookupFails, Find, Store,
         SaveWidget, Purge, SendAgent, Posted, Refused, ServerFailed, Abandon,
         UserDeletesMessage, UserDeletesChannel, Deliver, Miss, Handle
<1> QED
  BY <1>1, <1>2, <1>3, <1>4, <1>5, <1>6

LEMMA Documented ==
  ASSUME NEW config \in ServerConfig
  PROVE  /\ Saved(config) \in Document
         /\ Saved(config).channelID = config.channelID
         /\ config.commandID # None =>
              Saved(config).agentMessageID = None /\ Saved(config).messageID = None
         /\ config.commandID = None =>
              /\ Saved(config).agentMessageID = config.agentMessageID
              /\ Saved(config).messageID = config.messageID
  BY DEF Saved, getValue, ServerConfig, Document

\* Two documents that agree on their fields are equal.
LEMMA SameDocument ==
  ASSUME NEW d1 \in Document, NEW d2 \in Document,
         d1.channelID = d2.channelID,
         d1.agentMessageID = d2.agentMessageID,
         d1.messageID = d2.messageID
  PROVE  d1 = d2
  BY DEF Document

\* The effect of saving the widget of a configuration on its only document.
LEMMA SavedWidget ==
  ASSUME NEW config \in ServerConfig, NEW d \in Document, db = <<d>>,
         d.channelID = config.channelID,
         config.commandID # None => config.messageID = None /\ config.agentMessageID = None
  PROVE  updateStatusWidget(config) = <<Saved(config)>>
<1> DEFINE e == [d EXCEPT !.agentMessageID = config.agentMessageID,
                          !.messageID = config.messageID]
<1>1. updateStatusWidget(config) = <<e>>
  BY DEF updateStatusWidget
<1>2. e = Saved(config)
  BY Documented, SameDocument DEF Document, ServerConfig
<1> QED
  BY <1>1, <1>2

\* A step that touches neither the objects, the cache, the collection nor who is
\* in a window.
LEMMA QuietSync ==
  ASSUME InSync, UNCHANGED <<heap, cache, db>>, Synced' => Synced,
         \A c \in Command :
            (pc[c] \in Writing \/ pc'[c] \in Writing) => UNCHANGED <<pc[c], cfg[c]>>
  PROVE  InSync'
  BY DEF InSync, Expected, Retargeted, Writing

LEMMA OutsideGoto ==
  ASSUME Typed, NEW c \in Command, NEW label, Goto(c, label), pc[c] \notin Writing,
         label \notin Writing, \A d \in Command \ {c} : cfg'[d] = cfg[d]
  PROVE  \A d \in Command :
            (pc[d] \in Writing \/ pc'[d] \in Writing) => UNCHANGED <<pc[d], cfg[d]>>
  BY DEF Goto, Typed, TypeOK

LEMMA OutsideFinish ==
  ASSUME Typed, NEW c \in Command, Finish(c), pc[c] \notin Writing
  PROVE  \A d \in Command :
            (pc[d] \in Writing \/ pc'[d] \in Writing) => UNCHANGED <<pc[d], cfg[d]>>
  BY DEF Finish, Typed, TypeOK, Writing

\* The steps that write an object or the collection under the lock of the
\* configuration in force find no other command in a window.
LEMMA LockExcludes ==
  ASSUME InSync, Synced, NEW r \in ConfigRef, r = cache, ~Locked(r)
  PROVE  /\ \A c \in Command : pc[c] \notin Writing
         /\ db = <<Saved(heap[cache])>>
<1>1. cache # None
  BY ConstantsAssumption
<1>2. \A c \in Command : pc[c] \notin Writing
  BY <1>1 DEF InSync, Retargeted, Locked, Writing
<1> QED
  BY <1>1, <1>2 DEF InSync, Expected

\* While such a step leaves the cache alone and keeps every command out of the
\* windows, it is enough that the document follows the object.
LEMMA SyncedStep ==
  ASSUME cache' # None, db' = <<Saved(heap[cache])>>',
         \A c \in Command : pc'[c] \notin Writing
  PROVE  InSync'
  BY DEF InSync, Expected, Writing

\* A step after which handlers have written past each other as little as before
\* had no database error and worked on the object in force.
LEMMA NoteSynced ==
  ASSUME NEW ok \in BOOLEAN, NEW r, Note(ok, r), Synced'
  PROVE  Synced /\ ok /\ r = cache
<1>1. incident \subseteq incident' /\ "forked" \notin incident' /\ "dbError" \notin incident'
  BY DEF Note, Synced
<1>2. ok
  BY <1>1 DEF Note
<1>3. r = cache
  BY <1>1 DEF Note
<1> QED
  BY <1>1, <1>2, <1>3 DEF Synced

LEMMA InsertSync ==
  ASSUME Typed, InSync, NEW c \in Command, Insert(c), Synced'
  PROVE  InSync'
<1>1. /\ Synced /\ db = <<>>
      /\ heap' = [heap EXCEPT ![c] = Retarget(Blank, c)]
      /\ db' = Append(db, getValue(heap'[c]))
      /\ Goto(c, "store") /\ cache' = cache
  <2>1. incident \subseteq incident' /\ "dbError" \notin incident' /\ "forked" \notin incident'
    BY DEF Insert, Synced
  <2> QED
    BY <2>1 DEF Insert, Synced
<1>2. \A d \in Command : pc[d] \notin Writing
  BY <1>1 DEF InSync, Retargeted, Writing
<1>3. cache = None
  BY <1>1, <1>2 DEF InSync, Expected
<1>4. heap'[c] = Retarget(Blank, c)
  BY <1>1 DEF Typed, TypeOK, ConfigRef
<1>5. getValue(heap'[c]) = Saved(heap'[c])
  <2>1. heap'[c] \in ServerConfig
    BY InsertTyped DEF Typed, TypeOK, ConfigRef
  <2>2. /\ heap'[c].agentMessageID = None /\ heap'[c].messageID = None
        /\ heap'[c].commandID # None
    BY <1>4, ConstantsAssumption DEF Retarget, ConfigRef
  <2>3. /\ getValue(heap'[c]).agentMessageID = None
        /\ getValue(heap'[c]).messageID = None
        /\ getValue(heap'[c]).channelID = heap'[c].channelID
    BY <2>2 DEF getValue
  <2> QED
    BY <2>1, <2>2, <2>3, Documents, Documented, SameDocument
<1>6. db' = <<Saved(heap[c])>>'
  BY <1>1, <1>5
<1>7. pc'[c] = "store" /\ \A d \in Command \ {c} : pc'[d] \notin Writing
  BY <1>1, <1>2 DEF Goto, Typed, TypeOK
<1> QED
  BY <1>1, <1>3, <1>6, <1>7 DEF InSync, Writing

LEMMA StoreSync ==
  ASSUME Typed, InSync, NEW c \in Command, Store(c), Synced'
  PROVE  InSync'
<1>1. Synced /\ cache' = c /\ UNCHANGED <<heap, db>> /\ Goto(c, "purge")
  BY DEF Store, Synced
<1>2. db = <<Saved(heap[c])>> /\ \A d \in Command \ {c} : pc[d] \notin Writing
  BY <1>1 DEF Store, InSync, Writing
<1>3. \A d \in Command : pc'[d] \notin Writing
  BY <1>1, <1>2 DEF Goto, Typed, TypeOK, Writing
<1> QED
  BY <1>1, <1>2, <1>3, SyncedStep, ConstantsAssumption DEF ConfigRef

LEMMA ReuseSync ==
  ASSUME Typed, InSync, NEW c \in Command, Reuse(c), Synced'
  PROVE  InSync'
<1>1. /\ cfg[c] \in ConfigRef /\ cfg[c] = cache /\ ~Locked(cfg[c])
      /\ Synced /\ cache' = cache /\ cfg' = cfg
      /\ heap' = [heap EXCEPT ![cache] = Retarget(heap[cache], c)]
      /\ db' = updateChannelID(heap'[cache])
      /\ Goto(c, "saving")
  BY NoteSynced DEF Reuse, Typed, TypeOK, FrameOK, Holding
<1>2. (\A d \in Command : pc[d] \notin Writing) /\ db = <<Saved(heap[cache])>>
  BY <1>1, LockExcludes
<1>3. heap'[cache] = Retarget(heap[cache], c) /\ Saved(heap[cache]) \in Document
  BY <1>1, Documented DEF Typed, TypeOK
<1>4. db' = <<[Saved(heap[cache]) EXCEPT !.channelID = heap'[cache].channelID]>>
  BY <1>1, <1>2 DEF updateChannelID
<1>5. heap'[cache] \in ServerConfig
  BY <1>3 DEF Retarget, ServerConfig, Typed, TypeOK, FrameOK, Reuse, Waiting
<1>6. [Saved(heap[cache]) EXCEPT !.channelID = heap'[cache].channelID] \in Document
  BY <1>3, <1>5 DEF Document, ServerConfig
<1>7. \E d \in Document : db' = <<d>> /\ d.channelID = heap'[cache].channelID
  BY <1>3, <1>4, <1>6 DEF Document
<1>8. Retargeted(c)'
  BY <1>1, <1>3, <1>7, ConstantsAssumption DEF Retargeted, Retarget, ConfigRef
<1>9. pc'[c] = "saving" /\ \A d \in Command \ {c} : pc'[d] \notin Writing
  BY <1>1, <1>2 DEF Goto, Typed, TypeOK
<1> QED
  BY <1>8, <1>9 DEF InSync, Writing

LEMMA SaveWidgetSync ==
  ASSUME Typed, HiddenServer, InSync, NEW c \in Command, SaveWidget(c), Synced'
  PROVE  InSync'
<1>1. /\ cfg[c] \in ConfigRef /\ cfg[c] = cache
      /\ Synced /\ cache' = cache /\ heap' = heap
      /\ db' = updateStatusWidget(heap[cache])
      /\ Goto(c, "purge")
  BY DEF SaveWidget, Note, Typed, TypeOK, FrameOK, Holding, Synced
<1>2. Retargeted(c) /\ \A d \in Command \ {c} : pc[d] \notin Writing
  BY <1>1 DEF SaveWidget, InSync, Writing
<1>3. heap[cache] \in ServerConfig /\ heap[cache].messageID = None
  BY <1>1, <1>2 DEF Retargeted, HiddenServer, Typed, TypeOK
<1>4. db' = <<Saved(heap[cache])>>
  BY <1>1, <1>2, <1>3, SavedWidget DEF Retargeted
<1>5. \A d \in Command : pc'[d] \notin Writing
  BY <1>1, <1>2 DEF Goto, Typed, TypeOK, Writing
<1> QED
  BY <1>1, <1>4, <1>5, SyncedStep, ConstantsAssumption

LEMMA FailureSync ==
  ASSUME Typed, HiddenServer, InSync, NEW c \in Command, AgentFailed(c) \/ Undo(c),
         Synced'
  PROVE  InSync'
<1>1. /\ cfg[c] \in ConfigRef /\ cfg[c] = cache /\ ~Locked(cfg[c])
      /\ Synced /\ cache' = cache /\ db' = db
      /\ ReleaseCommand(c) /\ Finish(c)
  BY NoteSynced DEF AgentFailed, Undo, Typed, TypeOK, FrameOK, Holding
<1>2. (\A d \in Command : pc[d] \notin Writing) /\ db = <<Saved(heap[cache])>>
  BY <1>1, LockExcludes
<1>3. heap[cache] \in ServerConfig /\ heap'[cache] \in ServerConfig
  BY <1>1, ReleaseTyped DEF Typed, TypeOK
<1>4. Saved(heap'[cache]) = Saved(heap[cache])
  <2>1. CASE heap' = heap
    BY <2>1
  <2>2. CASE heap[cache].commandID = c /\ heap'[cache] = Unbuilt(heap[cache])
    <3>1. heap[cache].commandID # None /\ heap[cache].messageID = None
      BY <1>1, <2>2, ConstantsAssumption DEF HiddenServer, ConfigRef
    <3>2. /\ heap'[cache].channelID = heap[cache].channelID
          /\ heap'[cache].messageID = None
          /\ heap'[cache].agentMessageID = None
          /\ heap'[cache].commandID = None
      BY <1>3, <2>2, <3>1 DEF Unbuilt, ServerConfig
    <3> QED
      BY <1>3, <3>1, <3>2, Documented, SameDocument
  <2> QED
    BY <1>1, <2>1, <2>2 DEF ReleaseCommand, Current, Typed, TypeOK
<1>5. \A d \in Command : pc'[d] \notin Writing
  BY <1>1, <1>2 DEF Finish, Typed, TypeOK, Writing
<1>6. db' = <<Saved(heap[cache])>>'
  BY <1>1, <1>2, <1>4
<1> QED
  BY <1>1, <1>5, <1>6, SyncedStep, ConstantsAssumption

LEMMA RecordAgentSync ==
  ASSUME Typed, HiddenServer, InSync, NEW c \in Command, RecordAgent(c), Synced'
  PROVE  InSync'
<1>1. /\ cfg[c] \in ConfigRef /\ cfg[c] = cache /\ ~Locked(cfg[c])
      /\ heap[cache].commandID = c
      /\ Synced /\ cache' = cache /\ db' = db /\ Goto(c, "serverSent")
      /\ heap' = [heap EXCEPT ![cache].agentMessageID = Widget(c, "agent")]
  BY DEF RecordAgent, Current, Note, Typed, TypeOK, FrameOK, Holding, Synced
<1>2. (\A d \in Command : pc[d] \notin Writing) /\ db = <<Saved(heap[cache])>>
  BY <1>1, LockExcludes
<1>3. Typed'
  BY RecordAgentTyped
<1>4. heap[cache] \in ServerConfig /\ heap'[cache] \in ServerConfig
  BY <1>1, <1>3 DEF Typed, TypeOK
<1>5. /\ heap'[cache].channelID = heap[cache].channelID
      /\ heap'[cache].commandID = c /\ c # None
  BY <1>1, <1>4, ConstantsAssumption DEF Typed, TypeOK, ServerConfig, ConfigRef
<1>6. Saved(heap'[cache]) = Saved(heap[cache])
  <2> DEFINE s1 == Saved(heap[cache])
             s2 == Saved(heap'[cache])
  <2>1. /\ s1 \in Document /\ s1.channelID = heap[cache].channelID
        /\ s1.agentMessageID = None /\ s1.messageID = None
    BY <1>1, <1>4, <1>5, Documented
  <2>2. /\ s2 \in Document /\ s2.channelID = heap'[cache].channelID
        /\ s2.agentMessageID = None /\ s2.messageID = None
    BY <1>4, <1>5, Documented
  <2> QED
    BY <1>5, <2>1, <2>2, SameDocument
<1>7. \A d \in Command : pc'[d] \notin Writing
  BY <1>1, <1>2 DEF Goto, Typed, TypeOK, Writing
<1>8. db' = <<Saved(heap[cache])>>'
  BY <1>1, <1>2, <1>6
<1> QED
  BY <1>1, <1>7, <1>8, SyncedStep, ConstantsAssumption

LEMMA RecordServerSync ==
  ASSUME Typed, HiddenServer, InSync, NEW c \in Command, RecordServer(c), Synced'
  PROVE  InSync'
<1>1. /\ cfg[c] \in ConfigRef /\ cfg[c] = cache /\ ~Locked(cfg[c])
      /\ Synced /\ cache' = cache /\ Finish(c)
      /\ heap' = [heap EXCEPT ![cache].messageID = Widget(c, "server"),
                             ![cache].commandID = None]
      /\ db' = updateStatusWidget(heap'[cache])
  BY NoteSynced DEF RecordServer, Typed, TypeOK, FrameOK, Holding
<1>2. (\A d \in Command : pc[d] \notin Writing) /\ db = <<Saved(heap[cache])>>
  BY <1>1, LockExcludes
<1>3. Typed'
  BY RecordServerTyped
<1>4. heap[cache] \in ServerConfig /\ heap'[cache] \in ServerConfig
  BY <1>1, <1>3 DEF Typed, TypeOK
<1>5. /\ heap'[cache].channelID = heap[cache].channelID
      /\ heap'[cache].commandID = None
  BY <1>1, <1>4 DEF Typed, TypeOK, ServerConfig
<1>6. db' = <<Saved(heap'[cache])>>
  BY <1>1, <1>2, <1>4, <1>5, Documented, SavedWidget
<1>7. \A d \in Command : pc'[d] \notin Writing
  BY <1>1, <1>2 DEF Finish, Typed, TypeOK, Writing
<1> QED
  BY <1>1, <1>6, <1>7, SyncedStep, ConstantsAssumption

LEMMA HandleSync ==
  ASSUME Typed, InSync, NEW h \in handling, Handle(h), Synced'
  PROVE  InSync'
<1>1. CASE Concerns(h.event, heap[h.cfg])
  <2>1. /\ h.cfg \in ConfigRef /\ h.cfg = cache /\ ~Locked(h.cfg)
        /\ Synced /\ cache' = None /\ db' = removeFromDatabase
        /\ UNCHANGED <<pc, heap>>
    BY <1>1, NoteSynced DEF Handle, commandVars, Typed, TypeOK
  <2>2. (\A d \in Command : pc[d] \notin Writing) /\ db = <<Saved(heap[cache])>>
    BY <2>1, LockExcludes
  <2>3. db' = <<>>
    BY <2>1, <2>2 DEF removeFromDatabase
  <2> QED
    BY <2>1, <2>2, <2>3 DEF InSync, Expected, Writing
<1>2. CASE ~Concerns(h.event, heap[h.cfg])
  BY <1>2, QuietSync DEF Handle, commandVars, frameVars, Synced
<1> QED
  BY <1>1, <1>2

\* While the collection has no reason to differ it holds one document at most.
LEMMA OneDocument ==
  ASSUME Typed, InSync, Synced
  PROVE  db = <<>> \/ \E d \in Document : db = <<d>>
<1>1. ASSUME NEW c \in Command, pc[c] = "store" PROVE \E d \in Document : db = <<d>>
  <2>1. db = <<Saved(heap[c])>> /\ heap[c] \in ServerConfig
    BY <1>1 DEF InSync, Typed, TypeOK, ConfigRef
  <2> QED
    BY <2>1, Documented
<1>2. ASSUME NEW c \in Command, pc[c] = "saving" PROVE \E d \in Document : db = <<d>>
  BY <1>2 DEF InSync, Retargeted
<1>3. CASE \A c \in Command : pc[c] \notin Writing
  <2>1. db = Expected
    BY <1>3 DEF InSync
  <2>2. CASE cache = None
    BY <2>1, <2>2 DEF Expected
  <2>3. CASE cache # None
    <3>1. heap[cache] \in ServerConfig
      BY <2>3 DEF Typed, TypeOK
    <3> QED
      BY <2>1, <2>3, <3>1, Documented DEF Expected
  <2> QED
    BY <2>2, <2>3
<1> QED
  BY <1>1, <1>2, <1>3 DEF Writing

LEMMA Loaded ==
  ASSUME NEW d \in Document
  PROVE  /\ FromDocument(d) \in ServerConfig
         /\ FromDocument(d).commandID = None
         /\ FromDocument(d).agentMessageID = d.agentMessageID
         /\ FromDocument(d).messageID = d.messageID
         /\ FromDocument(d).channelID = d.channelID
         /\ Saved(FromDocument(d)) = d
<1> DEFINE config == FromDocument(d)
<1>1. /\ config \in ServerConfig /\ config.commandID = None
      /\ config.channelID = d.channelID
      /\ config.agentMessageID = d.agentMessageID
      /\ config.messageID = d.messageID
  BY DEF FromDocument, Document, ServerConfig
<1>2. Saved(config) = d
  BY <1>1, Documented, SameDocument
<1> QED
  BY <1>1, <1>2

\* A restart, wherever it cuts commands short, loads what the collection holds.
LEMMA RestartSync ==
  ASSUME Typed, InSync, Restart, Synced'
  PROVE  InSync'
<1>1. /\ Synced /\ db' = db
      /\ \A c \in Command : pc'[c] \in Waiting
  BY DEF Restart, Running, Waiting, Synced
<1>2. \A c \in Command : pc'[c] \notin Writing
  BY <1>1 DEF Waiting, Writing
<1>3. CASE db = <<>>
  <2>1. cache' = None
    BY <1>3 DEF Restart
  <2> QED
    BY <1>1, <1>2, <1>3, <2>1 DEF InSync, Expected, Writing
<1>4. ASSUME NEW d \in Document, db = <<d>> PROVE InSync'
  <2>1. heap'[Boot] = FromDocument(d) /\ cache' = Boot /\ Boot # None
    BY <1>4, ConstantsAssumption DEF Restart, ConfigRef
  <2>2. db' = <<Saved(heap[cache])>>'
    BY <1>1, <1>4, <2>1, Loaded
  <2> QED
    BY <1>2, <2>1, <2>2, SyncedStep
<1> QED
  BY <1>1, <1>3, <1>4, OneDocument

\* A restart that cuts no command short loads the configuration that was in force.
LEMMA RestartConsistent ==
  ASSUME Typed, WidgetInChannel, InSync, Restart, Intact'
  PROVE  Consistent(heap'[Boot])
<1>1. /\ Intact /\ Synced
      /\ \A c \in Command : pc[c] \in Waiting
  BY DEF Restart, Running, Waiting, Intact, Synced
<1>2. db = Expected
  BY <1>1 DEF InSync, Waiting, Writing
<1>3. CASE cache = None
  <2>1. heap'[Boot] = Blank
    BY <1>2, <1>3 DEF Expected, Restart, ConfigRef
  <2> QED
    BY <2>1 DEF Blank, Consistent
<1>4. CASE cache # None
  <2> DEFINE d == Saved(heap[cache])
  <2>1. heap[cache] \in ServerConfig /\ Consistent(heap[cache]) /\ db = <<d>>
    BY <1>1, <1>2, <1>4 DEF Expected, WidgetInChannel, Typed, TypeOK
  <2>2. d \in Document
    BY <2>1, Documented
  <2>3. heap'[Boot] = FromDocument(d)
    BY <2>1, ConstantsAssumption DEF Restart, ConfigRef
  <2> HIDE DEF d
  <2>4. /\ d.channelID = heap[cache].channelID
        /\ d.agentMessageID \in {heap[cache].agentMessageID, None}
        /\ d.messageID \in {heap[cache].messageID, None}
    BY <2>1, Documented DEF d
  <2> QED
    BY <2>1, <2>2, <2>3, <2>4, Loaded DEF Consistent
<1> QED
  BY <1>3, <1>4

LEMMA NextSync ==
  Typed /\ HiddenServer /\ InSync /\ [Next]_vars => InSync'
<1> SUFFICES ASSUME Typed, HiddenServer, InSync, [Next]_vars, Synced'
             PROVE  InSync'
  BY DEF InSync
<1>1. CASE UNCHANGED vars
  BY <1>1, QuietSync DEF vars, commandVars, frameVars, Synced
<1>2. ASSUME NEW c \in Command, NEW ch \in Channel, Issue(c, ch) PROVE InSync'
  BY <1>2, OutsideGoto, QuietSync DEF Issue, frameVars, Writing, Synced
<1>3. ASSUME NEW c \in Command, LookupFails(c) PROVE InSync'
  BY <1>3, OutsideFinish, QuietSync DEF LookupFails, Writing, Synced
<1>4. ASSUME NEW c \in Command, Find(c) PROVE InSync'
  <2>1. \A d \in Command \ {c} : cfg'[d] = cfg[d]
    BY <1>4 DEF Find, Typed, TypeOK
  <2> QED
    BY <1>4, <2>1, OutsideGoto, QuietSync DEF Find, Writing, Synced
<1>5. ASSUME NEW c \in Command, NEW k \in Kind,
             Purge(c, k) \/ SendAgent(c) \/ Posted(c, k) \/ Refused(c, k) \/ ServerFailed(c)
      PROVE  InSync'
  <2>1. CASE Purge(c, k)
    BY <2>1, QuietSync DEF Purge, Synced
  <2>2. CASE ~Purge(c, k)
    <3>1. k = "agent" \/ k = "server"
      OBVIOUS
    <3>2. /\ pc[c] \notin Writing /\ UNCHANGED <<cfg, heap, cache, db, incident>>
          /\ \E label \in Label \ Writing : Goto(c, label)
      BY <1>5, <2>2, <3>1
      DEF SendAgent, Posted, Refused, ServerFailed, Sent, Made, Failed, frameVars, Label,
          Writing
    <3> QED
      BY <3>2, OutsideGoto, QuietSync DEF Synced
  <2> QED
    BY <2>1, <2>2
<1>6. ASSUME NEW c \in Command, NEW k \in Kind, Abandon(c, k) PROVE InSync'
  <2>1. pc[c] \notin Writing /\ Synced
    BY <1>6 DEF Abandon, Made, Note, Writing, Synced
  <2> QED
    BY <1>6, <2>1, OutsideFinish, QuietSync DEF Abandon
<1>7. CASE \/ \E m \in live : UserDeletesMessage(m)
           \/ \E ch \in Channel : UserDeletesChannel(ch)
           \/ \E e \in events : Deliver(e) \/ Miss(e)
  BY <1>7, QuietSync
  DEF UserDeletesMessage, UserDeletesChannel, Deliver, Miss, commandVars, frameVars, Synced
<1> QED
  BY <1>1, <1>2, <1>3, <1>4, <1>5, <1>6, <1>7, InsertSync, StoreSync, ReuseSync,
     SaveWidgetSync, FailureSync, RecordAgentSync, RecordServerSync, HandleSync, RestartSync
  DEF Next, Continue

LEMMA KeepsConsistent ==
  ASSUME Typed, PostsFollow, [Next]_vars, ~Restart, NEW r \in ConfigRef, Consistent(heap[r])
  PROVE  Consistent(heap'[r])
<1>0. heap \in [ConfigRef -> ServerConfig]
  BY DEF Typed, TypeOK
<1>1. CASE UNCHANGED heap
  BY <1>1
<1>2. ASSUME NEW c \in Command, Insert(c) PROVE Consistent(heap'[r])
  <2>1. Consistent(Retarget(Blank, c))
    BY DEF Retarget, Consistent
  <2> QED
    BY <1>0, <1>2, <2>1 DEF Insert
<1>3. ASSUME NEW c \in Command, Work(c) PROVE Consistent(heap'[r])
  <2>1. cfg[c] \in ConfigRef /\ (r # cfg[c] => heap'[r] = heap[r])
    BY <1>3, WorkFrame
  <2>2. CASE r = cfg[c] /\ heap' = [heap EXCEPT ![cfg[c]] = Retarget(heap[cfg[c]], c)]
    <3>1. Consistent(Retarget(heap[r], c))
      BY DEF Retarget, Consistent
    <3> QED
      BY <1>0, <2>2, <3>1
  <2>3. CASE r = cfg[c] /\ heap' = [heap EXCEPT ![cfg[c]] = Unbuilt(heap[cfg[c]])]
    <3>1. Consistent(Unbuilt(heap[r]))
      BY <1>0 DEF Unbuilt, Consistent, ServerConfig
    <3> QED
      BY <1>0, <2>3, <3>1
  <2>4. CASE r = cfg[c] /\ RecordAgent(c)
    <3>1. /\ heap' = [heap EXCEPT ![cfg[c]].agentMessageID = Widget(c, "agent")]
          /\ post[c]["agent"] = heap[cfg[c]].channelID
      BY <2>4 DEF RecordAgent, PostsFollow, Posting
    <3>2. Widget(c, "agent").channel = heap[cfg[c]].channelID
      BY <3>1 DEF Widget
    <3> QED
      BY <1>0, <2>4, <3>1, <3>2 DEF Consistent, ServerConfig
  <2>5. CASE r = cfg[c] /\ RecordServer(c)
    <3>1. /\ heap' = [heap EXCEPT ![cfg[c]].messageID = Widget(c, "server"),
                                 ![cfg[c]].commandID = None]
          /\ post[c]["server"] = heap[cfg[c]].channelID
      BY <2>5 DEF RecordServer, PostsFollow, Posting, PostingServer
    <3>2. Widget(c, "server").channel = heap[cfg[c]].channelID
      BY <3>1 DEF Widget
    <3> QED
      BY <1>0, <2>5, <3>1, <3>2 DEF Consistent, ServerConfig
  <2> QED
    BY <1>3, <2>1, <2>2, <2>3, <2>4, <2>5, WorkObject
<1>4. UNCHANGED heap \/ \E c \in Command : Insert(c) \/ Work(c)
  BY OtherSteps DEF vars, Issue, LookupFails, Find, Store
<1> QED
  BY <1>1, <1>2, <1>3, <1>4

\* Incidents are never forgotten.
LEMMA IntactStays == [Next]_vars /\ Intact' => Intact
  BY DEF Next, Continue, vars, commandVars, discordVars, Issue, LookupFails, Find, Insert,
         Store, Reuse, SaveWidget, Purge, SendAgent, Posted, Refused, AgentFailed,
         RecordAgent, ServerFailed, Undo, RecordServer, Abandon, UserDeletesMessage,
         UserDeletesChannel, Deliver, Miss, Handle, Restart, Note, Intact

LEMMA NextWidgets ==
  Typed /\ PostsFollow /\ InSync /\ WidgetInChannel /\ [Next]_vars => WidgetInChannel'
<1> SUFFICES ASSUME Typed, PostsFollow, InSync, WidgetInChannel, [Next]_vars
             PROVE  WidgetInChannel'
  OBVIOUS
<1>1. CASE Restart
  <2>1. \A r \in ConfigRef : r # Boot => heap'[r] = Blank
    BY <1>1 DEF Restart, ConfigRef
  <2> QED
    BY <1>1, <2>1, RestartConsistent DEF WidgetInChannel, Consistent, Blank
<1>2. CASE ~Restart
  BY <1>2, IntactStays, KeepsConsistent DEF WidgetInChannel
<1> QED
  BY <1>1, <1>2

\* The inductive invariant of both theorems.
Coherent == Typed /\ PostsFollow /\ HiddenServer /\ InSync /\ WidgetInChannel

LEMMA CoherentInvariant == Spec => []Coherent
<1>1. Init => Coherent
  BY InitTyped, InitPosts, InitSync DEF Coherent
<1>2. Coherent /\ [Next]_vars => Coherent'
  BY NextTyped, NextPosts, NextHidden, NextSync, NextWidgets DEF Coherent
<1> QED
  BY <1>1, <1>2, PTL DEF Spec

\* However many commands retarget a configuration while widgets are on their
\* way, the widgets it records are in its channel; a configuration loaded by a
\* restart included, unless an incident came before.
THEOREM WidgetsInTheirChannel == Spec => []WidgetInChannel
  BY CoherentInvariant, PTL DEF Coherent

\* As long as no two handlers worked on different objects of the guild and no
\* database call threw, the collection holds what the cache holds outside the two
\* windows in which it is being written, wherever the process restarts.
THEOREM CollectionFollowsCache == Spec => []SavedMatchesCache
<1>1. InSync => SavedMatchesCache
  BY DEF InSync, SavedMatchesCache, Expected, Writing
<1> QED
  BY <1>1, CoherentInvariant, PTL DEF Coherent

-----------------------------------------------------------------------------
(***************************************************************************)
(* The refinement.  What is seen of the guild is what the cached object    *)
(* records; a command begins when it stores an object or takes over the    *)
(* cached one, and misses when it ends before that or takes over another.  *)
(***************************************************************************)
Unbegun == {"idle", "lookup", "create", "store", "reuse"}

LEMMA SameView ==
  ASSUME cache' = cache, cache # None => heap'[cache] = heap[cache]
  PROVE  UNCHANGED <<Phase, Owner, Place, Shown>>
<1>1. CASE cache = None
  BY <1>1 DEF Phase, Owner, Place, Shown
<1>2. CASE cache # None
  <2>1. CASE heap[cache].commandID # None
    BY <1>2, <2>1 DEF Phase, Owner, Place, Shown
  <2>2. CASE heap[cache].commandID = None
    BY <1>2, <2>2 DEF Phase, Owner, Place, Shown
  <2> QED
    BY <2>1, <2>2
<1> QED
  BY <1>1, <1>2

LEMMA SameBegun ==
  ASSUME NEW c \in Command, OthersKept(c), pc'[c] \in Unbegun <=> pc[c] \in Unbegun
  PROVE  Begun' = Begun
  BY DEF Begun, OthersKept, Unbegun

LEMMA OneBegins ==
  ASSUME NEW c \in Command, OthersKept(c), pc[c] \in Unbegun, pc'[c] \notin Unbegun
  PROVE  c \notin Begun /\ Begun' = Begun \cup {c}
  BY DEF Begun, OthersKept, Unbegun

LEMMA InitLifecycle == Init => Lifecycle!Init
<1> SUFFICES ASSUME Init PROVE Lifecycle!Init
  OBVIOUS
<1>1. Begun = {}
  BY DEF Init, Begun
<1>2. CASE cache = None
  BY <1>1, <1>2 DEF Lifecycle!Init, Phase, Owner, Place, Shown
<1>3. ASSUME NEW ch \in Channel, cache = Boot,
             heap = [[r \in ConfigRef |-> Blank] EXCEPT ![Boot] = BootConfig(ch)]
      PROVE  Lifecycle!Init
  <2>1. heap[cache] = BootConfig(ch) /\ cache # None
    BY <1>3, ConstantsAssumption DEF ConfigRef
  <2>2. BootConfig(ch).agentMessageID # None /\ BootConfig(ch).messageID # None
    BY BootMessage, ConstantsAssumption
  <2>3. Phase = "ready" /\ Owner = None /\ Place = ch
    BY <2>1, <2>2, BootMessage DEF Phase, Owner, Place, BootConfig
  <2>4. Shown = Lifecycle!Pair(Boot, ch)
    BY <2>1, <2>3 DEF Shown, Lifecycle!Pair, BootConfig
  <2> QED
    BY <1>1, <2>3, <2>4 DEF Lifecycle!Init
<1> QED
  BY <1>2, <1>3 DEF Init

\* A step of one command whose object is not the one in force, or that leaves
\* what is recorded there.
LEMMA HiddenStep ==
  ASSUME NEW c \in Command, OthersKept(c), pc'[c] \in Unbegun => pc[c] \in Unbegun,
         cache' = cache, cache # None => heap'[cache] = heap[cache]
  PROVE  Lifecycle!Next \/ UNCHANGED Lifecycle!vars
<1>1. UNCHANGED <<Phase, Owner, Place, Shown>>
  BY SameView
<1>2. CASE pc'[c] \in Unbegun <=> pc[c] \in Unbegun
  BY <1>1, <1>2, SameBegun DEF Lifecycle!vars
<1>3. CASE ~(pc'[c] \in Unbegun <=> pc[c] \in Unbegun)
  <2>1. Lifecycle!Miss(c)
    BY <1>1, <1>3, OneBegins DEF Lifecycle!Miss
  <2> QED
    BY <2>1 DEF Lifecycle!Next
<1> QED
  BY <1>2, <1>3

\* The object in force becomes one that command c has just made its own.
LEMMA BeginStep ==
  ASSUME Typed, NEW c \in Command, OthersKept(c), pc[c] \in Unbegun, pc'[c] \notin Unbegun,
         NEW config, cache' # None, heap'[cache'] = Retarget(config, c),
         target[c] \in Channel
  PROVE  Lifecycle!Next
<1>1. c # None
  BY ConstantsAssumption DEF ConfigRef
<1>2. Phase' = "building" /\ Owner' = c /\ Place' = target[c] /\ Shown' = {}
  BY <1>1 DEF Phase, Owner, Place, Shown, Retarget
<1>3. Lifecycle!Begin(c, target[c])
  BY <1>2, OneBegins DEF Lifecycle!Begin
<1> QED
  BY <1>3 DEF Lifecycle!Next

LEMMA FailStep ==
  ASSUME Typed, NEW c \in Command, AgentFailed(c) \/ Undo(c)
  PROVE  Lifecycle!Next \/ UNCHANGED Lifecycle!vars
<1>1. /\ OthersKept(c) /\ pc[c] \notin Unbegun /\ pc'[c] = "done"
      /\ cache' = cache /\ ReleaseCommand(c)
  BY OthersFinish DEF AgentFailed, Undo, Unbegun
<1>2. /\ cfg[c] \in ConfigRef /\ heap \in [ConfigRef -> ServerConfig]
      /\ \A r \in ConfigRef \ {cfg[c]} : heap'[r] = heap[r]
      /\ cache \in ConfigRef \cup {None} /\ None \notin ConfigRef
  BY WorkFrame, ConstantsAssumption DEF Work, Typed, TypeOK
<1>3. CASE cache = cfg[c] /\ Current(c)
  <2>1. heap'[cache] = Unbuilt(heap[cache]) /\ heap[cache] \in ServerConfig /\ cache # None
    BY <1>1, <1>2, <1>3 DEF ReleaseCommand
  <2>2. Owner = c /\ c # None
    BY <1>3, <2>1, ConstantsAssumption DEF Owner, Current, ConfigRef
  <2>3. /\ heap'[cache].agentMessageID = None /\ heap'[cache].commandID = None
        /\ heap'[cache].channelID = heap[cache].channelID
    BY <2>1 DEF Unbuilt, ServerConfig
  <2>4. Phase' = "broken" /\ Owner' = None /\ Place' = Place
    BY <1>1, <2>1, <2>3 DEF Phase, Owner, Place
  <2>5. Shown' = {}
    BY <2>4 DEF Shown
  <2>6. Begun' = Begun
    BY <1>1, SameBegun DEF Unbegun
  <2>7. Lifecycle!Fail(c)
    BY <2>2, <2>4, <2>5, <2>6 DEF Lifecycle!Fail
  <2> QED
    BY <2>7 DEF Lifecycle!Next
<1>4. CASE ~(cache = cfg[c] /\ Current(c))
  <2>1. cache # None => heap'[cache] = heap[cache]
    BY <1>1, <1>2, <1>4 DEF ReleaseCommand
  <2> QED
    BY <1>1, <2>1, HiddenStep DEF Unbegun
<1> QED
  BY <1>3, <1>4

\* A guild gets ready with the two widgets that the command posted: the agent
\* widget was recorded while the command owned the object, and it still does.
LEMMA PublishStep ==
  ASSUME Typed, PostsFollow, DraftOK, NEW c \in Command, RecordServer(c)
  PROVE  Lifecycle!Next \/ UNCHANGED Lifecycle!vars
<1>1. /\ OthersKept(c) /\ pc[c] = "serverMade" /\ pc'[c] = "done" /\ cache' = cache
      /\ heap' = [heap EXCEPT ![cfg[c]].messageID = Widget(c, "server"),
                              ![cfg[c]].commandID = None]
  BY OthersFinish DEF RecordServer
<1>2. /\ cfg[c] \in ConfigRef /\ heap \in [ConfigRef -> ServerConfig]
      /\ cache \in ConfigRef \cup {None} /\ None \notin ConfigRef
  BY WorkFrame, ConstantsAssumption DEF Work, Typed, TypeOK
<1>3. CASE cache = cfg[c]
  <2> DEFINE ch == heap[cache].channelID
  <2>1. Current(c) /\ post[c]["agent"] = ch /\ post[c]["server"] = ch
    BY <1>1, <1>3 DEF RecordServer, PostsFollow, Posting, PostingServer
  <2>2. heap[cache].agentMessageID = Widget(c, "agent")
    BY <1>1, <1>3, <2>1 DEF DraftOK, DraftAt, Owning, Holding, PostingServer
  <2>3. heap[cache] \in ServerConfig /\ cache # None /\ ch \in Channel
    BY <1>2, <1>3 DEF Typed, FrameOK
  <2>4. /\ heap'[cache].messageID = Widget(c, "server")
        /\ heap'[cache].agentMessageID = Widget(c, "agent")
        /\ heap'[cache].commandID = None
        /\ heap'[cache].channelID = ch
    BY <1>1, <1>2, <1>3, <2>2, <2>3 DEF ServerConfig
  <2>5. Widget(c, "agent") # None /\ Widget(c, "server") # None
    BY <2>1, <2>3, WidgetTyped, ConstantsAssumption
  <2>6. Phase' = "ready" /\ Owner' = None /\ Place' = ch /\ Place = ch
    BY <1>1, <2>3, <2>4, <2>5 DEF Phase, Owner, Place
  <2>7. Shown' = Lifecycle!Pair(c, Place)
    BY <1>1, <2>1, <2>4, <2>6 DEF Shown, Lifecycle!Pair, Widget
  <2>8. Owner = c /\ Begun' = Begun
    BY <1>1, <1>3, <2>1, <2>3, SameBegun DEF Owner, Current, Unbegun
  <2>9. Lifecycle!Publish(c)
    BY <2>6, <2>7, <2>8 DEF Lifecycle!Publish
  <2> QED
    BY <2>9 DEF Lifecycle!Next
<1>4. CASE cache # cfg[c]
  <2>1. cache # None => heap'[cache] = heap[cache]
    BY <1>1, <1>2, <1>4
  <2> QED
    BY <1>1, <2>1, HiddenStep DEF Unbegun
<1> QED
  BY <1>3, <1>4

\* A command in possession of an object that records nothing to be shown.
LEMMA RecordAgentStep ==
  ASSUME Typed, NEW c \in Command, RecordAgent(c)
  PROVE  UNCHANGED Lifecycle!vars
<1>1. /\ OthersKept(c) /\ pc[c] = "agentMade" /\ pc'[c] = "serverSent" /\ cache' = cache
      /\ heap' = [heap EXCEPT ![cfg[c]].agentMessageID = Widget(c, "agent")]
      /\ heap[cfg[c]].commandID = c
  BY OthersGoto DEF RecordAgent, Current, Typed, TypeOK
<1>2. /\ cfg[c] \in ConfigRef /\ heap \in [ConfigRef -> ServerConfig] /\ c # None
      /\ cache \in ConfigRef \cup {None} /\ None \notin ConfigRef
  BY WorkFrame, ConstantsAssumption DEF Work, Typed, TypeOK, ConfigRef
<1>3. Begun' = Begun
  BY <1>1, SameBegun DEF Unbegun
<1>4. CASE cache = cfg[c]
  <2>1. /\ heap'[cache].commandID = c /\ heap[cache].commandID = c
        /\ heap'[cache].channelID = heap[cache].channelID
        /\ cache # None
    BY <1>1, <1>2, <1>4 DEF ServerConfig
  <2>2. Phase = "building" /\ Phase' = "building" /\ Owner' = Owner /\ Place' = Place
    BY <1>1, <1>2, <2>1 DEF Phase, Owner, Place
  <2> QED
    BY <1>3, <2>2 DEF Shown, Lifecycle!vars
<1>5. CASE cache # cfg[c]
  <2>1. cache # None => heap'[cache] = heap[cache]
    BY <1>1, <1>2, <1>5
  <2> QED
    BY <1>1, <1>3, <2>1, SameView DEF Lifecycle!vars
<1> QED
  BY <1>4, <1>5

LEMMA WorkStep ==
  ASSUME Typed, PostsFollow, DraftOK, NEW c \in Command, Work(c)
  PROVE  Lifecycle!Next \/ UNCHANGED Lifecycle!vars
<1>1. CASE UNCHANGED heap
  <2>1. OthersKept(c) /\ cache' = cache /\ pc'[c] \notin Unbegun
    BY WorkFrame DEF Unbegun, Busy, Holding
  <2> QED
    BY <1>1, <2>1, HiddenStep
<1>2. CASE Reuse(c) /\ heap' = [heap EXCEPT ![cfg[c]] = Retarget(heap[cfg[c]], c)]
  <2>1. /\ OthersKept(c) /\ cache' = cache /\ pc'[c] \notin Unbegun /\ cfg[c] \in ConfigRef
        /\ heap \in [ConfigRef -> ServerConfig] /\ pc[c] = "reuse"
    BY <1>2, WorkFrame DEF Reuse, Unbegun, Busy, Holding, Typed, TypeOK
  <2>2. target[c] \in Channel /\ None \notin ConfigRef /\ cache \in ConfigRef \cup {None}
    BY <2>1, ConstantsAssumption DEF Typed, TypeOK, FrameOK, Waiting
  <2>3. CASE cache = cfg[c]
    BY <1>2, <2>1, <2>2, <2>3, BeginStep DEF Unbegun
  <2>4. CASE cache # cfg[c]
    BY <1>2, <2>1, <2>2, <2>4, HiddenStep DEF Unbegun
  <2> QED
    BY <2>3, <2>4
<1> QED
  BY <1>1, <1>2, FailStep, PublishStep, RecordAgentStep, WorkObject

LEMMA HandleStep ==
  ASSUME NEW h \in handling, Handle(h)
  PROVE  Lifecycle!Next \/ UNCHANGED Lifecycle!vars
<1>1. heap' = heap /\ pc' = pc /\ cache' \in {cache, None}
  BY DEF Handle, commandVars
<1>2. Begun' = Begun
  BY <1>1 DEF Begun
<1>3. CASE cache' = cache
  BY <1>1, <1>2, <1>3, SameView DEF Lifecycle!vars
<1>4. CASE cache' # cache
  <2>1. cache' = None /\ cache # None
    BY <1>1, <1>4
  <2>2. Phase # "absent" /\ Phase' = "absent" /\ Owner' = None /\ Place' = None
    BY <2>1 DEF Phase, Owner, Place
  <2>3. Shown' = {}
    BY <2>2 DEF Shown
  <2>4. Lifecycle!Erase
    BY <1>2, <2>2, <2>3 DEF Lifecycle!Erase
  <2> QED
    BY <2>4 DEF Lifecycle!Next
<1> QED
  BY <1>3, <1>4

LEMMA StepLifecycle ==
  ASSUME "restart" \notin Faults, Typed, PostsFollow, FreshOK, DraftOK, [Next]_vars
  PROVE  Lifecycle!Next \/ UNCHANGED Lifecycle!vars
<1>1. ASSUME UNCHANGED <<commandVars, heap>>, cache' = cache
      PROVE  UNCHANGED Lifecycle!vars
  BY <1>1, SameView DEF commandVars, Begun, Lifecycle!vars
<1>2. ASSUME NEW c \in Command, NEW ch \in Channel, Issue(c, ch)
      PROVE  Lifecycle!Next \/ UNCHANGED Lifecycle!vars
  <2>1. OthersKept(c) /\ pc[c] = "idle" /\ UNCHANGED <<heap, cache>>
    BY <1>2, OthersGoto DEF Issue, Typed, TypeOK
  <2> QED
    BY <2>1, HiddenStep DEF Unbegun
<1>3. ASSUME NEW c \in Command, LookupFails(c) \/ Find(c)
      PROVE  Lifecycle!Next \/ UNCHANGED Lifecycle!vars
  <2>1. OthersKept(c) /\ pc[c] = "lookup" /\ UNCHANGED <<heap, cache>>
    BY <1>3, OthersFinish, OthersGoto DEF LookupFails, Find, Typed, TypeOK
  <2> QED
    BY <2>1, HiddenStep DEF Unbegun
<1>4. ASSUME NEW c \in Command, Insert(c)
      PROVE  Lifecycle!Next \/ UNCHANGED Lifecycle!vars
  <2>1. /\ OthersKept(c) /\ pc[c] = "create" /\ cache' = cache
        /\ heap' = [heap EXCEPT ![c] = Retarget(Blank, c)]
    BY <1>4, OthersFinish, OthersGoto DEF Insert, frameVars
  <2>2. cache # None => heap'[cache] = heap[cache]
    BY <2>1 DEF FreshOK, Early, Typed, TypeOK
  <2> QED
    BY <2>1, <2>2, HiddenStep DEF Unbegun
<1>5. ASSUME NEW c \in Command, Store(c) PROVE Lifecycle!Next
  <2>1. /\ OthersKept(c) /\ pc[c] = "store" /\ pc'[c] = "purge" /\ heap' = heap /\ cache' = c
    BY <1>5, OthersGoto DEF Store, frameVars
  <2>2. heap'[cache'] = Retarget(Blank, c) /\ cache' # None /\ target[c] \in Channel
    BY <2>1, ConstantsAssumption DEF FreshOK, Early, Typed, FrameOK, Waiting, ConfigRef
  <2> QED
    BY <2>1, <2>2, BeginStep DEF Unbegun
<1>6. ~Restart
  BY DEF Restart
<1> QED
  BY <1>1, <1>2, <1>3, <1>4, <1>5, <1>6, WorkStep, HandleStep, OtherSteps DEF vars

Lifelike == Typed /\ PostsFollow /\ FreshOK /\ DraftOK

LEMMA LifelikeInvariant == Spec => []Lifelike
<1>1. Init => Lifelike
  BY InitTyped, InitPosts, InitFresh, InitDraft DEF Lifelike
<1>2. Lifelike /\ [Next]_vars => Lifelike'
  BY NextTyped, NextPosts, NextFresh, NextDraft DEF Lifelike
<1> QED
  BY <1>1, <1>2, PTL DEF Spec

\* As long as the process does not restart, the handlers implement the life
\* cycle of a guild's status channel: every section of every handler begins,
\* misses, ends or removes one build, or changes nothing that is seen, however
\* commands, late answers, failures and delete events interleave.
THEOREM LifecycleImplemented ==
  ASSUME "restart" \notin Faults
  PROVE  Spec => ImplementsLifecycle
<1>1. Lifelike /\ [Next]_vars => [Lifecycle!Next]_(Lifecycle!vars)
  BY StepLifecycle DEF Lifelike
<1> QED
  BY <1>1, InitLifecycle, LifelikeInvariant, PTL DEF Spec, ImplementsLifecycle, Lifecycle!Spec

-----------------------------------------------------------------------------
(***************************************************************************)
(* Where a message is known: recorded by an object, saved in a document,   *)
(* about to be purged, or announced as deleted by the bot.                 *)
(***************************************************************************)
Records(r, m) == m \in {heap[r].agentMessageID, heap[r].messageID}
Stored(m) == \E i \in 1 .. Len(db) : m \in {db[i].agentMessageID, db[i].messageID}

Spent(m) ==
    \/ \E e \in events : e.by = "bot" /\ e.id = m
    \/ \E h \in handling : h.event.by = "bot" /\ h.event.id = m
    \/ \E c \in Command, k \in Kind : purge[c][k] = m

Mentioned(m) == Spent(m) \/ Stored(m) \/ \E r \in ConfigRef : Records(r, m)

\* Where the command that posted it stands.
Past(m) == IF m.kind = "agent" THEN PostingServer \cup {"done"} ELSE {"done"}

\* A message is known only once its command has recorded it or ended.
AuthorsOK ==
    \A m \in Message : Mentioned(m) /\ m.by \in Command => pc[m.by] \in Past(m)

\* What a command that has not ended posted is recorded in its object alone, and
\* only as long as it owns it.
OwnersOK ==
    \A m \in Message, r \in ConfigRef :
        Records(r, m) /\ m.by \in Command /\ pc[m.by] # "done" =>
            r = cfg[m.by] /\ Current(m.by) /\ m = Widget(m.by, "agent")

UniqueOK ==
    \A m \in Message, r, s \in ConfigRef : Records(r, m) /\ Records(s, m) => r = s

\* A message that the bot deletes is recorded nowhere, except while its command
\* is about to forget it.
SpentOK ==
    \A m \in Message, r \in ConfigRef : Spent(m) /\ Records(r, m) =>
        m.by \in Command /\ pc[m.by] = "undo"

KnownOK == AuthorsOK /\ OwnersOK /\ UniqueOK /\ SpentOK

LEMMA NoMessage == None \notin Message
  BY ConstantsAssumption

LEMMA WidgetIs ==
  ASSUME NEW c, NEW k
  PROVE  Widget(c, k).by = c /\ Widget(c, k).kind = k
  BY DEF Widget

LEMMA InitKnown == Init => KnownOK
<1> SUFFICES ASSUME Init PROVE KnownOK
  OBVIOUS
<1>1. \A m \in Message : ~Spent(m)
  BY NoMessage DEF Init, Spent, NoWidgets
<1>2. CASE heap = [r \in ConfigRef |-> Blank] /\ db = <<>>
  <2>1. \A m \in Message : ~Stored(m) /\ \A r \in ConfigRef : ~Records(r, m)
    BY <1>2, NoMessage DEF Stored, Records, Blank
  <2> QED
    BY <1>1, <2>1 DEF KnownOK, AuthorsOK, OwnersOK, UniqueOK, SpentOK, Mentioned
<1>3. ASSUME NEW ch \in Channel,
             heap = [[r \in ConfigRef |-> Blank] EXCEPT ![Boot] = BootConfig(ch)],
             db = <<getValue(BootConfig(ch))>>
      PROVE  KnownOK
  <2> DEFINE pair == {BootConfig(ch).agentMessageID, BootConfig(ch).messageID}
  <2>1. \A m \in pair : m.by \notin Command
    BY ConstantsAssumption DEF BootConfig
  <2>2. \A m \in Message : Stored(m) => m \in pair
    BY <1>3 DEF Stored, getValue
  <2>3. \A m \in Message, r \in ConfigRef : Records(r, m) => r = Boot /\ m \in pair
    BY <1>3, NoMessage DEF Records, Blank, ConfigRef
  <2> HIDE DEF pair
  <2> QED
    BY <1>1, <2>1, <2>2, <2>3 DEF KnownOK, AuthorsOK, OwnersOK, UniqueOK, SpentOK, Mentioned
<1> QED
  BY <1>2, <1>3 DEF Init

\* Commands do not go back.
LEMMA PastStays ==
  ASSUME Typed, [Next]_vars, NEW c \in Command
  PROVE  /\ pc[c] = "done" => pc'[c] = "done"
         /\ pc[c] \in PostingServer \cup {"done"} => pc'[c] \in PostingServer \cup {"done"}
         /\ pc[c] \in PostingServer /\ pc'[c] # "done" => UNCHANGED <<cfg[c], post[c]>>
<1>1. UNCHANGED vars \/ UNCHANGED commandVars => UNCHANGED <<pc, cfg, post>>
  BY DEF vars, commandVars, frameVars
<1>2. ASSUME NEW d \in Command,
             \/ \E ch \in Channel : Issue(d, ch)
             \/ LookupFails(d) \/ Find(d) \/ Insert(d) \/ Store(d)
      PROVE  pc[c] \in PostingServer \cup {"done"} => UNCHANGED <<pc[c], cfg[c], post[c]>>
  <2>1. OthersKept(d) /\ pc[d] \in Early
    BY <1>2, OthersFinish, OthersGoto
    DEF Issue, LookupFails, Find, Insert, Store, Early, frameVars, Typed, TypeOK
  <2> QED
    BY <2>1 DEF OthersKept, Early, PostingServer
<1>3. ASSUME NEW d \in Command, Work(d), d # c PROVE UNCHANGED <<pc[c], cfg[c], post[c]>>
  BY <1>3, WorkFrame DEF OthersKept
<1>4. CASE Work(c) /\ pc[c] \in PostingServer
  <2>1. \/ Finish(c)
        \/ UNCHANGED <<cfg, post>> /\ \E label \in PostingServer : Goto(c, label)
    <3>1. ASSUME NEW k \in Kind, Posted(c, k) \/ Refused(c, k)
          PROVE  UNCHANGED <<cfg, post>> /\ \E label \in PostingServer : Goto(c, label)
      <4>1. k = "server"
        BY <1>4, <3>1 DEF Posted, Refused, Sent, PostingServer
      <4> QED
        BY <3>1, <4>1 DEF Posted, Refused, Made, Failed, PostingServer, frameVars
    <3>2. ~(\/ Reuse(c) \/ SaveWidget(c) \/ SendAgent(c) \/ AgentFailed(c) \/ RecordAgent(c)
            \/ \E k \in Kind : Purge(c, k))
      BY <1>4
      DEF Reuse, SaveWidget, SendAgent, AgentFailed, RecordAgent, Purge, PostingServer
    <3>3. ServerFailed(c) => UNCHANGED <<cfg, post>> /\ Goto(c, "undo")
      BY DEF ServerFailed, frameVars
    <3>4. Undo(c) \/ RecordServer(c) \/ (\E k \in Kind : Abandon(c, k)) => Finish(c)
      BY DEF Undo, RecordServer, Abandon
    <3> QED
      BY <1>4, <3>1, <3>2, <3>3, <3>4 DEF Work, PostingServer
  <2> QED
    BY <1>4, <2>1, OthersFinish DEF Goto, PostingServer, Typed, TypeOK
<1>5. Work(c) => pc[c] # "done"
  BY WorkFrame DEF Holding
<1>6. CASE Restart
  <2>1. pc'[c] = IF pc[c] \in Waiting THEN pc[c] ELSE "done"
    BY <1>6 DEF Restart, Running
  <2> QED
    BY <2>1 DEF Waiting, PostingServer
<1>7. ASSUME UNCHANGED <<pc[c], cfg[c], post[c]>>
      PROVE  /\ pc[c] = "done" => pc'[c] = "done"
             /\ pc[c] \in PostingServer \cup {"done"} => pc'[c] \in PostingServer \cup {"done"}
             /\ pc[c] \in PostingServer /\ pc'[c] # "done" => UNCHANGED <<cfg[c], post[c]>>
  BY <1>7
<1>8. ASSUME NEW d \in Command, Work(d)
      PROVE  /\ pc[c] = "done" => pc'[c] = "done"
             /\ pc[c] \in PostingServer \cup {"done"} => pc'[c] \in PostingServer \cup {"done"}
             /\ pc[c] \in PostingServer /\ pc'[c] # "done" => UNCHANGED <<cfg[c], post[c]>>
  <2>1. CASE d = c /\ pc[c] \in PostingServer
    BY <1>4, <1>8, <2>1
  <2>2. CASE d = c /\ pc[c] \notin PostingServer
    BY <1>5, <1>8, <2>2
  <2> QED
    BY <1>3, <1>7, <1>8, <2>1, <2>2
<1>9. ASSUME NEW d \in Command,
             \/ \E ch \in Channel : Issue(d, ch)
             \/ LookupFails(d) \/ Find(d) \/ Insert(d) \/ Store(d)
      PROVE  /\ pc[c] = "done" => pc'[c] = "done"
             /\ pc[c] \in PostingServer \cup {"done"} => pc'[c] \in PostingServer \cup {"done"}
             /\ pc[c] \in PostingServer /\ pc'[c] # "done" => UNCHANGED <<cfg[c], post[c]>>
  <2>1. CASE pc[c] \in PostingServer \cup {"done"}
    BY <1>2, <1>7, <1>9, <2>1
  <2>2. CASE pc[c] \notin PostingServer \cup {"done"}
    BY <2>2
  <2> QED
    BY <2>1, <2>2
<1>10. CASE UNCHANGED <<pc, cfg, post>>
  BY <1>7, <1>10
<1>11. \/ UNCHANGED <<pc, cfg, post>>
       \/ \E d \in Command : \/ \E ch \in Channel : Issue(d, ch)
                             \/ LookupFails(d) \/ Find(d) \/ Insert(d) \/ Store(d)
       \/ \E d \in Command : Work(d)
       \/ Restart
  BY <1>1, OtherSteps
<1> QED
  BY <1>6, <1>8, <1>9, <1>10, <1>11

LEMMA KnownPast ==
  ASSUME Typed, AuthorsOK, [Next]_vars, NEW m \in Message, m.by \in Command, Mentioned(m)
  PROVE  pc'[m.by] \in Past(m)
  BY PastStays DEF AuthorsOK, Past

\* The ways a message gets recorded.
LEMMA NewRecord ==
  ASSUME Typed, [Next]_vars, ~Restart, NEW m \in Message, NEW r \in ConfigRef,
         Records(r, m)'
  PROVE  \/ Records(r, m)
         \/ \E c \in Command : RecordAgent(c) /\ m = Widget(c, "agent") /\ r = cfg[c]
         \/ \E c \in Command : RecordServer(c) /\ m = Widget(c, "server") /\ r = cfg[c]
<1>1. ASSUME NEW c \in Command, Insert(c) PROVE Records(r, m)
  <2>1. heap' = [heap EXCEPT ![c] = Retarget(Blank, c)] /\ heap \in [ConfigRef -> ServerConfig]
    BY <1>1 DEF Insert, Typed, TypeOK
  <2> QED
    BY <2>1, NoMessage DEF Retarget, Records
<1>2. ASSUME NEW c \in Command, Work(c)
      PROVE  \/ Records(r, m)
             \/ RecordAgent(c) /\ m = Widget(c, "agent") /\ r = cfg[c]
             \/ RecordServer(c) /\ m = Widget(c, "server") /\ r = cfg[c]
  <2>1. cfg[c] \in ConfigRef /\ heap \in [ConfigRef -> ServerConfig]
    BY <1>2, WorkFrame DEF Typed, TypeOK
  <2>2. CASE heap' = [heap EXCEPT ![cfg[c]] = Retarget(heap[cfg[c]], c)]
    BY <2>1, <2>2, NoMessage DEF Retarget, Records
  <2>3. CASE heap' = [heap EXCEPT ![cfg[c]] = Unbuilt(heap[cfg[c]])]
    BY <2>1, <2>3, NoMessage DEF Unbuilt, Records, ServerConfig
  <2>4. CASE RecordAgent(c)
    BY <2>1, <2>4 DEF RecordAgent, Records, ServerConfig
  <2>5. CASE RecordServer(c)
    BY <2>1, <2>5 DEF RecordServer, Records, ServerConfig
  <2>6. CASE UNCHANGED heap
    BY <2>6 DEF Records
  <2> QED
    BY <1>2, <2>2, <2>3, <2>4, <2>5, <2>6, WorkObject
<1>3. CASE UNCHANGED heap
  BY <1>3 DEF Records
<1>4. UNCHANGED heap \/ \E c \in Command : Insert(c) \/ Work(c)
  BY OtherSteps DEF vars, Issue, LookupFails, Find, Store
<1> QED
  BY <1>1, <1>2, <1>3, <1>4

LEMMA RestartRecord ==
  ASSUME Typed, Restart, NEW m \in Message, NEW r \in ConfigRef, Records(r, m)'
  PROVE  r = Boot /\ Stored(m)
<1>1. r = Boot /\ db # <<>> /\ heap'[r] = FromDocument(db[Len(db)])
  BY NoMessage DEF Restart, Records, Blank, ConfigRef
<1>2. Len(db) \in 1 .. Len(db)
  BY <1>1 DEF Typed, TypeOK
<1> QED
  BY <1>1, <1>2 DEF Records, Stored, FromDocument

\* The ways a message gets to be deleted by the bot.
LEMMA BotDeletesSpent ==
  ASSUME NEW M, BotDeletes(M), NEW m, \E e \in events' : e.by = "bot" /\ e.id = m
  PROVE  (\E e \in events : e.by = "bot" /\ e.id = m) \/ m \in M
  BY DEF BotDeletes

LEMMA NewSpent ==
  ASSUME Typed, [Next]_vars, NEW m \in Message, Spent(m)'
  PROVE  /\ ~Restart
         /\ \/ Spent(m)
            \/ \E c \in Command : Reuse(c) /\ Records(cfg[c], m)
            \/ \E c \in Command : ServerFailed(c) /\ m = Widget(c, "agent")
            \/ \E c \in Command, k \in Kind : Abandon(c, k) /\ m \in Posts(c, k)
<1>0. \A c \in Command : Finish(c) => \A d \in Command, k \in Kind : purge'[d][k] = m => purge[d][k] = m
  BY NoMessage DEF Finish, NoWidgets, Typed, TypeOK
<1>1. ASSUME UNCHANGED <<events, handling>>,
             purge' = purge \/ \E c \in Command : Finish(c)
      PROVE  Spent(m)
  BY <1>0, <1>1 DEF Spent
<1>2. ASSUME NEW c \in Command, NEW k \in Kind, Purge(c, k) PROVE Spent(m)
  <2>1. \A d \in Command, j \in Kind : purge'[d][j] = m => purge[d][j] = m
    BY <1>2, NoMessage DEF Purge, Typed, TypeOK
  <2>2. BotDeletes({purge[c][k]}) /\ handling' = handling
    BY <1>2 DEF Purge
  <2> QED
    BY <2>1, <2>2, BotDeletesSpent DEF Spent
<1>3. ASSUME NEW c \in Command, Reuse(c) PROVE Spent(m) \/ Records(cfg[c], m)
  <2>1. UNCHANGED <<events, handling>>
    BY <1>3 DEF Reuse, discordVars
  <2>2. CASE Finish(c)
    BY <1>1, <2>1, <2>2
  <2>3. CASE ~Finish(c)
    <3>1. \E m1, m2 : /\ purge' = [purge EXCEPT ![c] = [agent |-> m1, server |-> m2]]
                      /\ m1 \in {heap[cfg[c]].agentMessageID, None}
                      /\ m2 \in {heap[cfg[c]].messageID, None}
      BY <1>3, <2>3 DEF Reuse
    <3>2. \A d \in Command, k \in Kind :
             purge'[d][k] = m => purge[d][k] = m \/ Records(cfg[c], m)
      BY <3>1, NoMessage DEF Records, Typed, TypeOK
    <3> QED
      BY <2>1, <3>2 DEF Spent
  <2> QED
    BY <2>2, <2>3
<1>4. ASSUME NEW c \in Command, ServerFailed(c) PROVE Spent(m) \/ m = Widget(c, "agent")
  <2>1. BotDeletes({Widget(c, "agent")}) /\ UNCHANGED <<handling, purge>>
    BY <1>4 DEF ServerFailed, frameVars
  <2> QED
    BY <2>1, BotDeletesSpent DEF Spent
<1>5. ASSUME NEW c \in Command, NEW k \in Kind, Abandon(c, k)
      PROVE  Spent(m) \/ m \in Posts(c, k)
  <2>1. BotDeletes(Posts(c, k)) /\ handling' = handling /\ Finish(c)
    BY <1>5 DEF Abandon
  <2> QED
    BY <1>0, <2>1, BotDeletesSpent DEF Spent
<1>6. ASSUME \/ \E n \in live : UserDeletesMessage(n)
             \/ \E ch \in Channel : UserDeletesChannel(ch)
      PROVE  Spent(m)
  <2>1. UNCHANGED <<purge, handling>> /\ \A e \in events' \ events : e.by = "user"
    <3>1. ASSUME NEW n \in live, UserDeletesMessage(n)
          PROVE  /\ UNCHANGED <<purge, handling>>
                 /\ events' = events \cup {[kind |-> "message", id |-> n, by |-> "user"]}
      BY <3>1 DEF UserDeletesMessage, commandVars, frameVars
    <3>2. ASSUME NEW ch \in Channel, UserDeletesChannel(ch)
          PROVE  /\ UNCHANGED <<purge, handling>>
                 /\ events' = events \cup {[kind |-> "channel", id |-> ch, by |-> "user"]}
      BY <3>2 DEF UserDeletesChannel, commandVars, frameVars
    <3> QED
      BY <1>6, <3>1, <3>2
  <2> QED
    BY <2>1 DEF Spent
<1>7. ASSUME NEW e \in events, Deliver(e) PROVE Spent(m)
  BY <1>7 DEF Deliver, commandVars, frameVars, Spent
<1>8. ASSUME NEW e \in events, Miss(e) PROVE Spent(m)
  BY <1>8 DEF Miss, commandVars, frameVars, Spent
<1>9. ASSUME NEW h \in handling, Handle(h) PROVE Spent(m)
  BY <1>9 DEF Handle, commandVars, discordVars, frameVars, Spent
<1>10. ~Restart
  BY NoMessage DEF Restart, Spent, NoWidgets
<1>11. ASSUME NEW c \in Command,
              \/ LookupFails(c) \/ Find(c) \/ Insert(c) \/ Store(c) \/ SaveWidget(c)
              \/ SendAgent(c) \/ AgentFailed(c) \/ Undo(c) \/ RecordAgent(c) \/ RecordServer(c)
              \/ \E k \in Kind : Posted(c, k) \/ Refused(c, k)
              \/ \E ch \in Channel : Issue(c, ch)
       PROVE  Spent(m)
  <2>1. UNCHANGED <<events, handling>>
    BY <1>11
    DEF LookupFails, Find, Insert, Store, SaveWidget, SendAgent, AgentFailed, Undo,
        RecordAgent, RecordServer, Posted, Refused, Issue, discordVars
  <2>2. purge' = purge \/ Finish(c)
    BY <1>11
    DEF LookupFails, Find, Insert, Store, SaveWidget, SendAgent, AgentFailed, Undo,
        RecordAgent, RecordServer, Posted, Refused, Issue, frameVars
  <2> QED
    BY <1>1, <2>1, <2>2
<1>12. ASSUME UNCHANGED vars PROVE Spent(m)
  BY <1>12 DEF vars, commandVars, frameVars, discordVars, Spent
<1>13. ASSUME NEW c \in Command, Continue(c) \/ \E ch \in Channel : Issue(c, ch)
       PROVE  \/ Spent(m)
              \/ Reuse(c) /\ Records(cfg[c], m)
              \/ ServerFailed(c) /\ m = Widget(c, "agent")
              \/ \E k \in Kind : Abandon(c, k) /\ m \in Posts(c, k)
  BY <1>2, <1>3, <1>4, <1>5, <1>11, <1>13 DEF Continue
<1> QED
  BY <1>6, <1>7, <1>8, <1>9, <1>10, <1>12, <1>13 DEF Next

\* The ways a message gets into a document.
LEMMA WidgetStored ==
  ASSUME Typed, NEW config \in ServerConfig, NEW m, NEW docs,
         docs = updateStatusWidget(config) \/ docs = updateChannelID(config),
         NEW i \in 1 .. Len(docs), m \in {docs[i].agentMessageID, docs[i].messageID}
  PROVE  Stored(m) \/ m \in {config.agentMessageID, config.messageID}
<1>1. CASE db = <<>>
  BY <1>1 DEF updateStatusWidget, updateChannelID, Stored
<1>2. CASE db # <<>>
  <2>1. db \in Seq(Document) /\ 1 \in 1 .. Len(db) /\ db[1] \in Document
    BY <1>2 DEF Typed, TypeOK
  <2>2. CASE docs = updateStatusWidget(config)
    <3>1. docs = [db EXCEPT ![1] = [db[1] EXCEPT !.agentMessageID = config.agentMessageID,
                                                 !.messageID = config.messageID]]
      BY <1>2, <2>2 DEF updateStatusWidget
    <3>2. i \in 1 .. Len(db)
      BY <2>1, <3>1
    <3> QED
      BY <2>1, <3>1, <3>2 DEF Document, Stored
  <2>3. CASE docs = updateChannelID(config)
    <3>1. docs = [db EXCEPT ![1] = [db[1] EXCEPT !.channelID = config.channelID]]
      BY <1>2, <2>3 DEF updateChannelID
    <3>2. i \in 1 .. Len(db)
      BY <2>1, <3>1
    <3> QED
      BY <2>1, <3>1, <3>2 DEF Document, Stored
  <2> QED
    BY <2>2, <2>3
<1> QED
  BY <1>1, <1>2

LEMMA NewStored ==
  ASSUME Typed, [Next]_vars, NEW m \in Message, Stored(m)'
  PROVE  Stored(m) \/ \E r \in ConfigRef : Records(r, m) \/ Records(r, m)'
<1>1. CASE UNCHANGED db
  BY <1>1 DEF Stored
<1>2. PICK i \in 1 .. Len(db') : m \in {db'[i].agentMessageID, db'[i].messageID}
  BY DEF Stored
<1>3. ASSUME NEW c \in Command, Insert(c), db' # db PROVE Stored(m)
  <2>1. db' = Append(db, getValue(heap'[c])) /\ heap'[c] = Retarget(Blank, c)
    BY <1>3 DEF Insert, Typed, TypeOK, ConfigRef
  <2>2. m \notin {getValue(heap'[c]).agentMessageID, getValue(heap'[c]).messageID}
    BY <2>1, NoMessage DEF getValue, Retarget
  <2>3. db \in Seq(Document)
    BY DEF Typed, TypeOK
  <2> QED
    BY <1>2, <2>1, <2>2, <2>3 DEF Stored
<1>4. ASSUME NEW c \in Command, Work(c), db' # db
      PROVE  Stored(m) \/ \E r \in ConfigRef : Records(r, m) \/ Records(r, m)'
  <2>1. \/ db' = updateChannelID(heap'[cfg[c]])
        \/ db' = updateStatusWidget(heap[cfg[c]])
        \/ db' = updateStatusWidget(heap'[cfg[c]])
    BY <1>4
    DEF Work, Reuse, SaveWidget, SendAgent, AgentFailed, RecordAgent, ServerFailed, Undo,
        RecordServer, Purge, Posted, Refused, Abandon
  <2>2. Typed' /\ cfg[c] \in ConfigRef
    BY <1>4, NextTyped, WorkFrame
  <2>3. heap[cfg[c]] \in ServerConfig /\ heap'[cfg[c]] \in ServerConfig
    BY <2>2 DEF Typed, TypeOK
  <2>4. \/ Stored(m)
        \/ m \in {heap[cfg[c]].agentMessageID, heap[cfg[c]].messageID}
        \/ m \in {heap'[cfg[c]].agentMessageID, heap'[cfg[c]].messageID}
    BY <1>2, <2>1, <2>3, WidgetStored
  <2> QED
    BY <2>2, <2>4 DEF Records
<1>5. ASSUME NEW h \in handling, Handle(h), db' # db PROVE Stored(m)
  <2>1. db' = Tail(db) /\ db # <<>> /\ db \in Seq(Document)
    BY <1>5 DEF Handle, removeFromDatabase, Typed, TypeOK
  <2>2. i + 1 \in 1 .. Len(db) /\ db'[i] = db[i + 1]
    BY <1>2, <2>1
  <2> QED
    BY <1>2, <2>2 DEF Stored
<1>6. \/ UNCHANGED db
      \/ \E c \in Command : Insert(c) \/ Work(c)
      \/ \E h \in handling : Handle(h)
  BY OtherSteps DEF vars, Issue, LookupFails, Find, Store, Restart
<1> QED
  BY <1>1, <1>3, <1>4, <1>5, <1>6

LEMMA AgentRecorded ==
  ASSUME Typed, NEW c \in Command, RecordAgent(c)
  PROVE  /\ pc[c] = "agentMade" /\ pc'[c] = "serverSent" /\ Current(c) /\ cfg[c] \in ConfigRef
         /\ cfg' = cfg /\ Widget(c, "agent")' = Widget(c, "agent")
         /\ heap'[cfg[c]].commandID = heap[cfg[c]].commandID
<1>1. /\ pc[c] = "agentMade" /\ Goto(c, "serverSent") /\ UNCHANGED cfg /\ Current(c)
      /\ heap' = [heap EXCEPT ![cfg[c]].agentMessageID = Widget(c, "agent")]
      /\ post' = [post EXCEPT ![c]["server"] = heap[cfg[c]].channelID]
  BY DEF RecordAgent
<1>2. pc'[c] = "serverSent" /\ post'[c]["agent"] = post[c]["agent"]
  BY <1>1 DEF Goto, Typed, TypeOK
<1>3. cfg[c] \in ConfigRef
  BY <1>1 DEF Typed, FrameOK, Holding
<1>4. heap'[cfg[c]].commandID = heap[cfg[c]].commandID
  BY <1>1, <1>3 DEF Typed, TypeOK, ServerConfig
<1> QED
  BY <1>1, <1>2, <1>3, <1>4 DEF Widget

LEMMA ServerRecorded ==
  ASSUME Typed, NEW c \in Command, RecordServer(c)
  PROVE  pc[c] = "serverMade" /\ pc'[c] = "done" /\ Current(c)
  BY OthersFinish DEF RecordServer

LEMMA Abandoned ==
  ASSUME Typed, NEW c \in Command, NEW k \in Kind, Abandon(c, k),
         NEW m \in Posts(c, k)
  PROVE  m.by = c /\ pc[c] # "done" /\ pc'[c] = "done" /\ ~Current(c)
  BY WidgetIs, OthersFinish DEF Abandon, Posts, Made

LEMMA AgentGivenUp ==
  ASSUME Typed, NEW c \in Command, ServerFailed(c)
  PROVE  pc[c] = "serverFailed" /\ pc'[c] = "undo"
  BY DEF ServerFailed, Goto, Typed, TypeOK

LEMMA NextAuthors ==
  ASSUME Typed, AuthorsOK, [Next]_vars
  PROVE  AuthorsOK'
<1> SUFFICES ASSUME NEW m \in Message, Mentioned(m)', m.by \in Command
             PROVE  pc'[m.by] \in Past(m)
  BY DEF AuthorsOK, Past
<1>1. CASE Mentioned(m)
  BY <1>1, KnownPast
<1>2. ASSUME Spent(m)', ~Mentioned(m) PROVE pc'[m.by] \in Past(m)
  <2>1. ASSUME NEW c \in Command, Reuse(c), Records(cfg[c], m) PROVE FALSE
    BY <1>2, <2>1, WorkFrame DEF Work, Mentioned
  <2>2. ASSUME NEW c \in Command, ServerFailed(c), m = Widget(c, "agent")
        PROVE  pc'[m.by] \in Past(m)
    BY <2>2, WidgetIs, AgentGivenUp DEF Past, PostingServer
  <2>3. ASSUME NEW c \in Command, NEW k \in Kind, Abandon(c, k), m \in Posts(c, k)
        PROVE  pc'[m.by] \in Past(m)
    BY <2>3, Abandoned DEF Past
  <2> QED
    BY <1>2, <2>1, <2>2, <2>3, NewSpent DEF Mentioned
<1>3. ASSUME NEW r \in ConfigRef, Records(r, m)', ~Mentioned(m) PROVE pc'[m.by] \in Past(m)
  <2>1. CASE Restart
    BY <1>3, <2>1, RestartRecord DEF Mentioned
  <2>2. ASSUME NEW c \in Command, RecordAgent(c), m = Widget(c, "agent")
        PROVE  pc'[m.by] \in Past(m)
    BY <2>2, WidgetIs, AgentRecorded DEF Past, PostingServer
  <2>3. ASSUME NEW c \in Command, RecordServer(c), m = Widget(c, "server")
        PROVE  pc'[m.by] \in Past(m)
    BY <2>3, WidgetIs, ServerRecorded DEF Past, PostingServer
  <2> QED
    BY <1>3, <2>1, <2>2, <2>3, NewRecord DEF Mentioned
<1>4. ASSUME Stored(m)', ~Mentioned(m) PROVE \E r \in ConfigRef : Records(r, m)'
  BY <1>4, NewStored DEF Mentioned
<1>5. Spent(m)' \/ Stored(m)' \/ \E r \in ConfigRef : Records(r, m)'
  BY DEF Mentioned
<1> QED
  BY <1>1, <1>2, <1>3, <1>4, <1>5

\* What is recorded already, and by whom the object is owned.
LEMMA OwnerStays ==
  ASSUME Typed, OwnersOK, AuthorsOK, [Next]_vars, ~Restart,
         NEW m \in Message, NEW r \in ConfigRef, Records(r, m), Records(r, m)',
         NEW c \in Command, m.by = c, pc'[c] # "done"
  PROVE  pc[c] \in PostingServer /\ r = cfg'[c] /\ Current(c)' /\ m = Widget(c, "agent")'
<1>1. pc[c] # "done"
  BY PastStays
<1>2. r = cfg[c] /\ Current(c) /\ m = Widget(c, "agent")
  BY <1>1 DEF OwnersOK
<1>3. pc[c] \in PostingServer
  BY <1>1, <1>2, WidgetIs DEF AuthorsOK, Mentioned, Past
<1>4. UNCHANGED <<cfg[c], post[c]>>
  BY <1>3, PastStays
<1>5. heap \in [ConfigRef -> ServerConfig] /\ m # None
  BY NoMessage DEF Typed, TypeOK
<1>6. ASSUME NEW d \in Command, Insert(d) PROVE UNCHANGED heap[r]
  <2>1. heap' = [heap EXCEPT ![d] = Retarget(Blank, d)]
    BY <1>6 DEF Insert
  <2> QED
    BY <1>5, <2>1 DEF Retarget, Records
<1>7. ASSUME NEW d \in Command, Work(d) PROVE heap'[r].commandID = heap[r].commandID
  <2>1. cfg[d] \in ConfigRef /\ (r # cfg[d] => heap'[r] = heap[r])
    BY <1>7, WorkFrame
  <2>2. CASE r = cfg[d] /\ heap' = [heap EXCEPT ![cfg[d]] = Retarget(heap[cfg[d]], d)]
    BY <1>5, <2>2 DEF Retarget, Records
  <2>3. CASE r = cfg[d] /\ Current(d)
             /\ (AgentFailed(d) \/ Undo(d) \/ RecordServer(d))
    <3>1. d = c
      BY <1>2, <2>3 DEF Current
    <3> QED
      BY <2>3, <3>1, OthersFinish DEF AgentFailed, Undo, RecordServer
  <2>4. CASE r = cfg[d] /\ RecordAgent(d)
    BY <2>4, AgentRecorded
  <2>5. RecordServer(d) => Current(d)
    BY DEF RecordServer
  <2> QED
    BY <1>7, <2>1, <2>2, <2>3, <2>4, <2>5, WorkObject
<1>8. UNCHANGED heap \/ \E d \in Command : Insert(d) \/ Work(d)
  BY OtherSteps DEF vars, Issue, LookupFails, Find, Store
<1>9. heap'[r].commandID = heap[r].commandID
  BY <1>6, <1>7, <1>8
<1> QED
  BY <1>2, <1>3, <1>4, <1>9 DEF Current, Widget

LEMMA NextOwners ==
  ASSUME Typed, AuthorsOK, OwnersOK, [Next]_vars
  PROVE  OwnersOK'
<1> SUFFICES ASSUME NEW m \in Message, NEW r \in ConfigRef, Records(r, m)',
                    m.by \in Command, pc'[m.by] # "done"
             PROVE  r = cfg'[m.by] /\ Current(m.by)' /\ m = Widget(m.by, "agent")'
  BY DEF OwnersOK
<1>1. CASE Restart
  <2>1. pc'[m.by] \in PostingServer
    BY <1>1, RestartRecord, KnownPast DEF Mentioned, Past
  <2> QED
    BY <1>1, <2>1 DEF Restart, Running, Waiting, PostingServer
<1>2. CASE Records(r, m) /\ ~Restart
  BY <1>2, OwnerStays
<1>3. ASSUME NEW c \in Command, RecordAgent(c), m = Widget(c, "agent"), r = cfg[c]
      PROVE  r = cfg'[m.by] /\ Current(m.by)' /\ m = Widget(m.by, "agent")'
  <2>1. m.by = c
    BY <1>3, WidgetIs
  <2> QED
    BY <1>3, <2>1, AgentRecorded DEF Current
<1>4. ASSUME NEW c \in Command, RecordServer(c), m = Widget(c, "server") PROVE FALSE
  BY <1>4, WidgetIs, ServerRecorded
<1> QED
  BY <1>1, <1>2, <1>3, <1>4, NewRecord

\* What a command records was not known before.
LEMMA RecordsUnknown ==
  ASSUME Typed, AuthorsOK, NEW c \in Command, NEW m \in Message,
         \/ RecordAgent(c) /\ m = Widget(c, "agent")
         \/ RecordServer(c) /\ m = Widget(c, "server")
  PROVE  m.by = c /\ ~Mentioned(m) /\ pc[c] \in {"agentMade", "serverMade"} /\ Current(c)
<1>1. CASE RecordAgent(c) /\ m = Widget(c, "agent")
  BY <1>1, AgentRecorded, WidgetIs DEF AuthorsOK, Past, PostingServer
<1>2. CASE RecordServer(c) /\ m = Widget(c, "server")
  BY <1>2, ServerRecorded, WidgetIs DEF AuthorsOK, Past, PostingServer
<1> QED
  BY <1>1, <1>2

LEMMA NextUnique ==
  ASSUME Typed, AuthorsOK, UniqueOK, [Next]_vars
  PROVE  UniqueOK'
<1> SUFFICES ASSUME NEW m \in Message, NEW r \in ConfigRef, NEW s \in ConfigRef,
                    Records(r, m)', Records(s, m)'
             PROVE  r = s
  BY DEF UniqueOK
<1>1. CASE Restart
  BY <1>1, RestartRecord
<1> DEFINE New(q) == \E c \in Command :
                       /\ q = cfg[c]
                       /\ \/ RecordAgent(c) /\ m = Widget(c, "agent")
                          \/ RecordServer(c) /\ m = Widget(c, "server")
<1>2. ASSUME NEW q \in ConfigRef, Records(q, m)', ~Restart PROVE Records(q, m) \/ New(q)
  BY <1>2, NewRecord
<1>3. ASSUME NEW q \in ConfigRef, New(q) PROVE m.by \in Command /\ q = cfg[m.by] /\ ~Mentioned(m)
  BY <1>3, RecordsUnknown
<1>4. \A q \in ConfigRef : Records(q, m) => Mentioned(m)
  BY DEF Mentioned
<1> HIDE DEF New
<1> QED
  BY <1>1, <1>2, <1>3, <1>4 DEF UniqueOK

LEMMA UndoForgets ==
  ASSUME Typed, HiddenServer, NEW c \in Command, Undo(c), Current(c),
         NEW r \in ConfigRef, r = cfg[c], NEW m \in Message
  PROVE  ~Records(r, m)'
<1>1. cfg[c] \in ConfigRef /\ heap \in [ConfigRef -> ServerConfig] /\ c # None
  BY ConstantsAssumption, WorkFrame DEF Work, Typed, TypeOK, ConfigRef
<1>2. heap[cfg[c]].messageID = None
  BY <1>1 DEF HiddenServer, Current
<1>3. heap' = [heap EXCEPT ![cfg[c]] = Unbuilt(heap[cfg[c]])]
  BY DEF Undo, ReleaseCommand
<1>4. heap'[cfg[c]].agentMessageID = None /\ heap'[cfg[c]].messageID = None
  BY <1>1, <1>2, <1>3 DEF Unbuilt, ServerConfig
<1> QED
  BY <1>4, NoMessage DEF Records

LEMMA UndoIsNext ==
  ASSUME Typed, [Next]_vars, ~Restart, NEW c \in Command, pc[c] = "undo"
  PROVE  pc'[c] = "undo" \/ Undo(c)
<1>1. ASSUME NEW d \in Command, Work(d) PROVE pc'[c] = "undo" \/ Undo(c)
  <2>1. \A k \in Kind : "undo" \notin {Sent[k], Made[k]}
    BY DEF Sent, Made
  <2>2. CASE d = c
    BY <1>1, <2>1, <2>2
    DEF Work, Reuse, SaveWidget, SendAgent, AgentFailed, RecordAgent, ServerFailed,
        RecordServer, Purge, Posted, Refused, Abandon
  <2>3. CASE d # c
    BY <1>1, <2>3, WorkFrame DEF OthersKept
  <2> QED
    BY <2>2, <2>3
<1>2. ASSUME NEW d \in Command,
             \/ \E ch \in Channel : Issue(d, ch)
             \/ LookupFails(d) \/ Find(d) \/ Insert(d) \/ Store(d)
      PROVE  pc'[c] = "undo"
  <2>1. OthersKept(d) /\ pc[d] \in Early
    BY <1>2, OthersFinish, OthersGoto
    DEF Issue, LookupFails, Find, Insert, Store, Early, frameVars, Typed, TypeOK
  <2> QED
    BY <2>1 DEF OthersKept, Early
<1>3. UNCHANGED vars \/ UNCHANGED commandVars => UNCHANGED pc
  BY DEF vars, commandVars
<1>4. \/ UNCHANGED pc
      \/ \E d \in Command : \/ \E ch \in Channel : Issue(d, ch)
                            \/ LookupFails(d) \/ Find(d) \/ Insert(d) \/ Store(d)
      \/ \E d \in Command : Work(d)
  BY <1>3, OtherSteps
<1> QED
  BY <1>1, <1>2, <1>4

LEMMA NextSpent ==
  ASSUME Typed, HiddenServer, KnownOK, [Next]_vars
  PROVE  SpentOK'
<1> USE DEF KnownOK
<1> SUFFICES ASSUME NEW m \in Message, NEW r \in ConfigRef, Spent(m)', Records(r, m)'
             PROVE  m.by \in Command /\ pc'[m.by] = "undo"
  BY DEF SpentOK
<1>1. ~Restart
  BY NewSpent
<1>2. ASSUME NEW c \in Command, Reuse(c), r = cfg[c] PROVE FALSE
  <2>1. heap' = [heap EXCEPT ![r] = Retarget(heap[r], c)] /\ heap \in [ConfigRef -> ServerConfig]
    BY <1>2 DEF Reuse, Typed, TypeOK
  <2> QED
    BY <2>1, NoMessage DEF Retarget, Records
<1>3. CASE Records(r, m)
  <2>1. CASE Spent(m)
    <3>1. m.by \in Command /\ pc[m.by] = "undo"
      BY <1>3, <2>1 DEF SpentOK
    <3>2. r = cfg[m.by] /\ Current(m.by)
      BY <1>3, <3>1 DEF OwnersOK
    <3>3. ~Undo(m.by)
      BY <3>1, <3>2, UndoForgets
    <3> QED
      BY <1>1, <3>1, <3>3, UndoIsNext
  <2>2. ASSUME NEW c \in Command, Reuse(c), Records(cfg[c], m) PROVE FALSE
    <3>1. cfg[c] \in ConfigRef
      BY <2>2, WorkFrame DEF Work
    <3>2. r = cfg[c]
      BY <1>3, <2>2, <3>1 DEF UniqueOK
    <3> QED
      BY <1>2, <2>2, <3>2
  <2>3. ASSUME NEW c \in Command, ServerFailed(c), m = Widget(c, "agent")
        PROVE  m.by \in Command /\ pc'[m.by] = "undo"
    BY <2>3, WidgetIs, AgentGivenUp
  <2>4. ASSUME NEW c \in Command, NEW k \in Kind, Abandon(c, k), m \in Posts(c, k) PROVE FALSE
    BY <1>3, <2>4, Abandoned DEF OwnersOK
  <2> QED
    BY <2>1, <2>2, <2>3, <2>4, NewSpent
<1>4. ASSUME NEW c \in Command,
             \/ RecordAgent(c) /\ m = Widget(c, "agent")
             \/ RecordServer(c) /\ m = Widget(c, "server")
      PROVE  FALSE
  <2>1. m.by = c /\ ~Mentioned(m) /\ pc[c] \in {"agentMade", "serverMade"} /\ Current(c)
    BY <1>4, RecordsUnknown
  <2>2. ASSUME NEW d \in Command, Reuse(d), Records(cfg[d], m) PROVE FALSE
    BY <2>1, <2>2, WorkFrame DEF Work, Mentioned
  <2>3. ASSUME NEW d \in Command, ServerFailed(d), m = Widget(d, "agent") PROVE FALSE
    BY <2>1, <2>3, WidgetIs, AgentGivenUp
  <2>4. ASSUME NEW d \in Command, NEW k \in Kind, Abandon(d, k), m \in Posts(d, k) PROVE FALSE
    BY <2>1, <2>4, Abandoned
  <2> QED
    BY <2>1, <2>2, <2>3, <2>4, NewSpent DEF Mentioned
<1> QED
  BY <1>1, <1>3, <1>4, NewRecord

LEMMA NextKnown ==
  ASSUME Typed, HiddenServer, KnownOK, [Next]_vars
  PROVE  KnownOK'
  BY NextAuthors, NextOwners, NextUnique, NextSpent DEF KnownOK

LEMMA KnownInvariant == Spec => [](Typed /\ HiddenServer /\ KnownOK)
<1>1. Init => Typed /\ HiddenServer /\ KnownOK
  BY InitTyped, InitSync, InitKnown
<1>2. Typed /\ HiddenServer /\ KnownOK /\ [Next]_vars => (Typed /\ HiddenServer /\ KnownOK)'
  BY NextTyped, NextHidden, NextKnown
<1> QED
  BY <1>1, <1>2, PTL DEF Spec

\* Deletion events carry no mark of who deleted the message, and still a
\* configuration is only ever removed because of a user: whatever the bot
\* deletes itself, the object that the handler of its event looks at no longer
\* records it, or is being built.
THEOREM OnlyUsersEraseHolds == Spec => OnlyUsersErase
<1>1. ASSUME Typed, KnownOK, NEW h \in handling, Handle(h), cache' # cache
      PROVE  h.event.by = "user"
  <2> SUFFICES ASSUME h.event.by # "user" PROVE FALSE
    OBVIOUS
  <2> DEFINE m == h.event.id
  <2>1. h.cfg \in ConfigRef /\ h.event.kind = "message" /\ h.event.by = "bot" /\ m \in Message
    <3>1. h \in [event : Event, cfg : ConfigRef]
      BY <1>1 DEF Typed, TypeOK
    <3> QED
      BY <3>1 DEF Event
  <2>2. Concerns(h.event, heap[h.cfg])
    BY <1>1 DEF Handle
  <2>3. heap[h.cfg].commandID = None /\ Records(h.cfg, m) /\ Spent(m)
    BY <2>1, <2>2 DEF Concerns, Records, Spent
  <2>4. m.by \in Command /\ pc[m.by] = "undo"
    BY <1>1, <2>1, <2>3 DEF KnownOK, SpentOK
  <2>5. h.cfg = cfg[m.by] /\ Current(m.by)
    BY <1>1, <2>1, <2>3, <2>4 DEF KnownOK, OwnersOK
  <2> QED
    BY <2>3, <2>4, <2>5, ConstantsAssumption DEF Current, ConfigRef
<1>2. Typed /\ KnownOK /\ [Next]_vars =>
        [\A h \in handling : Handle(h) /\ cache' # cache => h.event.by = "user"]_vars
  BY <1>1
<1> QED
  BY <1>2, KnownInvariant, PTL DEF Spec, OnlyUsersErase

-----------------------------------------------------------------------------
(***************************************************************************)
(* Messages in Discord.  A running command answers for what it posted, and *)
(* for the previous widgets it still has to delete; the configuration in   *)
(* force for what it records.  When the process restarts with no command   *)
(* running, what is in force is loaded again: nothing belongs to a command *)
(* that does not run, so the collection holds all of it.                   *)
(***************************************************************************)
PurgeOK == \A c \in Command : pc[c] \notin {"saving", "purge"} => purge[c] = NoWidgets

\* Where the command stands whose message of kind k is in Discord.
Out(k) == IF k = "agent"
          THEN {"agentMade", "serverSent", "serverMade", "serverFailed", "done"}
          ELSE {"serverMade", "done"}

LiveOK ==
    \A m \in live \ left : m.by \in Command =>
        /\ pc[m.by] \in Out(m.kind)
        /\ pc[m.by] # "done" => m = Widget(m.by, m.kind)

\* A configuration belongs to a command that is at work on it, unless a database
\* call threw.
OwnedBy(r, c) == heap[r].commandID = c => pc[c] \in Owning /\ cfg[c] = r

OwnersRun == "dbError" \notin incident => \A r \in ConfigRef, c \in Command : OwnedBy(r, c)

LEMMA NoneToPurge ==
  ASSUME Typed, NEW c \in Command, \A k \in Kind : purge[c][k] = None
  PROVE  purge[c] = NoWidgets
<1>1. purge[c] \in [Kind -> Optional(Message)]
  BY DEF Typed, TypeOK
<1> QED
  BY <1>1 DEF NoWidgets

LEMMA NextPurge ==
  ASSUME Typed, PurgeOK, [Next]_vars
  PROVE  PurgeOK'
<1>1. ASSUME NEW c \in Command, OthersKept(c),
             pc'[c] \in {"saving", "purge"} \/ purge'[c] = NoWidgets
      PROVE  PurgeOK'
  BY <1>1 DEF PurgeOK, OthersKept, NoWidgets
<1>2. CASE UNCHANGED <<pc, purge>>
  BY <1>2 DEF PurgeOK, NoWidgets
<1>3. ASSUME NEW c \in Command, Finish(c) PROVE PurgeOK'
  BY <1>1, <1>3, OthersFinish
<1>4. ASSUME NEW c \in Command, NEW ch \in Channel, Issue(c, ch) PROVE PurgeOK'
  <2>1. OthersKept(c) /\ pc[c] = "idle" /\ purge' = purge
    BY <1>4, OthersGoto DEF Issue, Typed, TypeOK
  <2> QED
    BY <1>1, <2>1 DEF PurgeOK
<1>5. ASSUME NEW c \in Command, Find(c) PROVE PurgeOK'
  <2>1. OthersKept(c) /\ pc[c] = "lookup" /\ purge' = purge
    BY <1>5, OthersGoto DEF Find, Typed, TypeOK
  <2> QED
    BY <1>1, <2>1 DEF PurgeOK
<1>6. ASSUME NEW c \in Command, Insert(c) \/ Store(c) PROVE PurgeOK'
  <2>1. CASE UNCHANGED frameVars /\ (Goto(c, "store") \/ Goto(c, "purge"))
    <3>1. OthersKept(c) /\ pc[c] \in {"create", "store"} /\ purge' = purge
      BY <1>6, <2>1, OthersGoto DEF Insert, Store, frameVars
    <3> QED
      BY <1>1, <3>1 DEF PurgeOK
  <2> QED
    BY <1>3, <1>6, <2>1 DEF Insert, Store
<1>7. ASSUME NEW c \in Command, Work(c) PROVE PurgeOK'
  <2>1. OthersKept(c)
    BY <1>7, WorkFrame
  <2>2. CASE Reuse(c) \/ SaveWidget(c)
    <3>1. Finish(c) \/ pc'[c] \in {"saving", "purge"}
      BY <2>2 DEF Reuse, SaveWidget, Goto, Typed, TypeOK
    <3> QED
      BY <1>1, <1>3, <2>1, <3>1
  <2>3. ASSUME NEW k \in Kind, Purge(c, k) PROVE PurgeOK'
    BY <1>1, <2>1, <2>3 DEF Purge
  <2>4. CASE SendAgent(c)
    BY <1>1, <2>1, <2>4, NoneToPurge DEF SendAgent
  <2>5. CASE \/ AgentFailed(c) \/ Undo(c) \/ RecordServer(c)
             \/ \E k \in Kind : Abandon(c, k)
    BY <1>3, <2>5 DEF AgentFailed, Undo, RecordServer, Abandon
  <2>6. CASE RecordAgent(c) \/ ServerFailed(c) \/ \E k \in Kind : Posted(c, k) \/ Refused(c, k)
    <3>1. pc[c] \notin {"saving", "purge"} /\ purge' = purge
      <4>1. \A k \in Kind : Sent[k] \notin {"saving", "purge"}
        BY DEF Sent
      <4> QED
        BY <2>6, <4>1 DEF RecordAgent, ServerFailed, Posted, Refused, frameVars
    <3> QED
      BY <1>1, <2>1, <3>1 DEF PurgeOK
  <2> QED
    BY <1>7, <2>2, <2>3, <2>4, <2>5, <2>6 DEF Work
<1>8. CASE Restart
  BY <1>8 DEF Restart, PurgeOK, NoWidgets
<1>9. UNCHANGED vars \/ UNCHANGED commandVars => UNCHANGED <<pc, purge>>
  BY DEF vars, commandVars, frameVars
<1> QED
  BY <1>2, <1>3, <1>4, <1>5, <1>6, <1>7, <1>8, <1>9, OtherSteps DEF LookupFails

\* A command that ends does not keep the configuration.
LEMMA EndReleases ==
  ASSUME Typed, NEW c \in Command, Work(c), pc'[c] = "done", "dbError" \notin incident'
  PROVE  heap'[cfg[c]].commandID # c
<1>1. cfg[c] \in ConfigRef /\ heap \in [ConfigRef -> ServerConfig] /\ c # None
  BY WorkFrame, ConstantsAssumption DEF Typed, TypeOK, ConfigRef
<1>2. CASE AgentFailed(c) \/ Undo(c)
  BY <1>1, <1>2
  DEF AgentFailed, Undo, ReleaseCommand, Current, Unbuilt, ServerConfig
<1>3. CASE RecordServer(c)
  BY <1>1, <1>3 DEF RecordServer, ServerConfig
<1>4. CASE \E k \in Kind : Abandon(c, k)
  BY <1>4 DEF Abandon, Current
<1>5. ASSUME NEW label, Goto(c, label) PROVE label = "done"
  BY <1>5 DEF Goto, Typed, TypeOK
<1>6. ~(Reuse(c) \/ SaveWidget(c))
  BY <1>5 DEF Reuse, SaveWidget, Note
<1>7. ~(SendAgent(c) \/ RecordAgent(c) \/ ServerFailed(c))
  BY <1>5 DEF SendAgent, RecordAgent, ServerFailed
<1>8. ASSUME NEW k \in Kind, Purge(c, k) \/ Posted(c, k) \/ Refused(c, k) PROVE FALSE
  BY <1>5, <1>8 DEF Purge, Posted, Refused, Made, Failed
<1> QED
  BY <1>2, <1>3, <1>4, <1>6, <1>7, <1>8 DEF Work

LEMMA NextOwned ==
  ASSUME Typed, OwnersRun, [Next]_vars
  PROVE  OwnersRun'
<1> SUFFICES ASSUME "dbError" \notin incident', NEW r \in ConfigRef, NEW c \in Command
             PROVE  OwnedBy(r, c)'
  BY DEF OwnersRun
<1>0. c # None /\ Busy \subseteq Owning
  BY ConstantsAssumption DEF ConfigRef, Busy, Owning, Holding
<1>1. "dbError" \notin incident
  BY DEF Next, Continue, vars, commandVars, discordVars, Issue, LookupFails, Find, Insert,
         Store, Reuse, SaveWidget, Purge, SendAgent, Posted, Refused, AgentFailed,
         RecordAgent, ServerFailed, Undo, RecordServer, Abandon, UserDeletesMessage,
         UserDeletesChannel, Deliver, Miss, Handle, Restart, Note
<1>2. OwnedBy(r, c)
  BY <1>1 DEF OwnersRun
<1>3. CASE UNCHANGED <<pc[c], cfg[c], heap[r]>>
  BY <1>2, <1>3 DEF OwnedBy
<1>4. ASSUME NEW d \in Command, OthersKept(d), d # c, heap'[r] = heap[r] PROVE OwnedBy(r, c)'
  BY <1>3, <1>4 DEF OthersKept
<1>5. ASSUME NEW d \in Command,
             (\E ch \in Channel : Issue(d, ch)) \/ LookupFails(d) \/ Find(d)
      PROVE  OwnedBy(r, c)'
  <2>1. OthersKept(d) /\ pc[d] \in {"idle", "lookup"} /\ heap' = heap
    BY <1>5, OthersFinish, OthersGoto DEF Issue, LookupFails, Find, Typed, TypeOK
  <2>2. CASE d = c
    BY <1>2, <2>1, <2>2 DEF OwnedBy, Owning, Holding
  <2> QED
    BY <1>4, <2>1, <2>2
<1>6. ASSUME NEW d \in Command, Insert(d) PROVE OwnedBy(r, c)'
  <2>1. /\ heap' = [heap EXCEPT ![d] = Retarget(Blank, d)]
        /\ heap \in [ConfigRef -> ServerConfig] /\ cfg[d] = d /\ pc[d] = "create"
        /\ Goto(d, "store") /\ UNCHANGED frameVars
    BY <1>6 DEF Insert, Typed, TypeOK, FrameOK
  <2>2. OthersKept(d) /\ pc'[d] = "store" /\ cfg'[d] = d
    BY <2>1, OthersGoto DEF frameVars
  <2>3. CASE r = d
    <3>1. heap'[r].commandID = d
      BY <2>1, <2>3 DEF Retarget
    <3> QED
      BY <2>2, <2>3, <3>1 DEF OwnedBy, Owning, Holding
  <2>4. CASE r # d
    <3>1. heap'[r] = heap[r]
      BY <2>1, <2>4
    <3>2. CASE d = c
      BY <1>2, <2>1, <3>1, <3>2 DEF OwnedBy, Owning, Holding
    <3> QED
      BY <1>4, <2>2, <3>1, <3>2
  <2> QED
    BY <2>3, <2>4
<1>7. ASSUME NEW d \in Command, Store(d) PROVE OwnedBy(r, c)'
  <2>1. OthersKept(d) /\ pc'[d] = "purge" /\ cfg' = cfg /\ heap' = heap
    BY <1>7, OthersGoto DEF Store, frameVars
  <2>2. CASE d = c
    BY <1>2, <2>1, <2>2 DEF OwnedBy, Owning, Holding
  <2> QED
    BY <1>4, <2>1, <2>2
<1>8. ASSUME NEW d \in Command, Work(d) PROVE OwnedBy(r, c)'
  <2>1. CASE d # c
    <3>1. heap'[r] = heap[r] \/ heap'[r].commandID # c
      BY <1>0, <1>8, <2>1, WorkObject
    <3> QED
      BY <1>4, <1>8, <2>1, <3>1, WorkFrame DEF OwnedBy
  <2>2. ASSUME d = c, heap'[r].commandID = c PROVE pc'[c] \in Owning /\ cfg'[c] = r
    <3>1. r = cfg[c]
      BY <1>2, <1>8, <2>2, WorkFrame DEF OwnedBy
    <3>2. pc'[c] # "done"
      BY <1>8, <2>2, <3>1, EndReleases
    <3> QED
      BY <1>0, <1>8, <2>2, <3>1, <3>2, WorkFrame
  <2> QED
    BY <2>1, <2>2 DEF OwnedBy
<1>9. CASE Restart
  BY <1>0, <1>9 DEF Restart, FromDocument, Blank, OwnedBy
<1>10. UNCHANGED vars \/ UNCHANGED <<commandVars, heap>> => UNCHANGED <<pc[c], cfg[c], heap[r]>>
  BY DEF vars, commandVars, frameVars
<1> QED
  BY <1>3, <1>5, <1>6, <1>7, <1>8, <1>9, <1>10, OtherSteps

\* What the bot asks Discord to delete is deleted or given up.
LEMMA BotDeletesAll ==
  ASSUME NEW M, BotDeletes(M), NEW m \in M
  PROVE  m \notin (live \ left)'
  BY DEF BotDeletes

\* The ways a message gets into Discord.
LEMMA NewLive ==
  ASSUME [Next]_vars, NEW m \in (live \ left)', m \notin live \ left
  PROVE  \E c \in Command, k \in Kind : Posted(c, k) /\ m = Widget(c, k)
<1>1. ASSUME NEW c \in Command, NEW k \in Kind, Posted(c, k), m \notin live
      PROVE  m = Widget(c, k)
  BY <1>1 DEF Posted
<1>2. ASSUME NEW c \in Command, NEW k \in Kind, Refused(c, k) PROVE m \in live \ left
  BY <1>2 DEF Refused
<1>3. ASSUME NEW M, BotDeletes(M) PROVE m \in live \ left
  BY <1>3 DEF BotDeletes
<1>4. CASE live' \subseteq live /\ left \subseteq left'
  BY <1>4
<1>5. ASSUME NEW c \in Command, Continue(c)
      PROVE  \/ UNCHANGED <<live, left>>
             \/ \E M : BotDeletes(M)
             \/ \E k \in Kind : Refused(c, k) \/ (Posted(c, k) /\ left' = left)
  BY <1>5
  DEF Continue, discordVars, LookupFails, Find, Insert, Store, Reuse, SaveWidget, Purge,
      SendAgent, Posted, AgentFailed, RecordAgent, ServerFailed, Undo, RecordServer, Abandon
<1>6. \/ \E c \in Command : Continue(c)
      \/ live' \subseteq live /\ left \subseteq left'
  BY DEF Next, vars, discordVars, Issue, UserDeletesMessage, UserDeletesChannel, Deliver,
         Miss, Handle, Restart
<1>7. CASE m \in live
  <2>1. ASSUME m \in left PROVE m \in left'
    <3>1. ASSUME NEW M, BotDeletes(M) PROVE left \subseteq left'
      BY <3>1 DEF BotDeletes
    <3>2. ASSUME NEW c \in Command, NEW k \in Kind, Refused(c, k) PROVE left \subseteq left'
      BY <3>2 DEF Refused
    <3> QED
      BY <2>1, <3>1, <3>2, <1>5, <1>6
  <2> QED
    BY <1>7, <2>1
<1> QED
  BY <1>1, <1>2, <1>3, <1>4, <1>5, <1>6, <1>7

LEMMA LiveStays ==
  ASSUME Typed, LiveOK, [Next]_vars, NEW m \in live \ left, m \in (live \ left)',
         NEW c \in Command, m.by = c
  PROVE  pc'[c] \in Out(m.kind) /\ (pc'[c] # "done" => m = Widget(c, m.kind)')
<1> DEFINE Goal == pc'[c] \in Out(m.kind) /\ (pc'[c] # "done" => m = Widget(c, m.kind)')
<1> SUFFICES Goal
  OBVIOUS
<1>0. /\ pc[c] \in Out(m.kind) /\ (pc[c] # "done" => m = Widget(c, m.kind))
      /\ m.kind \in Kind /\ m \in Message
  BY DEF LiveOK, Typed, TypeOK, Message
<1>1. ASSUME UNCHANGED <<pc[c], post[c]>> PROVE Goal
  BY <1>0, <1>1 DEF Widget
<1>2. CASE pc'[c] = "done"
  BY <1>2 DEF Out
<1>3. ASSUME NEW d \in Command, OthersKept(d), d # c PROVE Goal
  BY <1>1, <1>3 DEF OthersKept
<1>4. ASSUME NEW d \in Command,
             \/ \E ch \in Channel : Issue(d, ch)
             \/ LookupFails(d) \/ Find(d) \/ Insert(d) \/ Store(d)
      PROVE  Goal
  <2>1. OthersKept(d) /\ pc[d] \in Early
    BY <1>4, OthersFinish, OthersGoto
    DEF Issue, LookupFails, Find, Insert, Store, Early, frameVars, Typed, TypeOK
  <2>2. d # c
    BY <1>0, <2>1 DEF Early, Out
  <2> QED
    BY <1>3, <2>1, <2>2
<1>5. CASE Work(c)
  <2>1. ASSUME Reuse(c) \/ SaveWidget(c) \/ SendAgent(c) \/ \E k \in Kind : Purge(c, k)
        PROVE  FALSE
    <3>1. pc[c] \in {"reuse", "saving", "purge"}
      BY <2>1 DEF Reuse, SaveWidget, SendAgent, Purge
    <3> QED
      BY <1>0, <3>1 DEF Out
  <2>2. CASE \/ AgentFailed(c) \/ Undo(c) \/ RecordServer(c)
             \/ \E k \in Kind : Abandon(c, k)
    BY <1>2, <2>2, OthersFinish DEF AgentFailed, Undo, RecordServer, Abandon
  <2>3. CASE RecordAgent(c)
    <3>1. pc[c] = "agentMade" /\ pc'[c] = "serverSent" /\ Widget(c, "agent")' = Widget(c, "agent")
      BY <2>3, AgentRecorded
    <3>2. m.kind = "agent"
      BY <1>0, <3>1 DEF Out
    <3> QED
      BY <1>0, <3>1, <3>2 DEF Out
  <2>4. ASSUME ServerFailed(c) PROVE FALSE
    <3>1. pc[c] = "serverFailed" /\ BotDeletes({Widget(c, "agent")})
      BY <2>4 DEF ServerFailed
    <3>2. m.kind = "agent"
      BY <1>0, <3>1 DEF Out
    <3>3. m \in {Widget(c, "agent")}
      BY <1>0, <3>1, <3>2
    <3> QED
      BY <3>1, <3>3, BotDeletesAll
  <2>5. ASSUME NEW k \in Kind, Posted(c, k) \/ Refused(c, k) PROVE Goal
    <3>1. /\ pc[c] = Sent[k] /\ (pc'[c] = Made[k] \/ pc'[c] = Failed[k]) /\ UNCHANGED post
      BY <2>5 DEF Posted, Refused, frameVars, Goto, Typed, TypeOK
    <3>2. k = "server" /\ m.kind = "agent"
      BY <1>0, <3>1 DEF Sent, Out
    <3>3. pc'[c] \in {"serverMade", "serverFailed"}
      BY <3>1, <3>2 DEF Made, Failed
    <3> QED
      BY <1>0, <3>1, <3>2, <3>3 DEF Sent, Out, Widget
  <2> QED
    BY <1>5, <2>1, <2>2, <2>3, <2>4, <2>5 DEF Work
<1>6. ASSUME NEW d \in Command, Work(d) PROVE Goal
  BY <1>3, <1>5, <1>6, WorkFrame
<1>7. CASE Restart
  <2>1. pc'[c] = "done"
    BY <1>0, <1>7 DEF Restart, Running, Waiting, Out
  <2> QED
    BY <1>2, <2>1
<1>8. UNCHANGED vars \/ UNCHANGED commandVars => UNCHANGED <<pc, post>>
  BY DEF vars, commandVars, frameVars
<1>9. CASE UNCHANGED <<pc, post>>
  BY <1>1, <1>9
<1> HIDE DEF Goal
<1> QED
  BY <1>4, <1>6, <1>7, <1>8, <1>9, OtherSteps

LEMMA NextLive ==
  ASSUME Typed, LiveOK, [Next]_vars
  PROVE  LiveOK'
<1> SUFFICES ASSUME NEW m \in (live \ left)', m.by \in Command
             PROVE  pc'[m.by] \in Out(m.kind) /\ (pc'[m.by] # "done" => m = Widget(m.by, m.kind)')
  BY DEF LiveOK, Out
<1>1. CASE m \in live \ left
  BY <1>1, LiveStays
<1>2. ASSUME NEW c \in Command, NEW k \in Kind, Posted(c, k), m = Widget(c, k)
      PROVE  pc'[m.by] \in Out(m.kind) /\ (pc'[m.by] # "done" => m = Widget(m.by, m.kind)')
  <2>1. m.by = c /\ m.kind = k
    BY <1>2, WidgetIs
  <2>2. pc'[c] = Made[k] /\ UNCHANGED post
    BY <1>2 DEF Posted, frameVars, Goto, Typed, TypeOK
  <2>3. Made[k] \in Out(k)
    BY DEF Made, Out
  <2> QED
    BY <1>2, <2>1, <2>2, <2>3 DEF Widget
<1> QED
  BY <1>1, <1>2, NewLive

-----------------------------------------------------------------------------
(* Nobody stops answering for a message that is still there. *)

Guarded == Coherent /\ FreshOK /\ DraftOK /\ PurgeOK /\ LiveOK /\ OwnersRun

LEMMA InitTracked == Init => PurgeOK /\ LiveOK /\ OwnersRun /\ NoLeakedWidget
<1> SUFFICES ASSUME Init PROVE PurgeOK /\ LiveOK /\ OwnersRun /\ NoLeakedWidget
  OBVIOUS
<1>1. PurgeOK
  BY DEF Init, PurgeOK
<1>2. CASE live = {} /\ heap = [r \in ConfigRef |-> Blank]
  BY <1>1, <1>2, ConstantsAssumption
  DEF LiveOK, OwnersRun, OwnedBy, Blank, NoLeakedWidget, ConfigRef
<1>3. ASSUME NEW ch \in Channel, cache = Boot,
             heap = [[r \in ConfigRef |-> Blank] EXCEPT ![Boot] = BootConfig(ch)],
             live = {BootConfig(ch).agentMessageID, BootConfig(ch).messageID}
      PROVE  LiveOK /\ OwnersRun /\ NoLeakedWidget
  <2>1. \A r \in ConfigRef : heap[r].commandID = None
    BY <1>3 DEF BootConfig, Blank
  <2>2. heap[Boot] = BootConfig(ch) /\ Boot \in ConfigRef
    BY <1>3 DEF ConfigRef
  <2>3. \A m \in live : /\ m.by = Boot /\ m \in Message
                        /\ m \in {heap[Boot].agentMessageID, heap[Boot].messageID}
    BY <1>3, <2>2, BootMessage DEF BootConfig
  <2>4. LiveOK /\ OwnersRun
    BY <2>1, <2>3, ConstantsAssumption DEF LiveOK, OwnersRun, OwnedBy, ConfigRef
  <2>5. NoLeakedWidget
    BY <1>3, <2>3, NoMessage, ConstantsAssumption
    DEF NoLeakedWidget, Tracked, WidgetsOf, ConfigRef
  <2> QED
    BY <2>4, <2>5
<1> QED
  BY <1>1, <1>2, <1>3 DEF Init

\* A command that goes on answers for what it posted and has to delete.
LEMMA RunningTracks ==
  ASSUME NEW m, NEW c \in Command, Running(c)', m.by = c \/ \E k \in Kind : purge'[c][k] = m
  PROVE  Tracked(m)'
  BY DEF Tracked

\* As long as memory and the collection have had no reason to differ, a handler
\* that writes its object holds the one in force.
LEMMA NoteIntact ==
  ASSUME NEW ok \in BOOLEAN, NEW r, Note(ok, r), Intact'
  PROVE  ok /\ r = cache
<1>1. "forked" \notin incident' /\ "dbError" \notin incident'
  BY DEF Intact
<1> QED
  BY <1>1 DEF Note

\* The configuration in force stops recording a message only when a later command
\* takes it over, and then that command deletes the message.
LEMMA ObjectTracked ==
  ASSUME Guarded, Intact', NEW c \in Command, Work(c), cache # None, cache = cfg[c],
         NEW m \in live \ left, m \in WidgetsOf(heap[cache]), m \notin WidgetsOf(heap'[cache])
  PROVE  Tracked(m)'
<1> USE DEF Guarded, Coherent
<1>0. /\ heap \in [ConfigRef -> ServerConfig] /\ m \in Message /\ m # None
      /\ cache \in ConfigRef
      /\ heap[cache].agentMessageID = m \/ heap[cache].messageID = m
  BY NoMessage DEF Typed, TypeOK, WidgetsOf
<1>1. CASE Reuse(c)
  <2> DEFINE old == heap[cache]
             Deletable(n) == IF n # None /\ n.channel = old.channelID THEN n ELSE None
  <2>1. "dbError" \notin incident'
    BY DEF Intact
  <2>2. /\ Goto(c, "saving") /\ Note(TRUE, cache)
        /\ purge' = [purge EXCEPT ![c] = [agent |-> Deletable(old.agentMessageID),
                                         server |-> Deletable(old.messageID)]]
    BY <1>1, <2>1 DEF Reuse, Note
  <2>3. m.channel = old.channelID
    <3>1. "forked" \notin incident /\ "dbError" \notin incident
      BY <2>2 DEF Intact, Note
    <3>2. "interrupted" \notin incident
      BY <2>2 DEF Intact, Note
    <3>3. Intact
      BY <3>1, <3>2 DEF Intact, Incident, Typed, TypeOK
    <3> QED
      BY <1>0, <3>3 DEF WidgetInChannel, Consistent
  <2>4. Deletable(m) = m
    BY <1>0, <2>3
  <2>5. pc'[c] = "saving" /\ purge'[c] = [agent |-> Deletable(old.agentMessageID),
                                        server |-> Deletable(old.messageID)]
    BY <2>2 DEF Goto, Typed, TypeOK
  <2> HIDE DEF Deletable
  <2>6. pc'[c] = "saving" /\ \E k \in Kind : purge'[c][k] = m
    BY <1>0, <2>4, <2>5
  <2> QED
    BY <2>6, RunningTracks DEF Running, Waiting
<1>2. CASE Current(c)
  <2>1. heap[cache].messageID = None /\ pc[c] \in Holding /\ m = heap[cache].agentMessageID
    BY <1>0, <1>2, WorkFrame, ConstantsAssumption DEF HiddenServer, Current, ConfigRef
  <2>2. CASE AgentFailed(c) \/ RecordAgent(c)
    BY <1>0, <1>2, <2>1, <2>2
    DEF AgentFailed, RecordAgent, DraftOK, DraftAt, Owning, Holding, PostingServer
  <2>3. CASE Undo(c)
    <3>1. pc[c] = "undo" /\ m = Widget(c, "agent")
      BY <1>2, <2>1, <2>3 DEF Undo, DraftOK, DraftAt, Owning, Holding, PostingServer
    <3> QED
      BY <3>1, WidgetIs DEF LiveOK, Out
  <2>4. CASE RecordServer(c)
    <3>1. heap' = [heap EXCEPT ![cache].messageID = Widget(c, "server"),
                              ![cache].commandID = None]
      BY <2>1, <2>4 DEF RecordServer
    <3>2. heap'[cache].agentMessageID = m
      BY <1>0, <2>1, <3>1 DEF ServerConfig
    <3> QED
      BY <1>0, <3>2 DEF WidgetsOf
  <2>5. heap' # heap
    OBVIOUS
  <2> QED
    BY <1>1, <2>2, <2>3, <2>4, <2>5, WorkObject
<1>3. heap' # heap
  OBVIOUS
<1>4. RecordAgent(c) \/ RecordServer(c) => Current(c)
  BY DEF RecordAgent, RecordServer
<1> QED
  BY <1>1, <1>2, <1>3, <1>4, WorkObject

\* A restart that cuts no command short keeps what the configuration records.
LEMMA RestartTracked ==
  ASSUME Guarded, Intact, Intact', Restart, cache # None,
         NEW m \in live \ left, m \in WidgetsOf(heap[cache])
  PROVE  Tracked(m)'
<1> USE DEF Guarded, Coherent
<1>1. \A c \in Command : pc[c] \in Waiting
  BY DEF Restart, Running, Intact
<1>2. Synced /\ "dbError" \notin incident
  BY DEF Intact, Synced
<1>3. heap[cache] \in ServerConfig /\ cache \in ConfigRef
  BY DEF Typed, TypeOK
<1>4. heap[cache].commandID = None
  <2>1. \A c \in Command : heap[cache].commandID # c
    BY <1>1, <1>2, <1>3 DEF OwnersRun, OwnedBy, Owning, Holding, Waiting
  <2> QED
    BY <1>3, <2>1 DEF ServerConfig
<1> DEFINE d == Saved(heap[cache])
<1>5. db = <<d>>
  BY <1>1, <1>2 DEF InSync, Expected, Waiting, Writing
<1>6. /\ d \in Document
      /\ d.agentMessageID = heap[cache].agentMessageID
      /\ d.messageID = heap[cache].messageID
  BY <1>3, <1>4, Documented
<1> HIDE DEF d
<1>7. heap'[Boot] = FromDocument(d) /\ cache' = Boot /\ Boot # None
  BY <1>5, ConstantsAssumption DEF Restart, ConfigRef
<1>8. WidgetsOf(heap'[cache']) = WidgetsOf(heap[cache])
  BY <1>6, <1>7, Loaded DEF WidgetsOf
<1> QED
  BY <1>7, <1>8 DEF Tracked

LEMMA RecordTracked ==
  ASSUME Guarded, [Next]_vars, Intact', cache # None,
         NEW m \in live \ left, m \in (live \ left)', m \in WidgetsOf(heap[cache])
  PROVE  Tracked(m)'
<1> USE DEF Guarded, Coherent
<1>0. heap \in [ConfigRef -> ServerConfig] /\ cache \in ConfigRef
  BY DEF Typed, TypeOK
<1>1. CASE cache' = cache /\ heap'[cache] = heap[cache]
  BY <1>1 DEF Tracked
<1>2. ASSUME NEW c \in Command, Insert(c) PROVE Tracked(m)'
  <2>1. cache # c /\ cache' = cache
    BY <1>2 DEF Insert, FreshOK, Early
  <2>2. heap'[cache] = heap[cache]
    BY <1>0, <1>2, <2>1 DEF Insert
  <2> QED
    BY <1>1, <2>1, <2>2
<1>3. ASSUME NEW c \in Command, Store(c) PROVE FALSE
  BY <1>3 DEF Store, Intact
<1>4. ASSUME NEW c \in Command, Work(c) PROVE Tracked(m)'
  <2>1. cache' = cache /\ (cache # cfg[c] => heap'[cache] = heap[cache])
    BY <1>0, <1>4, WorkFrame
  <2>2. CASE m \in WidgetsOf(heap'[cache])
    BY <2>1, <2>2 DEF Tracked
  <2> QED
    BY <1>1, <1>4, <2>1, <2>2, ObjectTracked
<1>5. ASSUME NEW h \in handling, Handle(h) PROVE Tracked(m)'
  <2>1. ASSUME cache' # cache PROVE FALSE
    <3>1. Note(TRUE, h.cfg) /\ left' = left \cup WidgetsOf(heap[h.cfg])
      BY <1>5, <2>1 DEF Handle
    <3>2. h.cfg = cache
      BY <3>1, NoteIntact
    <3> QED
      BY <3>1, <3>2
  <2> QED
    BY <1>1, <1>5, <2>1 DEF Handle
<1>6. CASE Restart
  BY <1>6, IntactStays, RestartTracked
<1>7. UNCHANGED vars => UNCHANGED <<heap, cache>>
  BY DEF vars
<1>8. \A c \in Command : LookupFails(c) \/ Find(c) \/ (\E ch \in Channel : Issue(c, ch)) =>
        UNCHANGED <<heap, cache>>
  BY DEF LookupFails, Find, Issue
<1> QED
  BY <1>1, <1>2, <1>3, <1>4, <1>5, <1>6, <1>7, <1>8, OtherSteps

\* A command ends with what it posted recorded or deleted ...
LEMMA AuthorTracked ==
  ASSUME Guarded, NEW c \in Command, Work(c), pc'[c] = "done", Intact',
         NEW m \in live \ left, m \in (live \ left)', m.by = c
  PROVE  Tracked(m)'
<1> USE DEF Guarded, Coherent
<1>0. /\ pc[c] \in Out(m.kind) /\ pc[c] # "done" /\ m = Widget(c, m.kind) /\ m.kind \in Kind
      /\ heap \in [ConfigRef -> ServerConfig] /\ cfg[c] \in ConfigRef
      /\ m # None
  BY WorkFrame, NoMessage DEF LiveOK, Typed, TypeOK, Message, Holding
<1>1. CASE RecordServer(c)
  <2>1. /\ pc[c] = "serverMade" /\ Current(c) /\ cache' = cache
        /\ heap' = [heap EXCEPT ![cfg[c]].messageID = Widget(c, "server"),
                                ![cfg[c]].commandID = None]
        /\ \E ok \in BOOLEAN : Note(ok, cfg[c])
    BY <1>1 DEF RecordServer
  <2>2. heap[cfg[c]].agentMessageID = Widget(c, "agent")
    BY <2>1 DEF DraftOK, DraftAt, Owning, Holding, PostingServer
  <2>3. /\ heap'[cfg[c]].agentMessageID = Widget(c, "agent")
        /\ heap'[cfg[c]].messageID = Widget(c, "server")
    BY <1>0, <2>1, <2>2 DEF ServerConfig
  <2>4. cfg[c] = cache /\ cache # None
    BY <1>0, <2>1, NoteIntact, ConstantsAssumption
  <2>5. m \in WidgetsOf(heap'[cache])
    BY <1>0, <2>3, <2>4 DEF WidgetsOf
  <2> QED
    BY <2>1, <2>4, <2>5 DEF Tracked
<1>2. ASSUME NEW k \in Kind, Abandon(c, k) PROVE FALSE
  <2>1. pc[c] = Made[k] /\ BotDeletes(Posts(c, k))
    BY <1>2 DEF Abandon
  <2>2. m.kind = "agent" \/ k = "server"
    BY <1>0, <2>1 DEF Made, Out
  <2>3. m \in Posts(c, k)
    BY <1>0, <2>2 DEF Posts
  <2> QED
    BY <2>1, <2>3, BotDeletesAll
<1>3. pc[c] \in {"agentMade", "serverSent", "serverMade", "serverFailed"}
  BY <1>0 DEF Out
<1>4. ASSUME NEW k \in Kind, Posted(c, k) \/ Refused(c, k) PROVE FALSE
  BY <1>4 DEF Posted, Refused, Goto, Made, Failed, Typed, TypeOK
<1>5. ~(RecordAgent(c) \/ ServerFailed(c))
  BY AgentRecorded, AgentGivenUp
<1> QED
  BY <1>1, <1>2, <1>3, <1>4, <1>5
  DEF Work, Reuse, SaveWidget, SendAgent, AgentFailed, Undo, Purge

\* ... and posts nothing as long as it has previous widgets to delete.
LEMMA PurgeTracked ==
  ASSUME Guarded, NEW c \in Command, Work(c), Intact',
         NEW m \in live \ left, m \in (live \ left)', NEW k \in Kind, purge[c][k] = m
  PROVE  Tracked(m)'
<1> USE DEF Guarded, Coherent
<1>0. m # None /\ "dbError" \notin incident'
  BY NoMessage DEF Typed, TypeOK, Intact
<1>1. pc[c] \in {"saving", "purge"}
  BY <1>0 DEF PurgeOK, NoWidgets
<1>2. CASE SaveWidget(c)
  <2>1. Goto(c, "purge") /\ purge' = purge
    BY <1>0, <1>2 DEF SaveWidget, Note, frameVars
  <2>2. pc'[c] = "purge"
    BY <2>1 DEF Goto, Typed, TypeOK
  <2> QED
    BY <2>1, <2>2, RunningTracks DEF Running, Waiting
<1>3. ASSUME NEW j \in Kind, Purge(c, j) PROVE Tracked(m)'
  <2>1. /\ pc[c] = "purge" /\ pc' = pc /\ purge' = [purge EXCEPT ![c][j] = None]
        /\ BotDeletes({purge[c][j]})
    BY <1>3 DEF Purge
  <2>2. j # k
    BY <2>1, BotDeletesAll
  <2>3. purge'[c][k] = m /\ pc'[c] = "purge"
    BY <2>1, <2>2 DEF Typed, TypeOK
  <2> QED
    BY <2>3, RunningTracks DEF Running, Waiting
<1>4. ~SendAgent(c)
  BY <1>0 DEF SendAgent
<1>5. \A j \in Kind : {Sent[j], Made[j]} \cap {"saving", "purge"} = {}
  BY DEF Sent, Made
<1> QED
  BY <1>1, <1>2, <1>3, <1>4, <1>5
  DEF Work, Reuse, AgentFailed, RecordAgent, ServerFailed, Undo, RecordServer, Posted,
      Refused, Abandon

LEMMA NextTracked ==
  ASSUME Guarded, NoLeakedWidget, [Next]_vars
  PROVE  NoLeakedWidget'
<1> SUFFICES ASSUME Intact', NEW m \in (live \ left)' PROVE Tracked(m)'
  BY DEF NoLeakedWidget
<1> USE DEF Guarded, Coherent
<1>1. CASE m \notin live \ left
  <2>1. PICK c \in Command, k \in Kind : Posted(c, k) /\ m = Widget(c, k)
    BY <1>1, NewLive
  <2>2. m.by = c /\ Running(c)'
    BY <2>1, WidgetIs DEF Posted, Goto, Made, Running, Waiting, Typed, TypeOK
  <2> QED
    BY <2>2, RunningTracks
<1>2. CASE m \in live \ left
  <2>1. Tracked(m)
    BY <1>2, IntactStays DEF NoLeakedWidget
  <2>2. CASE cache # None /\ m \in WidgetsOf(heap[cache])
    BY <1>2, <2>2, RecordTracked
  <2>3. ASSUME NEW c \in Command, Running(c), m.by = c \/ \E k \in Kind : purge[c][k] = m
        PROVE  Tracked(m)'
    <3>1. CASE UNCHANGED <<pc[c], purge[c]>>
      BY <2>3, <3>1, RunningTracks DEF Running
    <3>2. CASE Work(c)
      <4>1. CASE \E k \in Kind : purge[c][k] = m
        BY <1>2, <3>2, <4>1, PurgeTracked
      <4>2. CASE m.by = c /\ pc'[c] = "done"
        BY <1>2, <3>2, <4>2, AuthorTracked
      <4>3. CASE m.by = c /\ pc'[c] # "done"
        <5>1. Running(c)'
          BY <3>2, <4>3, WorkFrame DEF Running, Waiting, Busy, Holding
        <5> QED
          BY <4>3, <5>1, RunningTracks
      <4> QED
        BY <2>3, <4>1, <4>2, <4>3
    <3>3. ASSUME NEW d \in Command,
                 \/ \E ch \in Channel : Issue(d, ch)
                 \/ LookupFails(d) \/ Find(d) \/ Insert(d) \/ Store(d)
          PROVE  Tracked(m)'
      <4>1. OthersKept(d) /\ pc[d] \in Early
        BY <3>3, OthersFinish, OthersGoto
        DEF Issue, LookupFails, Find, Insert, Store, Early, frameVars, Typed, TypeOK
      <4>2. d # c
        <5>1. m # None
          BY <1>2, NoMessage DEF Typed, TypeOK
        <5>2. ASSUME pc[c] \in Early PROVE FALSE
          BY <1>2, <2>3, <5>1, <5>2 DEF Early, LiveOK, Out, PurgeOK, NoWidgets
        <5> QED
          BY <4>1, <5>2
      <4> QED
        BY <3>1, <4>1, <4>2 DEF OthersKept
    <3>4. ASSUME NEW d \in Command, Work(d), d # c PROVE Tracked(m)'
      BY <3>1, <3>4, WorkFrame DEF OthersKept
    <3>5. UNCHANGED vars \/ UNCHANGED commandVars => UNCHANGED <<pc, purge>>
      BY DEF vars, commandVars, frameVars
    <3>6. CASE UNCHANGED <<pc, purge>>
      BY <3>1, <3>6
    <3>7. ~Restart
      BY <2>3 DEF Restart, Intact
    <3> QED
      BY <3>2, <3>3, <3>4, <3>5, <3>6, <3>7, OtherSteps
  <2> QED
    BY <2>1, <2>2, <2>3 DEF Tracked
<1> QED
  BY <1>1, <1>2

\* As long as memory and the collection have had no reason to differ, each message
\* in Discord is recorded by the configuration in force, or a command that is
\* still at work posted it or is about to delete it, unless Discord refused to
\* delete it or answered its post with an error, or its configuration went when a
\* user deleted the other widget.
THEOREM NoWidgetLeaks == Spec => []NoLeakedWidget
<1>1. Init => Guarded /\ NoLeakedWidget
  BY InitTyped, InitPosts, InitSync, InitFresh, InitDraft, InitTracked DEF Guarded, Coherent
<1>2. Guarded /\ NoLeakedWidget /\ [Next]_vars => (Guarded /\ NoLeakedWidget)'
  <2>1. Coherent /\ [Next]_vars => Coherent'
    BY NextTyped, NextPosts, NextHidden, NextSync, NextWidgets DEF Coherent
  <2>2. ASSUME Guarded, [Next]_vars PROVE Guarded'
    BY <2>1, <2>2, NextFresh, NextDraft, NextPurge, NextLive, NextOwned DEF Guarded, Coherent
  <2> QED
    BY <2>2, NextTracked
<1> QED
  BY <1>1, <1>2, PTL DEF Spec
=============================================================================
