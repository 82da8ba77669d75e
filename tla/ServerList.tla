------------------------------ MODULE ServerList ------------------------------
(***************************************************************************)
(* The servers of one guild in ServerStatusComponent: adding and removing  *)
(* them, pinning one in the server widget, their custom buttons, and the   *)
(* edits that make the widget show all that.  The configuration object and *)
(* its widget come and go as in StatusChannel, told here in few steps; an  *)
(* edit is sent and not waited for, so that Discord may refuse it or apply *)
(* it after a later one.                                                   *)
(*                                                                         *)
(* A handler finds the configuration, then works under its exclusive lock; *)
(* it makes several database calls there, each of which may throw, and the *)
(* process may end between any two.  Server objects are shared by all the  *)
(* configurations and have no lock of their own.                           *)
(***************************************************************************)
EXTENDS WidgetLayout, FiniteSets

CONSTANTS
    Server,     \* server ids: the interactions that submit the form
    Button,     \* custom button ids, likewise
    Handler,    \* interactions that change the servers, one after the other each
    Message,    \* ids of the server widgets that may be posted
    Config,     \* configuration objects /setstatuschannel may create
    Boot,       \* the configuration object a start of the process builds
    None,       \* a null pointer or an empty optional
    Faults,     \* which of "restart" and "dbError" may happen
    MaxEdits    \* bound: edits on their way when a form is submitted

ASSUME ServerListAssumption ==
    /\ Boot \notin Config
    /\ None \notin Server \cup Config \cup Message \cup {Boot}
    /\ Server \cap Button = {} /\ Config \cap (Server \cup Button) = {}
    /\ Message \cap (Server \cup Button \cup Config) = {}
    /\ Faults \subseteq {"restart", "dbError"}
    /\ MaxEdits \in Nat

ConfigRef == Config \cup {Boot}

VARIABLES
    pc,         \* where each handler stands
    op,         \* what each handler was asked to do
    cfg,        \* the configuration each handler found
    gone,       \* the servers a handler is removing
    heap,       \* the ServerConfig objects
    cache,      \* ServerConfigs: the object stored for the guild
    known,      \* Servers: the ids stored
    buttons,    \* the custom buttons of each Server object
    doc,        \* the guild's document in ServerConfig
    docs,       \* the documents in Server: the buttons each holds
    shown,      \* Discord: what each server widget shows that is there
    edits,      \* edits of server widgets on their way to Discord
    behind,     \* history: widgets whose newest edit is not the last one applied
    used,       \* ids of servers, buttons, messages and objects that have come up
    removed,    \* history: servers and buttons that somebody had removed
    incident    \* history: what has happened that the properties depend on

frameVars == <<op, cfg, gone>>
handlerVars == <<pc, frameVars>>
memoryVars == <<heap, cache, known, buttons>>
databaseVars == <<doc, docs>>
discordVars == <<shown, edits, behind>>
idVars == <<used, removed>>
vars == <<handlerVars, memoryVars, databaseVars, discordVars, idVars, incident>>

(***************************************************************************)
(* "dbError": a database call threw.  "reloaded": the process started      *)
(* again after that.  "interrupted": it ended in the middle of a handler.  *)
(* "detached": a handler worked on an object the cache did not hold.       *)
(* "recreated": the guild got a new configuration while it had servers.    *)
(* "unaddressed": the widget was to be edited while the id of its message  *)
(* was not known.  "unfinished": a save included the agent widget of a     *)
(* build that was not finished.                                            *)
(***************************************************************************)
Incident == {"dbError", "reloaded", "interrupted", "detached", "recreated",
             "unaddressed", "unfinished"}

\* activeServerID is pin; activeServer is kept beside it, and may be null.
Blank == [servers |-> {}, pin |-> None, active |-> None,
          building |-> FALSE, draft |-> None, agent |-> FALSE, message |-> None]

\* Variation: the whole object is saved.
getValueWhole(config) == config

getValue(config) ==
    [servers |-> config.servers, pin |-> config.pin, agent |-> config.agent,
     message |-> config.message]

NoDocument == [absent |-> TRUE]
Request ==
    [kind : {"addServer"}, server : Server]
      \cup [kind : {"removeServers"}, servers : SUBSET Server \ {{}}]
      \cup [kind : {"pin"}, server : Server]
      \cup [kind : {"addButton"}, server : Server, button : Button]
      \cup [kind : {"removeButtons"}, server : Server, buttons : SUBSET Button \ {{}}]

NoRequest == [kind |-> "none"]

Init ==
    /\ pc = [h \in Handler |-> "idle"]
    /\ op = [h \in Handler |-> NoRequest]
    /\ cfg = [h \in Handler |-> None]
    /\ gone = [h \in Handler |-> {}]
    /\ heap = [r \in ConfigRef |-> Blank]
    /\ cache = None
    /\ known = {}
    /\ buttons = [s \in Server |-> {}]
    /\ doc = NoDocument
    /\ docs = [s \in {} |-> {}]
    /\ shown = [m \in Message |-> None]
    /\ edits = {}
    /\ behind = {}
    /\ used = {}
    /\ removed = {}
    /\ incident = {}

-----------------------------------------------------------------------------
(* Helpers *)

\* getServerSelectMenuComponent leaves out servers that are not stored.
Menu(config) == config.servers \cap known

\* getServerStatusWidget, of a configuration, its menu and the buttons servers have.
Draw(config, menu, b) ==
    [pin |-> config.pin, menu |-> menu,
     buttons |-> IF config.active = None THEN {} ELSE b[config.active]]

Widget(config, b) == Draw(config, Menu(config), b)

Note(kinds) == incident' = incident \cup kinds

Detached(r) == IF r = cache THEN {} ELSE {"detached"}

\* Variation: the widget is left as it is.
updateServerStatusWidgetNever(config, menu, b) == UNCHANGED discordVars

\* The edit is sent and not waited for: whether Discord applies it, and when, is
\* Apply and Refuse below.  Equal edits on their way count once.
updateServerStatusWidget(config, menu, b) ==
    /\ edits' = IF config.message = None THEN edits
                ELSE {[e EXCEPT !.last = @ /\ e.message # config.message] : e \in edits}
                       \cup {[message |-> config.message, draws |-> Draw(config, menu, b),
                              last |-> TRUE]}
    /\ behind' = behind \ {config.message}
    /\ UNCHANGED shown

\* The widget of the object r, which is config now, is edited.
Edit(r, config, menu, b) ==
    /\ updateServerStatusWidget(config, menu, b)
    /\ Note(Detached(r) \cup IF config.message = None THEN {"unaddressed"} ELSE {})

updateServerIDs(config) ==
    IF doc = NoDocument THEN doc ELSE [doc EXCEPT !.servers = config.servers]

\* Variation: only the message is saved.
updateMessageID(config) ==
    IF doc = NoDocument THEN doc
    ELSE [doc EXCEPT !.agent = config.agent, !.message = config.message]

updateStatusWidget(config) ==
    IF doc = NoDocument THEN doc
    ELSE [doc EXCEPT !.pin = config.pin, !.agent = config.agent,
                     !.message = config.message]

\* Variation: what a server's buttons are now is not saved.
updateCustomButtonsNever(s, B) == docs

updateCustomButtons(s, B) == IF s \in DOMAIN docs THEN [docs EXCEPT ![s] = B] ELSE docs

Throws == "dbError" \in Faults

\* A handler that is between two of its steps under the lock.
Midway(h) == pc[h] \in {"save", "unpin", "delete", "push"}

Locked(r) == \E h \in Handler : Midway(h) /\ cfg[h] = r

Goto(h, label) == pc' = [pc EXCEPT ![h] = label]

Finish(h) ==
    /\ Goto(h, "idle")
    /\ op' = [op EXCEPT ![h] = NoRequest]
    /\ cfg' = [cfg EXCEPT ![h] = None]
    /\ gone' = [gone EXCEPT ![h] = {}]

\* A database call of h throws: what h did before it stays.
Fail(h) == Throws /\ Finish(h) /\ Note({"dbError"}) /\ UNCHANGED discordVars

At(h, kind) == pc[h] = "found" /\ op[h].kind = kind /\ ~Locked(cfg[h])

\* The handler ends without a change.
End(h) ==
    /\ Finish(h)
    /\ UNCHANGED <<memoryVars, databaseVars, discordVars, idVars, incident>>

-----------------------------------------------------------------------------
(* The handlers *)

\* The id is that of a form that has been submitted already.
Taken(id) ==
    \/ id \in used
    \/ \E h \in Handler : \/ op[h].kind = "addServer" /\ op[h].server = id
                          \/ op[h].kind = "addButton" /\ op[h].button = id

\* What can be submitted: a form carries a new id, a menu or a button of the
\* interface ids that some configuration has listed, perhaps long ago.
Submittable(q) ==
    CASE q.kind = "addServer"     -> ~Taken(q.server)
      [] q.kind = "addButton"     -> ~Taken(q.button) /\ q.server \in used
      [] q.kind = "removeServers" -> q.servers \subseteq used
      [] q.kind = "pin"           -> q.server \in used
      [] q.kind = "removeButtons" -> q.server \in used /\ q.buttons \subseteq used

\* An administrator submits a form or a menu.
Submit(h, q) ==
    /\ pc[h] = "idle"
    /\ Submittable(q)
    /\ Cardinality(edits) < MaxEdits
    /\ op' = [op EXCEPT ![h] = q]
    /\ Goto(h, "find")
    /\ UNCHANGED <<cfg, gone, memoryVars, databaseVars, discordVars, idVars, incident>>

\* ServerConfigs::find; without a configuration the request is refused.
Find(h) ==
    /\ pc[h] = "find"
    /\ IF cache = None THEN Finish(h)
       ELSE /\ cfg' = [cfg EXCEPT ![h] = cache]
            /\ Goto(h, "found")
            /\ UNCHANGED <<op, gone>>
    /\ UNCHANGED <<memoryVars, databaseVars, discordVars, idVars, incident>>

\* Variation: one server too many.
RoomOneMore(config) == Cardinality(config.servers) <= MaxServers

Room(config) == Cardinality(config.servers) < MaxServers

\* onAddServerForm: the server is stored and listed, and the list is saved ...
AddServer(h) ==
    LET r == cfg[h]
        s == op[h].server
        config == [heap[r] EXCEPT !.servers = @ \cup {s}]
    IN  /\ At(h, "addServer")
        /\ Room(heap[r])
        /\ known' = known \cup {s}
        /\ heap' = [heap EXCEPT ![r] = config]
        /\ \/ /\ doc' = updateServerIDs(config)
              /\ Goto(h, "save")
              /\ Note(Detached(r))
              /\ UNCHANGED <<frameVars, discordVars>>
           \/ Fail(h) /\ UNCHANGED doc
        /\ used' = used \cup {s}
        /\ UNCHANGED <<cache, buttons, docs, removed>>

\* ... then the server's document is inserted.
SaveServer(h) ==
    LET r == cfg[h]
        s == op[h].server
    IN  /\ pc[h] = "save"
        /\ \/ /\ docs' = [t \in DOMAIN docs \cup {s} |-> IF t = s THEN {} ELSE docs[t]]
              /\ Edit(r, heap[r], Menu(heap[r]), buttons)
              /\ Finish(h)
           \/ Fail(h) /\ UNCHANGED docs
        /\ UNCHANGED <<memoryVars, doc, idVars>>

AddServerRefused(h) ==
    At(h, "addServer") /\ ~Room(heap[cfg[h]]) /\ End(h)

\* Variation: a pinned server stays listed.
UnlistedUnlessPinned(config, S) ==
    [config EXCEPT !.servers = @ \ (S \ {config.pin})]

Unlisted(config, S) == [config EXCEPT !.servers = @ \ S]

\* onRemoveServerSelect: the listed ones of the selected servers leave the list,
\* which is saved.  A listed server that is not stored is read through a null
\* pointer: the process ends there, which is a Restart ...
RemoveServers(h) ==
    LET r == cfg[h]
        listed == op[h].servers \cap heap[r].servers
        config == Unlisted(heap[r], listed)
    IN  /\ At(h, "removeServers")
        /\ listed \subseteq known
        /\ heap' = [heap EXCEPT ![r] = config]
        /\ \/ /\ doc' = updateServerIDs(config)
              /\ gone' = [gone EXCEPT ![h] = listed]
              /\ Goto(h, "unpin")
              /\ Note(Detached(r))
              /\ UNCHANGED <<op, cfg, discordVars>>
           \/ Fail(h) /\ UNCHANGED doc
        /\ removed' = removed \cup listed
        /\ UNCHANGED <<cache, known, buttons, docs, used>>

\* Variation: the pin is left to the next selection.
UnpinnedNever(config, S) == config

Unpinned(config, S) ==
    IF config.pin \in S THEN [config EXCEPT !.pin = None, !.active = None] ELSE config

\* ... a pinned server is unpinned and the widget saved ...
Unpin(h) ==
    LET r == cfg[h]
        config == Unpinned(heap[r], gone[h])
    IN  /\ pc[h] = "unpin"
        /\ heap' = [heap EXCEPT ![r] = config]
        /\ \/ /\ doc' = IF config = heap[r] THEN doc ELSE updateStatusWidget(config)
              /\ Goto(h, "delete")
              /\ Note(Detached(r) \cup IF config # heap[r] /\ config.building /\ config.agent
                                      THEN {"unfinished"} ELSE {})
              /\ UNCHANGED <<frameVars, discordVars>>
           \/ config # heap[r] /\ Fail(h) /\ UNCHANGED doc
        /\ UNCHANGED <<cache, known, buttons, docs, idVars>>

\* ... and the servers' documents and objects go.
DeleteServers(h) ==
    LET r == cfg[h]
        left == known \ gone[h]
    IN  /\ pc[h] = "delete"
        /\ \/ /\ docs' = [s \in DOMAIN docs \ gone[h] |-> docs[s]]
              /\ known' = left
              /\ Edit(r, heap[r], heap[r].servers \cap left, buttons)
              /\ Finish(h)
           \/ Fail(h) /\ UNCHANGED <<docs, known>>
        /\ UNCHANGED <<heap, cache, buttons, doc, idVars>>

\* Not while the widget is being built, nor the server that is pinned, nor one
\* that has been removed.
Pinnable(config, s) == ~config.building /\ config.pin # s /\ s \in known

\* onPinnedServerSelect.
Pin(h) ==
    LET r == cfg[h]
        s == op[h].server
        config == [heap[r] EXCEPT !.pin = s, !.active = s]
    IN  /\ At(h, "pin")
        /\ Pinnable(heap[r], s)
        /\ heap' = [heap EXCEPT ![r] = config]
        /\ \/ /\ doc' = updateStatusWidget(config)
              /\ Edit(r, config, Menu(config), buttons)
              /\ Finish(h)
           \/ Fail(h) /\ UNCHANGED doc
        /\ UNCHANGED <<cache, known, buttons, docs, idVars>>

PinRefused(h) ==
    At(h, "pin") /\ ~Pinnable(heap[cfg[h]], op[h].server) /\ End(h)

\* Variation: one button too many.
SpaceOneMore(s) == Cardinality(buttons[s]) <= MaxButtons

Space(s) == Cardinality(buttons[s]) < MaxButtons

\* Any server that is stored, listed in this configuration or not.
ChangeButtons(h, s, B) ==
    LET r == cfg[h]
        after == [buttons EXCEPT ![s] = B]
    IN  /\ buttons' = after
        /\ \/ /\ docs' = updateCustomButtons(s, B)
              /\ Edit(r, heap[r], Menu(heap[r]), after)
              /\ Finish(h)
           \/ Fail(h) /\ UNCHANGED docs
        /\ UNCHANGED <<heap, cache, known, doc>>

\* onAddCustomServerButtonForm: the limit is checked ...
AddButton(h) ==
    LET s == op[h].server
    IN  /\ At(h, "addButton")
        /\ s \in known /\ Space(s)
        /\ used' = used \cup {op[h].button}
        /\ Note(Detached(cfg[h]))
        /\ Goto(h, "push")
        /\ UNCHANGED <<frameVars, memoryVars, databaseVars, discordVars, removed>>

\* ... and the button is added.  Both happen under the lock of a configuration,
\* but a handler that holds another one may change the same server meanwhile.
PushButton(h) ==
    /\ pc[h] = "push"
    /\ UNCHANGED idVars
    /\ ChangeButtons(h, op[h].server, buttons[op[h].server] \cup {op[h].button})

\* onRemoveCustomServerButtonSelect.
RemoveButtons(h) ==
    LET s == op[h].server
    IN  /\ At(h, "removeButtons")
        /\ s \in known
        /\ removed' = removed \cup op[h].buttons
        /\ UNCHANGED used
        /\ ChangeButtons(h, s, buttons[s] \ op[h].buttons)

ButtonsRefused(h) ==
    /\ \/ At(h, "addButton") /\ ~(op[h].server \in known /\ Space(op[h].server))
       \/ At(h, "removeButtons") /\ op[h].server \notin known
    /\ End(h)

Handle(h) ==
    \/ Find(h)
    \/ AddServer(h) \/ SaveServer(h) \/ AddServerRefused(h)
    \/ RemoveServers(h) \/ Unpin(h) \/ DeleteServers(h)
    \/ Pin(h) \/ PinRefused(h)
    \/ AddButton(h) \/ PushButton(h) \/ RemoveButtons(h) \/ ButtonsRefused(h)

\* onServerCustomButton changes nothing here: a press of button b of server s is
\* passed on to the guild's agent if there is a configuration, the server is
\* stored and has the button.
Accepted(s, b) == cache # None /\ s \in known /\ b \in buttons[s]

-----------------------------------------------------------------------------
(* The configuration and its widget, in the steps of StatusChannel that this
   module depends on *)

\* /setstatuschannel without a configuration: a new object and a new document.
Create(r) ==
    /\ cache = None
    /\ r \in Config \ used
    /\ used' = used \cup {r}
    /\ heap' = [heap EXCEPT ![r] = [Blank EXCEPT !.building = TRUE]]
    /\ cache' = r
    /\ doc' = getValue(heap'[r])
    /\ Note(IF known = {} THEN {} ELSE {"recreated"})
    /\ UNCHANGED <<handlerVars, known, buttons, docs, discordVars, removed>>

\* /setstatuschannel with one: the previous widget is forgotten, and Discord asked
\* to delete it.
Rebuild ==
    /\ cache # None
    /\ ~Locked(cache)
    /\ heap' = [heap EXCEPT ![cache].building = TRUE, ![cache].draft = None,
                            ![cache].agent = FALSE, ![cache].message = None]
    /\ doc' = updateStatusWidget(heap'[cache])
    /\ UNCHANGED <<handlerVars, cache, known, buttons, docs, discordVars, idVars, incident>>

\* The agent widget is there: the server widget is drawn up and sent.
Draft ==
    /\ cache # None
    /\ heap[cache].building /\ ~Locked(cache)
    /\ heap[cache].draft = None
    /\ heap' = [heap EXCEPT ![cache].draft = Widget(heap[cache], buttons),
                            ![cache].agent = TRUE]
    /\ UNCHANGED <<handlerVars, cache, known, buttons, databaseVars, discordVars, idVars,
                   incident>>

\* The server widget is there.
Publish(m) ==
    /\ cache # None
    /\ heap[cache].draft # None /\ ~Locked(cache)
    /\ m \in Message \ used
    /\ used' = used \cup {m}
    /\ heap' = [heap EXCEPT ![cache].building = FALSE, ![cache].draft = None,
                            ![cache].message = m]
    /\ doc' = updateStatusWidget(heap'[cache])
    /\ shown' = [shown EXCEPT ![m] = heap[cache].draft]
    /\ UNCHANGED <<handlerVars, cache, known, buttons, docs, edits, behind, removed, incident>>

\* One of the two widgets could not be posted: the agent widget is forgotten, in
\* memory only, as if nothing had saved it.
BuildFails ==
    /\ cache # None
    /\ heap[cache].building /\ ~Locked(cache)
    /\ heap' = [heap EXCEPT ![cache].building = FALSE, ![cache].draft = None,
                            ![cache].agent = FALSE]
    /\ UNCHANGED <<handlerVars, cache, known, buttons, databaseVars, discordVars, idVars,
                   incident>>

\* A channel or a widget was deleted: the configuration goes, its servers stay, and
\* so does the server widget if it was the other one that was deleted.
Erase ==
    /\ cache # None
    /\ ~Locked(cache)
    /\ doc' = NoDocument
    /\ cache' = None
    /\ UNCHANGED <<handlerVars, heap, known, buttons, docs, discordVars, idVars, incident>>

\* A widget is deleted, by whoever does it.
Deleted(m) ==
    /\ shown[m] # None
    /\ shown' = [shown EXCEPT ![m] = None]
    /\ UNCHANGED <<handlerVars, memoryVars, databaseVars, edits, behind, idVars, incident>>

\* Discord applies an edit, to a widget that is there ...
Apply(e) ==
    /\ e \in edits
    /\ edits' = edits \ {e}
    /\ shown' = [shown EXCEPT ![e.message] = IF @ = None THEN None ELSE e.draws]
    /\ behind' = IF e.last THEN behind \ {e.message} ELSE behind \cup {e.message}
    /\ UNCHANGED <<handlerVars, memoryVars, databaseVars, idVars, incident>>

\* ... or does not: the answer is an error, which is logged, or the process ended.
Refuse(e) ==
    /\ e \in edits
    /\ edits' = edits \ {e}
    /\ behind' = IF e.last THEN behind \cup {e.message} ELSE behind
    /\ UNCHANGED <<handlerVars, memoryVars, databaseVars, shown, idVars, incident>>

\* Variation: activeServer is not looked up when a configuration is loaded.
LoadedActiveNever(pin) == None

\* The pinned server's object, if its document was loaded.
LoadedActive(pin) == IF pin \in DOMAIN docs THEN pin ELSE None

\* The process ends, perhaps in the middle of a handler, and starts again.
Restart ==
    /\ "restart" \in Faults
    /\ Note((IF \E h \in Handler : Midway(h) THEN {"interrupted"} ELSE {})
              \cup IF "dbError" \in incident THEN {"reloaded"} ELSE {})
    /\ pc' = [h \in Handler |-> "idle"]
    /\ op' = [h \in Handler |-> NoRequest]
    /\ cfg' = [h \in Handler |-> None]
    /\ gone' = [h \in Handler |-> {}]
    /\ known' = DOMAIN docs
    /\ buttons' = [s \in Server |-> IF s \in DOMAIN docs THEN docs[s] ELSE {}]
    /\ heap' = [[r \in ConfigRef |-> Blank] EXCEPT ![Boot] =
                   IF doc = NoDocument THEN Blank
                   ELSE [servers |-> doc.servers, pin |-> doc.pin,
                         active |-> LoadedActive(doc.pin), building |-> FALSE,
                         draft |-> None, agent |-> doc.agent, message |-> doc.message]]
    /\ cache' = IF doc = NoDocument THEN None ELSE Boot
    /\ UNCHANGED <<databaseVars, discordVars, idVars>>

Next ==
    \/ \E h \in Handler : Handle(h) \/ \E q \in Request : Submit(h, q)
    \/ \E r \in Config : Create(r)
    \/ Rebuild \/ Draft \/ BuildFails \/ Erase
    \/ \E m \in Message : Publish(m) \/ Deleted(m)
    \/ \E e \in edits : Apply(e) \/ Refuse(e)
    \/ Restart

Spec == Init /\ [][Next]_vars

-----------------------------------------------------------------------------
(* Properties *)

Drawing == [pin : Server \cup {None}, menu : SUBSET Server, buttons : SUBSET Button]

\* Every variable has its type.
TypeOK ==
    /\ pc \in [Handler -> {"idle", "find", "found", "save", "unpin", "delete", "push"}]
    /\ op \in [Handler -> Request \cup {NoRequest}]
    /\ cfg \in [Handler -> ConfigRef \cup {None}]
    /\ gone \in [Handler -> SUBSET Server]
    /\ heap \in [ConfigRef -> [servers : SUBSET Server, pin : Server \cup {None},
                               active : Server \cup {None}, building : BOOLEAN,
                               draft : Drawing \cup {None}, agent : BOOLEAN,
                               message : Message \cup {None}]]
    /\ cache \in ConfigRef \cup {None}
    /\ known \subseteq Server
    /\ buttons \in [Server -> SUBSET Button]
    /\ doc \in [servers : SUBSET Server, pin : Server \cup {None},
                 agent : BOOLEAN, message : Message \cup {None}] \cup {NoDocument}
    /\ DOMAIN docs \subseteq Server /\ docs \in [DOMAIN docs -> SUBSET Button]
    /\ shown \in [Message -> Drawing \cup {None}]
    /\ edits \subseteq [message : Message, draws : Drawing, last : BOOLEAN]
    /\ behind \subseteq Message
    /\ used \subseteq Server \cup Button \cup Message \cup Config
    /\ removed \subseteq Server \cup Button
    /\ incident \subseteq Incident

ButtonsOf(s) == Cardinality(buttons[s])

\* Every message that is drawn from the guild's configuration, the widget and the
\* replies to its menus and buttons, is one that Discord accepts: none has more
\* rows, wider rows, or menus with more options than it may, none asks for more
\* choices than there are options, and none has an empty menu.  It holds when
\* several forms that were opened below a limit are submitted together, although
\* lists, stored servers and buttons change in different steps of different
\* handlers; not for handlers of two configuration objects, which share servers
\* without sharing a lock, nor after a start that found less than was listed.
MessagesFit ==
    incident \cap {"reloaded", "interrupted", "detached"} = {} /\ cache # None =>
        LET config == heap[cache]
            listed == Cardinality(config.servers)
            stored == Cardinality(Menu(config))
            pinned == IF config.active = None THEN 0 ELSE ButtonsOf(config.active)
        IN  /\ Fits(StatusWidgetRows(pinned, listed, stored))
            /\ Fits(WidgetSettingsRows(listed, stored))
            /\ listed # 0 => Fits(RemoveServerRows(listed, stored))
            /\ Fits(ServerSettingsRows)
            /\ \A s \in known :
                  /\ Fits(QueryRows(ButtonsOf(s)))
                  /\ ButtonsOf(s) # 0 => Fits(RemoveButtonRows(ButtonsOf(s)))

\* The widget of a pinned server is drawn from the server's object.  The object
\* is there, in memory and after a restart at any point of any handler: a pin is
\* saved as long as the server's document is.  A removal through an object that
\* was not the guild's any more ends that, and a restart after a database call
\* threw, although not the call itself.
PinResolved ==
    incident \cap {"reloaded", "detached"} = {} =>
        \A r \in ConfigRef : heap[r].pin = heap[r].active

\* Every listed server is stored, so that the menu to remove servers offers as
\* many as it lets be chosen and the name of each is found, as long as the
\* process does not start again after a database call threw or in the middle of
\* a handler.
ListedStored ==
    incident \cap {"reloaded", "interrupted"} = {} /\ cache # None =>
        heap[cache].servers \subseteq known

\* A pinned server is in the guild's list, so that it can be found and removed,
\* as long as its configuration was not replaced while servers were there and no
\* removal was cut short: a menu older than that can pin a server nobody lists.
PinListed ==
    incident \cap {"dbError", "detached", "recreated", "interrupted"} = {}
      /\ cache # None /\ ~Locked(cache) /\ heap[cache].pin # None =>
        heap[cache].pin \in heap[cache].servers

\* The document of a configuration: the widgets are saved when both exist.
Saved(config) == [getValue(config) EXCEPT !.agent = @ /\ ~config.building]

\* Between handlers the two collections say what memory says, so that a restart
\* changes nothing.  An ending process may leave a server listed that has no
\* document, or a document that no list has, but not lose buttons.  A server that
\* is unpinned during a build may leave the agent widget of that build in the
\* document although the build failed, and nothing else.
SavedMatchesMemory ==
    incident \cap {"dbError", "detached"} = {} =>
        /\ \A s \in known \cap DOMAIN docs : docs[s] = buttons[s]
        /\ cache # None /\ ~Locked(cache) =>
              /\ \/ doc = Saved(heap[cache])
                 \/ "unfinished" \in incident
                    /\ doc = [Saved(heap[cache]) EXCEPT !.agent = TRUE]
              /\ "interrupted" \notin incident => heap[cache].servers \subseteq DOMAIN docs

\* What the widget in message m shows, or will show once its edits have arrived, is
\* this drawing, unless it is gone or Discord did not apply the newest edit last.
WillShow(m, drawing) ==
    \/ shown[m] \in {None, drawing}
    \/ m \in behind
    \/ \E e \in edits : e.message = m /\ e.draws = drawing

\* Between handlers the widget shows the configuration: its pinned server with
\* its buttons, and a menu of its servers; or an edit to that effect is on its way,
\* or was refused or overtaken by an older one.  Each handler, and each way in which
\* the widget or the configuration is made or loaded again, comes out at that.  An
\* edit that came while the message was not known is lost, and one interrupted by
\* the end of the process.
WidgetCurrent ==
    incident \subseteq {"unfinished", "recreated"} /\ cache # None /\ ~Locked(cache)
      /\ heap[cache].message # None =>
        WillShow(heap[cache].message, Widget(heap[cache], buttons))

\* A button that any server widget in Discord shows works as long as the guild has
\* a configuration, or else it or its server was removed by somebody: however late
\* the edits of the widget are, and whether it belongs to the configuration or was
\* left by an earlier one, also in the middle of a handler and after the process
\* ended there.  A press of it is never told of a deletion that nobody asked for.
ShownButtonsWork ==
    incident \cap {"reloaded", "detached"} = {} /\ cache # None =>
        \A m \in Message : shown[m] # None =>
            \A b \in shown[m].buttons :
                Accepted(shown[m].pin, b) \/ {shown[m].pin, b} \cap removed # {}

\* "We already know the channel and the ID of the message": the widget is only
\* edited when it has a message.  It does not hold: servers and buttons may be
\* changed while a widget is being built, or after it could not be.
EditKnowsMessage == "unaddressed" \notin incident
=============================================================================
