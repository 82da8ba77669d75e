# Verification of the Scorch Discord bot

TLA+ models of the Scorch Discord bot (`src/`), the TLC runs that check them on small instances, and theorems that the TLA+ proof system checks for every instance.
`PROJECT.json` lists the components, the runs, for every checked property a mutation of the model that breaks it, the source lines of every definition, the findings, the hazards the properties aim at, and the theorems.

- [The system](#the-system)
- [Modules](#modules)
- [Runs and bounds](#runs-and-bounds)
- [Fairness](#fairness)
- [Proofs](#proofs)
- [What the checks found](#what-the-checks-found)
- [What is not modelled](#what-is-not-modelled)
- [Plan](#plan)

Paths below are relative to `src/src/`; `SSC` is `Components/ServerStatus/ServerStatusComponent.cpp`.

## The system

The bot serves many Discord guilds. Administrators choose a *status channel* in which the bot keeps two messages, the *agent widget* and the *server widget*; they list game servers, pin one of them and give it custom buttons. A Scorch *agent* is paired with a guild and carries out the HTTP requests behind the buttons. A *log channel* receives what the components report.

Handlers are coroutines on the threads of the D++ cluster. Configurations are shared objects in process-wide caches, each with a reader-writer lock, mirrored by documents in MongoDB. A handler looks its configuration up, locks it some time later, may call the database several times under the lock, and gives up the lock at every `co_await` of a Discord request (one component keeps it). So between two critical sections of a handler, any other handler may run, a request may fail or its answer be lost, a user may delete a message or a channel, and the process may end.

| Component | State | Operations | Interacts with |
|---|---|---|---|
| Status channel (`SSC`, `ServerConfig`, `StatusWidget`) | per guild: channel, two message ids, the id of the command that is building; the `ServerConfig` document | `/setstatuschannel`, channel and message deletion, load at startup | Discord (create, delete, events), `ServerConfigs` cache, MongoDB |
| Servers of a guild (`SSC`, `Server`) | per guild: server ids, pinned id and object; per server: buttons; the `Server` documents | add, remove, pin, add and remove buttons, edit of the server widget | the configuration of the status channel, `Servers` cache, MongoDB |
| Custom button press (`SSC`, `ServerButton`) | none | one HTTP request through the guild's agent | agent registry |
| Agent widget (`SSC`) | a timer and its running flag | periodic and notified edits | agent registry, status channel |
| Caches (`Components/Common`) | map from guild or server to object | find, store, erase, snapshot, one mutex each | all components |
| Agent registry (`Agents/AgentsManager.cpp`) | connected agents by uuid and by guild, subscribers | connected, disconnected, `saveAgentGuildId`, lookups | scorch-server (callbacks), identity store, subscribers |
| Identity store (`Database/MongoDB/MongoDBAgentIdentityStore.cpp`) | one document per agent: key and guilds | save key, two lookups, move a guild | MongoDB |
| Pairing (`Components/Pair`) | share codes with an end of life | `/shareagent`, `/pair` | agent registry, scorch-server (requests to agents) |
| Log channel (`Components/Log`) | per guild: the channel; the `LogConfig` document | `/setlogchannel`, channel deletion, delivery of log messages | ComponentLogger, Discord, MongoDB |
| Registration and routing (`DiscordBot`) | handlers by exact id and by prefix, slash commands | `addComponent`, `onReady`, one router per interaction kind | all components, Discord |
| Logger, database pool, `main`, Yippee | none that matters | | |

What is hard, and which properties make each component correct:

- *Status channel.* Two commands, late answers and delete events (some of them announcing the bot's own deletions) work on one configuration in several critical sections. Discord may refuse to post or to delete, and nobody looks at the outcome of a deletion. Correct means: recorded widgets are in the recorded channel; no command leaves a widget behind as long as Discord does as it is told; only users make a configuration go; memory and collection agree; a build ends; a deletion is noticed.
- *Servers.* Each handler makes several updates; a restart between two of them must not bring back a pin without a server, a list without documents, or lost buttons. Old menus and forms stay usable, so limits that held when a form was opened need not hold when it is submitted, and Discord refuses a message beyond its own limits as a whole. The edits of the widget are sent and not waited for: they may be refused, or applied in another order. Correct means: the newest edit is of what the configuration is, and a button that is still shown does not stop working by itself.
- *Agent widget.* Drawn by commands, notices and a timer, each from what it read earlier, and applied by Discord in any order. Correct means: once things are quiet it shows whether the agent is connected.
- *Registry and store.* The maps and the collection are under different locks, sessions overlap, moving a guild takes two updates. Correct means: one agent per guild, never none after one failure, the live session is listed, subscribers hear every change.
- *Pairing.* Codes are used once and in time although commands race; no link without the agent's consent; waits end.
- *Log channel.* A lock is kept over an await while other handlers block threads.
- *Routing.* Ids that begin alike, registration in any order, more than one READY.

## Modules

| Module | Models | How |
|---|---|---|
| `StatusChannel` | one guild's configuration | `pc[c]` is the place of a command in `onSetStatusChannel`, one action per critical section or await; `heap` holds the `ServerConfig` objects (one may be detached from `cache`, and is freed with the commands that hold it), `db` the documents in insertion order, `live` and `channels` are Discord, which may refuse a deletion, `left` the messages the program lets go of without an incident, `events` and `handling` the delete events before and after the handler's lookup |
| `WidgetLifecycle` | what the status channel promises | phases absent, building, ready, broken; only the last command that took the guild over can finish; implemented by `StatusChannel` under the mapping at its end |
| `ServerList` | servers, pins, buttons of one guild, and the messages drawn of them | a handler finds the configuration and then works in the steps between database calls, under the lock; `known` and `buttons` are the `Server` objects, `docs` their documents, `shown` what each server widget in Discord displays, `edits` what was sent to it and not yet applied or refused, in no order, `behind` the widgets whose newest edit was not the last one applied; `Accepted` is the press of a custom button; the configuration's own life is told in the few steps of `StatusChannel` that matter |
| `WidgetLayout` | the rows of the server widget and of the replies to its menus and buttons | operators of the numbers of servers and buttons, as the code fills rows; `Fits` says what Discord accepts; extended by `ServerList` |
| `IdentityStore` | the AgentIdentities collection | one action per database call of `saveAgentGuildId`; each may throw with or without effect, and the process may end after any; the unique index is the guard `MayAdd` |
| `AgentRegistry` | `AgentsManager` on top of `IdentityStore` | sessions and the per-agent order of callbacks are scorch-server's; each callback reads the collection, writes the maps, and tells the subscribers in three separate steps; `stale` notes that a map may have been written from assignments that had changed; `Restart` empties the maps, ends the sessions and keeps the collection |
| `AgentWidget` | the agent widget of each guild, on top of `AgentRegistry` | every step of the registry, and: the component subscribes some time after the registry began to listen; a notice draws the widget, a timer with its flag goes through a snapshot of the configurations and awaits each edit, `edits` holds what was sent and not applied, in no order; a command draws, posts and records the message; a restart loads what was saved of it |
| `Pairing` | `PairComponent` | commands, codes with an end of life, a clock, agents that answer, refuse or leave |
| `LogChannel` | `LogComponent` and the logger's thread | threads of D++ are counted; a log message holds the shared lock until it is answered; `Blocked` is the state in which the answer finds no thread |
| `CommandRouter` | `DiscordBot` | ids are sequences of fragments, cut where the program's ids differ; the program's own declarations are the sequence `Program`; a READY sends the commands collected at the first one, and D++ is taken to send nothing for the empty list of the later ones |
| `MC*` | instances for TLC | symmetry; for the router the sets of ids and declarations |
| `*Proofs` | theorems | see [Proofs](#proofs) |

Common conventions. A guild's handlers never touch another guild's state, so most modules describe one guild. A history variable `incident` records the windows in which memory, collection and Discord may drift apart in the code as it is (a detached object, a restart in the middle of a handler, a database call that threw, a delete event that was lost, a build whose agent widget was saved early): a property says which of them it excludes, so that it also says that nothing *else* breaks it. Operators marked "Variation" are not part of a model; they are the plausible mistakes with which `PROJECT.json` tests the properties. Texts and permissions are left out; of the layout of messages there is what Discord checks, the rows.

External parts are modelled by how the code uses them: Discord answers a request with the message or an error, an error also for what it did (a lost answer), refuses deletions and edits, deletes the messages of a deleted channel without an event each, and announces the bot's own deletions like any other; scorch-server calls the listener in order for each agent; MongoDB's single updates are atomic.

## Runs and bounds

All runs use two workers; symmetry is used in runs without liveness properties only.

| Run | Instance | Shows |
|---|---|---|
| `StatusChannelLifecycle` | 2 commands, 2 channels, 1 deletion by a user, refused deletions and database errors | `OnlyUsersErase`, `ImplementsLifecycle` |
| `StatusChannelFaults` | the same with restarts and lost answers too | `WidgetInChannel`, `NoLeakedWidget` |
| `StatusChannelLiveness` | 2 commands, 1 channel, 1 deletion, lost answers, restarts and database errors | `SavedMatchesCache`, `BuildingEnds`, `DeletionNoticed` |
| `StatusChannelPress` | 1 command, 1 channel | violation of `PressFindsConfig` |
| `ServerListSafety` | 2 handlers, 2 servers with room for 1, 2 buttons with room for 1, rows of 1 button, 3 rows, no widget posted, restarts | `PinResolved`, `PinListed`, `ListedStored`, `MessagesFit` |
| `ServerListFaults` | 1 handler, 1 server, 1 button, 1 widget with up to 2 edits on their way, restarts and database errors | `SavedMatchesMemory`, `WidgetCurrent`, `ShownButtonsWork` |
| `ServerListEdit` | 1 handler, 1 server | violation of `EditKnowsMessage` |
| `AgentRegistry` | 2 agents with 2 sessions each, 2 guilds, 1 call of `saveAgentGuildId`, 1 failing database call, any number of restarts | `OneOwner`, `NeverOrphaned`, `ListedAreConnected`, `GuildsServed`, `ListedOwns`, `SubscribersToldAll` |
| `AgentWidget` | 1 agent with 2 sessions, 1 guild, 1 call of `saveAgentGuildId`, 2 messages, 1 failing edit, post or tick, or restart | `WidgetSettles` |
| `Pairing` | 1 agent, 2 guilds, 2 sharers and 2 pairers for 1 code, a clock of 2 ticks | `UsedOnceInTime`, `CodeStands`, `LinkedByConsent`, `PairingEnds` |
| `LogChannel` | 2 commands, 2 channels, 3 log messages, 3 threads, restarts and database errors | `SentWhereRecorded`, `SavedMatchesCache`, `ChannelExists`, `LogsEnd`, `CommandsEnd` |
| `CommandRouter` | the program's 20 declarations, and all lists of up to 3 over 5 ids that begin alike | `Unambiguous`, `ProgramServed` |

Each module with a passing run has its type invariant checked in one of them.

Why the bounds are enough to be interesting:

- *Two commands.* Every race of the status channel is between the command that built the widget, the one that takes over and a delete event; a guild may also start with a loaded configuration, which acts as a third builder. `MaxDeletions` bounds the users' deletions.
- *Two handlers*, in `ServerListSafety`, overlap in every pair of server operations; each runs any number of requests one after the other, so histories of any length are explored. Server, button, message and configuration ids are used once, which ends the exploration. The limits are the program's scaled down with the relations between them kept (`LayoutAssumption`), and there is one server and one button more than the limits allow. There is no widget here: the properties of this run do not speak of what Discord shows. One configuration object that a command creates and one that a restart builds mean that a handler can hold an object whose configuration was erased; one that was *replaced* needs a second object of a command, and so does a configuration created beside servers of an old one ("recreated"): in these runs it is met only by the theorems.
- *One widget and its edits*, in `ServerListFaults`: the handler, the steps of the build, the loss of the configuration, the deletion of the widget, the restart and the application or refusal of each edit interleave freely, so that an edit may arrive after later requests and after a restart, and the widget may outlive its configuration. `MaxEdits` bounds the edits on their way when a form is submitted; two are enough for one to overtake the other. There is one handler here, since handlers of one configuration take turns at its lock; the theorems are about any number. Larger instances were checked once and are too long to keep: two widgets with restarts, two buttons with restarts, and two configuration objects with restarts.
- *One move of a guild* against up to four sessions is the race of the registry. Overlapping moves are covered for every number of calls by the theorems of `IdentityStoreProofs` and `AgentRegistryProofs`.
- *Two sessions and two messages* let a notice of the first session arrive after the second has begun, and an edit of the first message after it was replaced. The registry's failures are left out here; a refused edit, a refused post, an exception in the timer and a restart are in.
- *Pairing.* Both ends of a code's life fall inside the clock's range; two commands race for the same code and for the same agent in different guilds.
- *Three threads* are one fewer than the handlers of the instance (two commands, two deletions), so that the program can block: every thread has a handler that waits for the exclusive lock, and the answer that would release it finds none. That state is reached and is for ever; `LogsEnd` and `CommandsEnd` name it (`Blocked`) and say that it is the only way in which a message or a command does not end. D++ sizes its pool by the machine, so nothing in the repository says that it cannot happen, nor that it does.

Deadlock is not checked: the models stop when the bounded requests are used up, and where a command must end a liveness property says so.

## Fairness

Safety properties assume none. `FairSpec` of a module adds weak fairness of

- every step of a command that has begun (`Continue`, `Handle`): D++ resumes each coroutine, and answers each request or reports its failure;
- delivery and handling of delete events, whichever comes next: D++ delivers every event it received (`Miss` is the delivery of one that ends in another component before it comes to this one);
- in `AgentWidget`, the registry's callbacks and notices, the component's subscription at the start, the steps of a command that has drawn its widget, the application of an edit and the ticks of the timer: D++ calls a timer at its interval for as long as the process runs;
- the logger's steps: it has a thread of its own;
- the clock in `Pairing`.

Users, agents and faults have no fairness: nobody has to press, answer, delete or fail.

## Proofs

Proved by TLAPS for every value of the constants, without assumptions other than the named ones of the modules on them. A theorem of a `*Proofs` module is about the specification it extends.

| Module | Theorem | Property |
|---|---|---|
| `StatusChannelProofs` | `TypeCorrect` | `TypeOK` |
| | `WidgetsInTheirChannel` | `WidgetInChannel` |
| | `CollectionFollowsCache` | `SavedMatchesCache` |
| | `LifecycleImplemented` | `ImplementsLifecycle`, the refinement of `WidgetLifecycle`, unless the process restarts |
| | `OnlyUsersEraseHolds` | `OnlyUsersErase`, an action property |
| | `NoWidgetLeaks` | `NoLeakedWidget`, whatever faults are possible |
| `ServerListProofs` | `TypeCorrect` | `TypeOK` |
| | `ListedServersStored` | `ListedStored` |
| | `PinnedServersResolved` | `PinResolved` |
| | `MessagesAccepted` | `MessagesFit` |
| | `DrawnMessagesFit` | (an operator theorem about `WidgetLayout`, used by `MessagesAccepted`) |
| | `PinnedServersListed` | `PinListed` |
| | `CollectionsMatchMemory` | `SavedMatchesMemory` |
| | `WidgetShowsMemory` | `WidgetCurrent` |
| | `WidgetButtonsWork` | `ShownButtonsWork` |
| `IdentityStoreProofs` | `GuildHasOneOwner` | `OneOwner` |
| | `GuildKeepsAnAgent` | `NeverOrphaned` |
| `AgentRegistryProofs` | `TypeCorrect` | `TypeOK` |
| | `RegistryKeepsOneOwner` | `OneOwner`, of the registry on top of the store |
| | `ListedWhileConnected` | `ListedAreConnected` |
| | `GuildsListOwners` | `ListedOwns` |
| | `QuietGuildsServed` | `GuildsServed` |
| | `ChangesReachSubscribers` | `SubscribersToldAll` |
| `AgentWidgetProofs` | `RegistryImplemented` | the specification of `AgentRegistry`, whose theorems therefore hold with the widgets on top |
| | `WidgetTypeCorrect` | `WidgetTypeOK` |
| | `EditsNamePosted` | (no run: an edit on its way names a widget posted for its guild) |
| | `FlagIsReset` | (no run: the timer's flag is set only while a tick is at work) |
| `PairingProofs` | `TypeCorrect` | `TypeOK` |
| | `CodesUsedOnce` | `UsedOnceInTime` |
| | `CodesStand` | `CodeStands` |
| | `LinksHaveConsent` | `LinkedByConsent`, an action property |
| `LogChannelProofs` | `TypeCorrect` | `TypeOK` |
| | `SentStaysRecorded` | `SentWhereRecorded` |
| | `CollectionFollowsCache` | `SavedMatchesCache` |
| | `RestingChannelExists` | `ChannelExists` |
| `CommandRouterProofs` | `PrefixesUnambiguous` | `Unambiguous` |
| | `TypeCorrect` | `TypeOK` |
| | `CleanProgramsServed` | (no run: declarations that do not conflict are all served, for any program) |
| | `ProgramCommandsServed` | `ProgramServed` |

No property is inductive as it stands. The strengthenings, each a definition before the lemmas that use it, and why they are needed:

- *`StatusChannelProofs`.* A command in `serverSent` or later that is still current recorded its agent widget in the channel the configuration has now; taking over clears both ids and the command id in one critical section, so a command that is not current cannot record. For the collection: without an incident every command works on the cached object, at most one is between its two saves and the cached object is locked then; the invariant says in each of these places what the document lacks.
  For the refinement (`Lifelike`): a current command posts in the recorded channel (`PostsFollow`), nobody else knows an object before it is stored (`FreshOK`), and an object in its command's hands records the agent widget exactly when that has been made (`DraftOK`); with these, each section of a handler that works on the object in force is a step of `WidgetLifecycle`, and each one that works on a detached object changes nothing that is seen. `OnlyUsersErase` needs `KnownOK`: a message is recorded by one object only (`UniqueOK`), while its command is at work by that command's own and only as long as it is current (`AuthorsOK`, `OwnersOK`), and the bot deletes one that is recorded nowhere, except where its command is about to forget it (`SpentOK`), so that the event of such a deletion finds no configuration. `NoLeakedWidget` is inductive together with `Guarded`: while nothing was forked and every write was made, a command at work holds the object in force, if there is one, and a message that is taken off it goes into the hands of the command that took it off (`PurgeOK` says what that may be, `LiveOK` what a command has posted at each of its places, `OwnersRun` that a configuration being built belongs to a command at work). A restart has to come out at the same: between commands the document records what the object does, which is `Coherent`.
- *`ServerListProofs`.* `ServersInv` relates the list to the documents: ids are given once (`IdsNew`), what is listed has a document or a handler about to write one (`DocumentsOK`), what a handler is removing is on no list any more (`GoneOK`), and the sizes follow from `MaxServers` being checked again when the form is submitted (`SizesOK`). `ButtonsInv` needs that two handlers are never between two steps under one lock (`LocksOK`). `PinInv` carries the pin through the two updates of a removal: it is taken back in the document before the server's document goes (`PinSaved`, `PinStored`, `GoneUnpinned`), which is what a restart in between relies on. `MessagesAccepted` puts the sizes into `DrawnMessagesFit`, where rows are counted. `Matches` is about what is kept twice: the buttons and documents of a server (`DocsKnown`, `ButtonsSaved`), the guild's document (`DocSaved`), the widget and the draft of a build (`BuildsOK`, `Drawn`), and the list and the pin (`KnownListed`, `PinHeld`). Each may be behind only while a handler has the lock, and names the incidents it survives, which are not the same: `WidgetCurrent` turned out to hold also where a configuration was created anew beside servers of the old one, and says so. What Discord shows is followed through the edits on their way (`Draws`): applying the newest edit, refusing it or overtaking it each leads to one of the cases of `WillShow`, and a widget that is yet to be posted has no edits (`MessagesUsed`). `WorksInv` is about every drawing there is (`Around`: shown, on its way, or the draft of a build): each of its buttons is on a stored server or was removed, and what memory loses, in a handler or at a restart, was removed by somebody (`Accounted`).
- *`IdentityStoreProofs`.* `Owned`: documents are never removed, so a call only adds a guild to a document that exists, and the unique index admits it only when no other one has it. `Held`: a guild without an agent is in the hands of a call that is about to add it, or about to restore it with the one failure already spent; a restart lets go of it, and `assigned` with it.
- *`AgentRegistryProofs`.* `SessionsInv` describes the order of callbacks: the sessions of an agent end oldest first (`AliveOK`) and are announced in order, each once (`AnnouncedInOrder`); one that is alive is listed, followed by a listed one, or yet to be announced (`StartsAnnounced`), and the end of one that is listed or yet to be is still to come (`EndsAnnounced`). `MapsInv`: while nothing was stale and no call failed, a guild is listed with its agent's session, except where a call is moving it or the listener is about to list it. `ToldInv`: a guild whose subscribers do not know the map's entry has a notice on its way.
- *`AgentWidgetProofs`.* The registry's types (`Typed`) say that a notice names a guild. `CommandsOK`: a command forgets the last widget before it draws the next, so that no notice finds a message to edit in between. `PostedOK`: what is recorded was posted, also after a restart that loads an older document. `TimerOK`: the flag stands for a tick at work.
- *`PairingProofs`.* `CodesOK` and `UsedOK` tie a code in the table to the sharer that issued it and to the pairers that took it; `ConsentOK` ties a pairer that is about to save to the agent's answer or to a code.
- *`LogChannelProofs`.* `FreshOK`: nobody knows a command's object before it is stored; `SavedOK` and `ExistsOK` say, for each place of a handler, what collection and Discord lack.
- *`CommandRouterProofs`.* Registered prefixes are pairwise incomparable, and two prefixes of one id are comparable. `Sound` and `Complete`: the tables hold declarations of their kind and, when no two conflict, each one made so far; that the program's own declarations do not conflict is checked pair by pair (`ProgramClean`).

Each invariance proof has a lemma for the initial states and one for the steps, with a step per action. The bound of `GuildKeepsAnAgent` is needed: with two failing calls the restoration fails too. So is its exception: a process that ends between the `$pull` and the `$addToSet` of a move leaves the guild without an agent until it is paired again. The attempt to prove `QuietGuildsServed` showed a behaviour beyond the run's one move: with three overlapping moves of one guild, the call whose `$push` lost to another restores the guild to an agent it read long before, after the maps were written, and the registry lists another agent than the collection. TLC confirms it with three calls; `stale` covers it, and the property says so.

One theorem excludes a fault by its assumption. With a restart the build in progress ends although no step of `WidgetLifecycle` ends it, so `LifecycleImplemented` says nothing of a process that restarts. What the other properties leave out stands in the property: `NoLeakedWidget` holds while memory and the collection had no reason to differ (`Intact`) and leaves out the messages in `left`, which Discord refused to delete, or posted with an error for an answer, or whose configuration went because a user deleted the other widget.

Only model-checked: the liveness properties `BuildingEnds`, `DeletionNoticed`, `WidgetSettles`, `PairingEnds`, `LogsEnd` and `CommandsEnd`, which are out of reach of the prover (TLAPS has no rules for fairness), and the two runs that show a violation. Every invariant, action property and refinement that a passing run checks is a theorem.

## What the checks found

1. `StatusChannelPress`. Deleting only the agent widget erases the configuration (`SSC:1525`) but leaves the server widget, whose menus and buttons then answer "No status channel is set for this guild. You shouldn't be able to press this." (`SSC:64`).
2. `ServerListEdit`. `updateServerStatusWidget` dereferences the message id because "we already know the channel and the ID of the message" (`SSC:1230`), but a server or a button may be added or removed while the widget is being built or after it could not be, when the id is empty (`SSC:1236`).

The premises of the properties name further windows that the code leaves open, among them: two first commands at once leave two documents, and the widgets of the one that is replaced; a message that Discord refuses to delete, or posts with an error for an answer, stays; an edit of the server widget that Discord refuses, or applies after a later one, is not sent again; a database error leaves the widget marked as being built; a delete event whose delivery ends in an exception of another component, or that is on its way when the process restarts, is lost; a channel deleted between the lookup and the store leaves a configuration without a channel; a failing or interrupted removal leaves servers that no list has; handlers of two configuration objects of one guild do not share a lock; log messages and handlers of one configuration can take all threads and wait for each other; removing the pinned server during a build saves the agent widget of a command that may not finish; a process that ends in the middle of a move leaves a guild without an agent; the registry may list a stale assignment when a guild moves while an agent connects, or when moves of one guild overlap.

## What is not modelled

- The HTTP request behind a custom button and its answer: I/O by the agent, without effect on the bot. Whether a press is accepted and to which session it goes is modelled.
- The data race on a server's button vector (`SSC:662`): undefined behaviour, after which no property of the press can hold; listed as a hazard.
- `MongoDBManager`, `DatabaseManager`, `Document.hpp`, `Log.cpp`, `main.cpp`: I/O and construction.
- Unsubscribing from the registry: part of the end of the process.
- `YippeeComponent`: one stateless reply; its declaration is part of `CommandRouter`.
- What D++ does with an empty list of commands at a second READY: its source is not in the repository; it is taken to send nothing.
- Permission checks and texts: checks refuse a request before any state is read, texts have no consequences.

## Plan

Done, in this order: `StatusChannel` with `WidgetLifecycle`; `IdentityStore` and `AgentRegistry`; `Pairing`; `LogChannel`; `CommandRouter`; `ServerList`; then `AgentWidget`, `WidgetLayout`, the saved agent widget of an unfinished build, deletions that are refused, and the edits of the server widget with their answers; and the theorems above.

Left: theorems beyond what the runs check, where the models say more than one property names. For the components above: that `AgentWidget` draws a listed session only as the registry's theorems describe it, and an abstract specification of the registry, one connected agent per guild, which `AgentRegistry` implements while nothing is stale.
