# Verification of theseed

theseed is a distributed game server in C++: a client logs in at a LoginApp, enters the game at a
BaseApp, and its entity lives in two parts, a *base part* on the BaseApp and a *cell part* on one
of several CellApps, between which it can migrate.  This directory holds TLA+ models of that
program, the TLC runs that check them on small instances and the theorems that TLAPS proves about
them for every instance.

Modules, runs, mutants and the lines of code every definition stands for are listed in
`PROJECT.json`.  To reproduce a run: `tlc -config Lifecycle.cfg MCEntityRuntime`; to check the
proofs: `tlapm EntityRuntime_proofs.tla` and `tlapm LoginApp_proofs.tla`.

1. Inventory of the system
2. Overview of the modules and runs
3. The modules, their state and actions, bounds and fairness
4. What is proved
5. Where code and documentation differ
6. What is not modelled
7. Plan

## 1. Inventory of the system

Each process of theseed is one thread that runs a tick: the tick drains the process's connections,
fires timers, builds synchronisation messages and flushes them.  Concurrency is therefore between
processes: messages of different senders overtake each other, a process acts on knowledge that a
message still on its way contradicts, and a handler that blocks (a database request) runs other
messages, or drops them, in its middle.

| Component (under `src/`) | State it keeps | Operations | Hard behaviour | What makes it correct |
|---|---|---|---|---|
| **BaseRuntime** `core/BaseRuntime.cpp` | `entities_` and their states, `cellEntityCall`, `pendingDestructions_`, dirty properties | create, load, save, destroy entity; request and destroy cells; handle cellReady, cellDestroyed, spawnRequest, property syncs | the cell's address is learned and lost by messages; destruction waits for an answer | the address is right; every destruction ends; nothing is orphaned |
| **CellRuntime** `runtime/CellRuntime.cpp` | `ownedEntities_`, `migrationRoutes_`, spaces, ghosts, entity timers | create and destroy cell, migrate, forward calls, spawn, teleport, ghost sync | two-phase hand-over without acknowledgement of failure, a route window with a TTL | one authoritative body; no call's effect lost; migrations end |
| **BaseApp** `core/BaseApp.cpp` | client sessions, session-to-entity table | EnterGame, client actions, cleanup on disconnect | a disconnect races the creation of the cell | entity and session end together |
| **CellApp** `core/CellApp.cpp` | wiring of a CellRuntime, local entities | create and destroy a local entity | its entities share spaces with CellRuntime's | an entity leaves its space when it goes |
| **EntityCall, TransportHub, transports** `runtime/` | peers, FIFO connections, write buffers | send, receive, flush, connect, disconnect | identity learned from traffic, reconnects, full buffers | per-connection FIFO, accepted means delivered while connected |
| **LoginApp** `login/LoginApp.cpp` | two links (database, machine) with Backoff, PendingAck, Up; client sessions and bindings | login, realm selection, link supervision, blocking `dbRequest` | a blocking request inside a handler; late answers | an answer goes to its request; a link recovers |
| **Session linkage** `foundation/SessionStore.cpp`, `control/machine/MachineDaemon.cpp` | session rows with TTL, index, bindings | save, load, revoke, list, kick notice | two non-atomic writes in two processes | a revoked session is not revived; its connection closes |
| **DBApp, RemoteEntityStore** `db/` | entities, accounts, id counter | load, save, allocate, query and create account | a blocking request shares the hub with the game traffic | no message lost; ids unique |
| **Spaces, AoI, witnesses** `runtime/SpaceRuntime.cpp`, `AOI.cpp`, `Witness.cpp` | sorted position lists, triggers' inside sets, staged deltas | add, move, remove, refresh, collect | removal and re-entry between refreshes; detail levels | enter and leave alternate; the last value wins |
| **Property replication** `runtime/PropertyBlock.cpp`, `PropertyReplication.cpp` | values, dirty flags | set, diff, apply, clear | crossing deltas; snapshot of a migration | both sides converge |
| **TimerWheel** `foundation/TimerWheel.cpp` | four levels of slots, free list | add, cancel, advance | cancellation and reuse inside a batch, cascade edges | a timer fires once, when due |
| **TickScheduler, RuntimeLoop** `runtime/` | phases, posted tasks | register, post, run, stop | registration during a phase | every phase sees the registered objects |
| **RateLimiter, RedisProvider** `foundation/` | bucket, lock with TTL and owner token | tryConsume | lock expiry inside the critical section | no token is spent twice |
| **MachineDaemon, ProcessSupervisor** `control/machine/` | managed children, audit, telemetry | start, stop, restart, reap, govern | a child that does not die; partial restart | a managed process is running or known gone |
| **BackupTopologyCoordinator** `runtime/` | active and staging versions, acknowledgements | rebuild, ack, promote, abort | stale acknowledgements, membership changes while priming | promotion only when every member is primed |
| **HotUpdate** `scripting/` | version history | apply, roll back | rollback and version reuse | a version names one content |
| **FileEntityStore, SQL stores** `core/FileEntityStore.cpp`, `db/` | files; rows, the account index, the session | save, load, allocId, accounts | a crash between truncation and writing; a session lost inside a transaction | acknowledged means stored; an account is whole; an id is given once |
| **OpsControlCenter** `control/ops/` | roster, order of arrival, profile index, copies | register, report, prune, deregister, evict, relay | two containers that must agree; nodes that come back | the bound holds and the oldest goes |
| **GroupManager** `runtime/GroupManager.cpp` | members as weak references | add, remove, broadcast, clean up | handlers change the group under the loop | members hear, and nobody else |
| **Entity helpers** `runtime/StateMachine.cpp`, `BehaviorTree.cpp`, `Controller.cpp` | the current state, node memories, controllers | set state, tick | hooks and callbacks that call back | hooks know the state; a run starts afresh; a move arrives or ends |
| **Spans, metrics** `foundation/Tracing.cpp`, `MetricsRegistry.cpp`, `control/machine/Otlp*` | a queue between threads, atomic samples | emit, install, uninstall, collect, post | emitters that change under running threads | no span is lost silently; a sample is a value that was true |
| **Bots** `tools/bots/BotClient.cpp` | one client's state | log in, select, play, retry | an answer, a close and a timeout in one tick | every attempt ends, and is counted |
| **RealmApp, definitions, operations pages, logs** | tables | look-ups | none that spans steps | |

The components meet in these places: the game layer of BaseApp calls BaseRuntime (EnterGame,
disconnect); BaseRuntime and CellRuntime exchange `entity.createCell`, `entity.destroyCell`,
`entity.cellReady`, `entity.cellDestroyed`, `entity.spawnRequest`, property syncs and method calls;
CellRuntimes exchange `migration.transfer`, `migration.commit`, forwarded calls and ghost syncs;
LoginApp asks DBApp and listens to the MachineDaemon; all of them use a TransportHub.

The hazards, each at the line where it bites and with the properties that watch it, are the list
`hazards` of `PROJECT.json`.

## 2. Overview of the modules and runs

| Module | Extends, or is refined by | Part of the system |
|---|---|---|
| `EntityRuntime` | implements `CellPlacement` | base parts, cell bodies, migration, calls |
| `LoginApp` | | logins, the database link, DBApp's accounts and hub |
| `SessionLinkage` | | session store, realm selection, operators' session commands, kick notices, the link to the machine daemon |
| `MachineDaemon` | extends `ProcessSupervisor` and `OpsControlCenter` | operators' commands on a host, its child processes, the center |
| `Transport` | implements `LossyQueue` | channels, write buffer, the wire, reassembly |
| `Persistence` | extends `EntityStores` | a base's entities, RemoteEntityStore, DBApp, the three stores |
| `CellSpaces` | | spaces, triggers, witnesses, teleport, what clients see |
| `PropertySync` | | property values and deltas between base, bodies, ghost and client |
| `Services` | extends `TimerWheel` (implements `TimerService`), `TickLoop`, `Movement`, `SpanExport`, `RateLimit`, `BackupTopology`, `HotUpdate`, `Bots`, `BehaviorTree`, `StateMachine`, `PlayerActions`, `Groups`, `Metrics` | the facilities a process is built from |
| `EntityRuntime_proofs`, `LoginApp_proofs`, `SessionLinkage_proofs`, `MachineDaemon_proofs`, `Persistence_proofs`, `PropertySync_proofs`, `CellSpaces_proofs`, `Services_proofs` | each extends the module it is about | theorems |
| `Lists` | used by `OpsControlCenter`, `TimerWheel`, `TickLoop`, `Movement`, `CellSpaces` | the erase-remove idiom |
| `MC...` | one for each component whose constants need more than a configuration can say | definitions the configurations need |

| Run | What it shows |
|---|---|
| `lifecycle` | `BindingIsTruthful`, `PendingIsAnswered`, `DestroyCompletes`: without migrations the address the base holds is right, and every destruction ends, with the doubled request of a disconnect too |
| `migration` | `NoEffectIsLost`, `MigratingIsAnswered`, `MigrationCompletes`, `AuthorityEndsByDestroy`, `PlacementSpec`: over a reliable transport the effects of the calls that were executed travel with the entity, every migration ends, and the runtime implements `CellPlacement` |
| `faults` | `TypeOK`, `SingleAuthority`, `PendingIsRegistered`: with a refused send and a lapsed route an entity has never two authoritative bodies |
| `login` | `TypeOK`, `AccountIsUnique`, `UpIsReachable`, `LoginEnds`, `LinkRecovers`: through crashes of DBApp, cuts, early time-outs and restarts of LoginApp every login ends, no name is registered twice, and the link heals unless DBApp keeps a dead peer |
| `late_answers` | `SessionRowIsTruthful` is violated: one early time-out, and a session row names one account with the id of another (section 5) |
| `sessions` | `RowsAreSound`, `RevokedIsGone`, `ClosedWasKicked`, `KickedLoginEnds`, `NoticeLinkRecovers`: two processes write one store command by command; rows, index and bindings stay in step, a kick closes the right connection |
| `governance` | `SupervisionIsSound`, `RosterIsOrdered`, `ShutdownHappens`: the supervisor manages its own children only, though pids are used again; the center's roster and its order agree; a node told to shut down goes |
| `transport` | `KeepsOrder` (the refinement of `LossyQueue`), `AcceptedArrives` |
| `storage` | `AckedIsStored`, `AccountsAreWhole`, `IdIsGivenOnce`, `ChangeIsStored`, for each of the three stores, with a crash, a failed statement, a lost session or a full disk anywhere |
| `world` | `ViewIsInRange`, `ClientSeesTheView`: a witness sees who is in range, and its client sees the same |
| `properties` | `OwnersAreCurrent`, `ClientIsCurrent`, `GhostIsCurrent`: every copy of a property is the newest, or the newest is marked or under way |
| `services` | `TickIsSound`, `BooksAreKept`, `RatesAreKept`, `FiresWhenDue` (the refinement of `TimerService`), `WhatBeganEnds` |

Some properties are conjunctions, each conjunct a definition with its own comment; the section of
the module names them.  A property of what the code loses is stated with a *history variable* that
records each loss by its cause, so that every other loss is a violation; the causes are listed
there and in section 5.

In all models a process is one thread and a handler that does not block is one action: the sends a
handler makes, with their possible refusals, are part of its action.  What blocks, or what two
processes or threads do to shared state, is cut where the other one may act.  The environment
(players, operators, game code, the network's faults) is bounded by constants named `Max...` and
never fair; deadlock is not checked where these bounds end every behaviour, which is everywhere.

## 3. The modules

### 3.1 `EntityRuntime`: one BaseApp and several CellApps

State and code:

| Variable | In the code |
|---|---|
| `baseState`, `cellCall`, `pendingDestructions` | `BaseRuntime::entities_` with each `Entity::state()`, the base part's `cellEntityCall`, `pendingDestructions_` |
| `body` | `CellRuntime::ownedEntities_` of every CellApp with the body's `EntityState` |
| `work`, `applied` | what the properties of a body contain: how many calls ran on this body (and, as a ghost, on any body of the entity) |
| `migrationRoutes` | `CellRuntime::migrationRoutes_`, with the expiry as a flag |
| `net` | the connections: one FIFO queue for every ordered pair of processes |
| `epochs`, `used` | bounds on what the environment may do |

Every handler is one action, as a process is one thread and runs a handler to its end: the sends a
handler makes, with their possible refusals, are part of its action.  `HandleCellReady`,
`HandleCellDestroyed`, `HandleSpawnRequest`, `DestroyEntity`, `CompleteBaseDestruction` are
BaseRuntime; `EnterGame`, `ClientDisconnect`, `CallCell` are BaseApp's use of it;
`HandleCreateCell`, `HandleDestroyCell`, `BeginMigration`, `ApplyMigrationTransfer`,
`ApplyMigrationCommit`, `DispatchCall`, `RequestSpawnEntity`, `ClearMigrationRoute` are
CellRuntime; `ExpireRoute` is the clock.  `beginMigration`, `clearMigrationRoute` and
`requestSpawnEntity` are the runtime's interface for a game's own code: nothing in the repository
but tests calls them.

### 3.2 `CellPlacement`: what the runtime promises

The abstract specification knows one thing about an entity: where its cell part is (requested at,
hosted by or travelling to a CellApp; or removed).  What travels lands, what was requested is
created.  `EntityRuntime` implements it under the mapping `PlaceOf`, checked as `PlacementSpec`,
in the instance where it can be: two CellApps and a transport that accepts every message.

Runs: `lifecycle` (2 entities, 2 CellApps, 1 call, 1 spawn, no migration), `migration` (1 entity, 2
CellApps, 3 migrations, 1 call, reliable sends), `faults` (as `migration`, with one refused send
and one route that lapses).

The bounds.  Entities do not interact but for spawning, so one is enough where nothing is spawned
and two where one spawns another.  Two CellApps make a migration and a return possible.  Three migrations allow leaving, returning and leaving again: the
route of the first migration is then still there when the third opens its own.  `MaxBacklog` stops
the game layer (never a handler) from adding to a connection that already holds that many
messages, which keeps the queues finite and still lets two requests of the base, or a request and
a call, be on the way together.  One refusal and one lapse are placed at any of the sends and
routes.

Fairness (`FairSpec`): weak fairness of `Deliver(s, d)` for every connection, nothing else.
`pumpInbound` of both runtimes loops until `receive` returns nothing, in every tick
(`src/src/runtime/CellRuntime.cpp:372`, `src/src/core/BaseRuntime.cpp:380`), so a queued message
is handled.  The environment (players, game code, clock) is not fair.

### 3.3 `LoginApp`: logins over a supervised link to DBApp

LoginApp and DBApp are two processes that talk over a TCP connection, which either end, a crash or
the network may end.  The module has both, and both ends' `TransportHub`:

| Variable | In the code |
|---|---|
| `link`, `transport` | `dbLinkState_`, `dbTransport_` (the same object as the hub's `peers_[DBApp]`) |
| `pc`, `login` | where the thread of LoginApp is: between two clients, or inside a `dbRequest` of `handleLogin` |
| `sessions` | the session store's rows: account and userId |
| `running` | whether DBApp's process is up |
| `peer`, `awaiting` | DBApp's hub: `peers_[LoginApp]`, and `awaitingIdentity_` with the listener's backlog |
| `accounts` | the Account entities in DBApp's files; the position is the id |
| `live`, `toDB`, `toLogin` | the connections that still carry messages, and what is on them |
| `spent` | the bounds on what the environment may do |

`DrainInvocations`, `AttemptDbLink`, `LoseDbLink` and `ProbeAckTimeout` are the part of
`LoginApp::tick` that belongs to the link (`superviseDbLink`, one action per branch);
`HandleLogin`, `SkipMessage`, `QueryAnswered`, `CreateAnswered`, `GiveUp` and `GiveUpEarly` are
`handleLogin` cut where `dbRequest` waits, because DBApp and the network act there;
`HandleFromPeer` and `HandleFromNew` are DBApp's `processMessages` with what `TransportHub::receive`
does to the peers.  `Crash`, `Restart`, `Cut` and `Relaunch` are the environment: DBApp dies and
comes back, the network loses the connection, LoginApp is restarted.

Runs: `login` (1 account, 2 passwords, 3 connections, 3 logins, 2 early time-outs, 1 cut, 1 crash of
DBApp, 1 restart of LoginApp) and `late_answers` (2 accounts, 1 password, 2 connections, 3 logins,
1 early time-out, nothing else), in which `SessionRowIsTruthful` fails.

The bounds.  Connections are interchangeable and are used again once nobody holds them: DBApp's
peer, one that awaits its identity and LoginApp's own make three.  A wrong match needs an account
that exists, a query that times out and the query that takes its answer, hence three logins; a
second registration of one name needs two stale answers, hence two early time-outs.  A time-out
that is not early (nothing can arrive any more) is free, so that runs without early ones still have
every login that fails because DBApp is gone.

Fairness: both processes tick for ever.  DBApp handles what has arrived, a wait receives what has
arrived and ends when nothing can arrive (weak fairness: nothing but these steps disables them).
LoginApp drains and supervises in every tick, but between two ticks a login may wait, so
`DrainInvocations`, `AttemptDbLink` and `LoseDbLink` are strongly fair; the back-off is bounded by
`dbReconnectMaxDelay`.  A restart of DBApp is not assumed: `LinkRecovers` promises something only
while DBApp runs.  It covers cuts and early time-outs too; what it excepts is `DeadPeerKept`, the
state in which DBApp's hub holds a connection that is gone (section 5).

### 3.4 `SessionLinkage`: one session store, two processes

| Variable | In the code |
|---|---|
| `row`, `index` | the keys `session:<token>` and the sorted set `sessions:index` of `SessionStore` |
| `open`, `binding` | LoginApp's client sessions and `bindings_` |
| `step`, `command` | where LoginApp stands in a store operation, and the daemon in an operator's command |
| `link`, `transport`, `peer`, `live`, `toDaemon`, `toLogin` | `machineLinkState_`, the connection's ends in both hubs, and what is on it |
| `owner`, `selected`, `revoked` | history: the account of a token, tokens selected, tokens revoked |

Every command of the store is atomic, an operation of `SessionStore` is several.  `HandleLogin`,
`HandleSelectRealm`, `LoadBeforePatch`, `SaveFirst`, `SaveSecond` are `handleLogin` and
`handleSelectRealm` command by command; `HandleKickSession`, `HandleBatch`, `ScanNext`, `KickNext`,
`RevokeRow`, `RevokeIndex`, `ExtendNext`, `Heal`, `ListingDone` are the daemon's `machine.kick-*`,
`extend-*` and `list-sessions` with the listing that repairs the index; `DrainInvocations` receives
notices and closes connections (`handleSessionRevoked`); `AttemptMachineLink`,
`MarkMachineLinkDown` and `HandleProbe` supervise the link.  `Expire`, `Cut` and `DaemonRestart` are
the environment.

`RowsAreSound` is `TypeOK`, `RowMatchesBinding` (what a notice is matched by) and `RowIsIndexed` (a
session that can be used can be listed).  A realm selection that began before a revocation brings
the row back (section 5); `selected` is this exception and the only one.

The instance has two connections of one account, two tokens, one realm, one operator's command (of
each kind and scope) and one trouble, placed anywhere: a player leaves, a row expires, the link is cut
or the daemon restarts.  A kick needs the session that is revoked and another of the same account that
must stay; no property is about two troubles at once.  Fairness:
LoginApp finishes its store operation and drains its hub in every tick, the daemon its command; both
loops are unconditional.

### 3.5 `MachineDaemon`, with `ProcessSupervisor` and `OpsControlCenter`

`ProcessSupervisor` has the host's process table (`process`, external), `managed`
(`managedProcesses_`) and `waiting`, the termination that blocks the daemon: SIGTERM, a grace
period, SIGKILL, a second one, after which a child that has not gone is `abandoned`
(`ProcessSupervisor.cpp:581`).  Pids are used again; a child may ignore SIGTERM or hang in the kernel.
`OpsControlCenter` is operators on a record: the roster with its order of arrival, eviction,
pruning, deregistration, the profile index, the copies of artifacts, the trail.  `MachineDaemon` has
one action for every governed command (`ExecuteStart`, `ExecuteStop`, `Terminate`, `ConfigApply`,
`SetDraining`, `Shutdown`, `ProfileTrigger`, ...), `Reject` for one that role or trust forbids, each
with its audit entry, and `TickEnd`, what a tick sends to the center.

`SupervisionIsSound` is `TypeOK`, `ManagedAreOurs`, `StoppedIsForgotten` and `CopiesAreDistinct`.
Two pids are what it takes to give one pid to another process, a roster of one makes the eviction
happen, a ring of one artifact makes it overflow.  Fairness: a tick ends, the grace periods run out,
and a child that heeds a signal goes.

### 3.6 `Transport` and `LossyQueue`

One direction of a connection: `channel` (`Channel::outbound_`), `sendBuffer`, `wire`, `recvBuffer`,
`inbox` and `handed`, which is what `receive()` gave the component.  A frame travels in pieces, so
that partial writes and partial frames happen.  `Send` is `NetworkTransport::send` with the
back-pressure of both channel classes; `Tick` polls the connection, flushes and sends heartbeats;
`PeerTick` reads, reassembles and rejects frames that are too large; `Receive` hands over.

`LossyQueue` says what the game may rely on: messages arrive whole, once and in order, and what is
lost is the end of what was on its way.  `KeepsOrder` is this refinement, for the ordered class;
`AcceptedArrives` adds that only an end of the connection or a refused flush (`refused`, section 5)
loses anything.  Three sends, a high watermark of two, a write buffer of four pieces and a wire of
three make every limit bind.  Fairness: both ends tick, the component receives, and a pending
connection is resolved.

### 3.7 `Persistence` and `EntityStores`

`EntityStores` is DBApp with each of its stores: `db` is what is stored, `txn` the open
transaction's view, `link` the session with the database, `job` the request DBApp works on, statement
by statement (a file is truncated, then written; a counter is read, then written; an account is a
row and an index row in one transaction).  `Persistence` is a base with `RemoteEntityStore`: `call`
is the request its thread waits for, `path` its connection.  `Change`, `CreateEntity`, `AutoSave`,
`Destroy`, `InitBase` are BaseRuntime's and BaseApp's operations, `Hear` and `TimeOut` the blocking
wait.  The backend and `dbAutoCreateSchema` are chosen in `Init`.

`mishap` is the history of what breaks a promise of the file store by itself: a crash or a full disk
between truncation and writing ("torn"), a counter file that cannot be opened ("unwritten").  A write
is buffered, so that a full disk may show only when the file is closed, after `save` has looked: the
save then reports success with its file torn (`Writes`, `WriteFile`); `allocId` never looks.
`AckedIsStored` excepts the entity whose file is torn and nothing else.  `AccountsAreWhole` holds at
every moment, so that it also sees a transaction that is half done; it excepts only the accounts of
`halved`, those whose own transaction lost its MySQL session, and one whose index row another took.
The properties hold for everything else: refused statements, sessions lost elsewhere, retries, late
answers, crashes of either process.  Two ids, two
versions and one user suffice for a second entity, a later version and a name that is asked for
twice; one trouble (`MaxTroubles`) is placed at every statement.  Fairness: DBApp works, answers are
received, a wait ends, the autosave comes round again.

### 3.8 `CellSpaces`

| Variable | In the code |
|---|---|
| `phase`, `ops` | the tick's phase; operations done in it |
| `spaces`, `space`, `position`, `axis` | `spaceRuntimes_`, `entitySpaceMap_`, the coordinate nodes and the sorted list |
| `held`, `born` | CellApp's own entities; avatars that have a cell part |
| `witness`, `staged` | the witnesses with their trigger, view and pending events; `stagedPositions_` |
| `wire`, `known` | messages through base and BaseApp to a client; what the client was told |
| `back`, `misled`, `deaf`, `losses` | history: who came back between two refreshes; of whom a client was told a place it had left before it came back; clients that lost a message |

`CreateCell`, `CreateEntity`, `DestroyCell`, `DestroyEntity`, `HandleTeleport`, `ScriptTeleport`,
`DestroySpace`, `Watch` are the operations in the phases Network and Script; a teleport that the base
asks for makes the space even if it then fails, and the notice of a change of space may be refused
like every other send (`SpaceChanged`); `EntityPhase` moves
entities and refreshes triggers; `SyncAndFlush` builds and sends what the witnesses saw (with a
possible refusal); `Relay` is the way to the client.

A player and two other entities, two spaces, three points of which two are in range of each other,
one operation per phase and one mover per tick: the properties relate two refreshes, and an operation
in each of the two phases between them gives removal and return.  What is staged lives for one phase
only: that one which moved in the tick leaves, comes back elsewhere and is watched anew, so that both
its entry and its old place are sent, takes three operations in a phase.  The proof, which is for any number of
them, is what showed it, and the exception `misled` of `ClientSeesTheView` is for that; in `world`
`misled` stays empty.  With `Npcs = {n}` and `MaxOps = 3` the configuration reaches it
(737,261 states, and the property holds).  There is no liveness
here: what a client is owed is stated as a fold over what is under way.  Positions and ranges are
integers, and the height is left out: what a range test rounds is not part of the model.

### 3.9 `PropertySync`

`value`, `runtime`, `view` and `client` are the property block of each part and its dirty masks;
`net`, `wire` and `screen` the messages and what the client shows.  `BaseWrite` and `CellWrite` are
scripts; `SyncToCells`, `CellSync`, `FlushClient` build the deltas of a tick and clear the masks;
`HandleCreateCell`, `SyncFromBase`, `SyncFromCell`, `BeginMigration`, `ApplyMigrationTransfer`,
`ApplyMigrationCommit`, `EnsureRealGhost`, `ApplyGhostSync` are the handlers.  A value is the number
of the write that made it; each property has one writer, as the design asks
(`docs/design/2-replication-and-space/02-ghost-and-witness.md:172`).

`OwnersAreCurrent` is `TypeOK`, `CellIsCurrent` and `BaseIsCurrent`.  What the code loses is recorded
by cause: `missed` (a delta of the base that met a leaving body, a string that does not travel),
`untold` (a body's change in the tick of its migration, an overtaken or refused delta), `unseen` (the
same for the ghost, and what a ghost proxy lacks at its creation), `unheard` (a refused send to the
client).  With a second migration the body may come back to a CellApp that still has messages on
their way to and from the base.  Deltas carry no version, so what an earlier body sent, or was sent,
may then be applied over a newer value: `missed` and `unseen` record that too, where it happens
(`Overtaken`).  A transfer that meets a body is dropped, as in the code; with two CellApps this never
happens, since the commit that removes the body precedes it on its connection, and the theorems, for
any number of CellApps, cover it.  Two properties per side, one of them a string, two writes, two migrations and one
refusal put every pair of a write and a step of a migration in both orders.

### 3.10 `Services`: the facilities of a process

The facilities share no state, so a behaviour of `Services` follows one of them, named by `focus`,
and the others are absent.  This loses no behaviour of a facility.

| Module | Code | State and steps | What is shown |
|---|---|---|---|
| `TimerWheel` | `TimerWheel.cpp`, entity timers of `CellRuntime.cpp` | entries, free list, rings; an advance is cut at every callback, which may add and cancel | `FiresWhenDue`: it implements `TimerService` (at the very tick, once per period, never after a cancel); `SlotsAreSound`; `OldTimersAreSilent` |
| `TickLoop` | `TickScheduler.cpp`, `RuntimeLoop.cpp`, the pumps of `CellRuntime.cpp` | phases with a snapshot, posted tasks, spaces that come and go, stop | `BuildComesLast`; a loop told to stop ends |
| `Movement` | `Controller.cpp` | controllers whose callbacks add and remove controllers | `MovesUnderControl`; moves end |
| `SpanExport` | `OtlpTraceExporter.cpp`, `Tracing.cpp` | two emitting threads, the worker, the control thread, step by step | `HostHearsEverySpan`; an uninstall ends |
| `RateLimit` | `RateLimiter.cpp`, `RedisProvider.cpp` | two callers, the lock with TTL and token, two clocks | `RateIsKept` |
| `BackupTopology` | `BackupTopologyCoordinator.cpp` | members, rebuild, late acknowledgements, abort, promotion | `PrimedBeforePromoted` |
| `HotUpdate` | `HotUpdate.cpp` | change sets, history, rollback | `StoresMatchHistory` |
| `Bots` | `BotClient.cpp` | a bot's pump with its frames, closes and time-outs | `RetriesAreCounted`; a request is settled |
| `BehaviorTree` | `BehaviorTree.cpp` | two trees of eight and six nodes, walked node by node, actions that reset the tree | `RunsStartFresh` |
| `StateMachine` | `StateMachine.cpp` | a stack of nested `setState` calls | `HooksKnowTheState` |
| `PlayerActions` | `Entity.cpp`, `SpaceRuntime.cpp`, `CellRuntime.cpp`, `BaseRuntime.cpp`, `BaseApp.cpp` | input queue and its handlers, client events, one migration | `PlayersAreServed` |
| `Groups` | `GroupManager.cpp`, `EntityRef.cpp` | members as references to bodies, a broadcast cut at every handler | `GroupsHearTheirOwn` |
| `Metrics` | `MetricsRegistry.cpp`, `OtlpMetricsExporter.cpp` | two writers, a collection name by name, posts that may be lost | `SamplesAreSound` |

`TickIsSound`, `BooksAreKept` and `RatesAreKept` are the conjunctions of the safety properties, by
focus; `WhatBeganEnds` of the liveness ones.

In `TimerWheel`, `DestroyBody` is a body that ends with its timers (`handleDestroyCell`,
`destroySpace`), `LeaveTimers` one that goes by `removeEntity`, for a migration or from
`CellApp::destroyEntity`, which leaves them on the wheel and on record.  `LoseCallback` is the
undefined behaviour of a periodic callback that adds a timer (section 5).

In `RateLimit` time and tokens are counted in a unit that may be as small a fraction of a token as one
likes, and the bucket's row has `Precision` significant digits, as `encode` writes six: `WriteBack`
stores the nearest number that has them, either one where two are as near.  `RateIsKept` therefore
allows what rounding up has added (`gained`), and says that this is nothing while a full bucket has
fewer than `Precision` units.  In the run a token is ten units, a millisecond five and a full bucket
twenty, and the row holds one digit, so that from ten units on it is rounded to tens.  What is left out is the error
of double arithmetic itself, 2^-53 of the value.

  The numbers in `Services.cfg` are the least at which the
interesting cases happen: two levels of two slots cascade, a queue of one is full, a lock of one tick
lapses inside a call, two rounds make an acknowledgement late, three nested calls of `setState` make
an outer hook see an inner state.  Fairness: the loop's and the worker's threads run, the tick of a
movement and of a bot comes round, and a bot's clock goes on.

## 4. What is proved

Every theorem is about a component's `Spec`, for all values of its constants that the named
assumptions of the component allow: any number of entities, CellApps, accounts, nodes, and so on,
and any bounds.  Each rests on an inductive invariant, which TLC checked on the run of the component
before it was proved; what follows says why the invariant is more than the property.

### Theorems of `EntityRuntime_proofs`

`ConstantsAssumption`: the BaseApp is not a CellApp, `NoCell` is not a CellApp, the bounds are natural
numbers.

* `TypeCorrect == Spec => []TypeOK`.  `TypeOK` is not inductive: a call is forwarded on the
  connection to the route's target, which exists only if the target is another CellApp.  The
  invariant is `TypeInv == TypeOK /\ RoutesLeadAway`.
* `AuthorityStaysSingle == Spec => []SingleAuthority`.  An entity that is not born yet must have
  neither body nor claim, because `EnterGame` makes one, and the step that moves a claim must know
  it is the only one: `AuthorityInv` adds this to the three parts of `SingleAuthority`.  Lemmas about
  the transport say what messages a queue holds after a send and after a receive; the step theorem
  has one case per action, and the actions that touch neither bodies nor claims share `QuietStep`.
* `PendingStaysRegistered == Spec => []PendingIsRegistered`, by an invariant about each base part and
  its place in `pendingDestructions_` (`Registry`).
* `BindingStaysTruthful == Spec => [](Undisturbed => BindingIsTruthful)` and `PendingStaysAnswered`,
  the same of `PendingIsAnswered`.  `Undisturbed` says that nothing has migrated and no send was
  refused so far, as in the run (`MaxMigrations = 0`, `MaxRefusals = 0`): with migrations the
  properties are false (section 5), and a refused send takes away a message that they count on.  The
  invariant `Attended` needs the order of one connection: a `cellReady` on its way from a CellApp that
  does not host the entity is followed by the news of the body's end.
* `NoEffectGetsLost == Spec => [](Unlapsed => NoEffectIsLost)`: `Unlapsed` says that no route has expired
  or was cleared and no send was refused.  The invariant `Effects` says that an Active body, and every
  message that is going to make one, has all effects, and that a body that waits for its commit is
  behind a live route, so that it executes nothing.  Migrations are unbounded here.
* `MigratingStaysAnswered == Spec /\ Orderly => [](Unlapsed => MigratingIsAnswered)`,
  `AuthorityEndsOnlyByDestroy == Spec /\ Orderly /\ []Unlapsed => AuthorityEndsByDestroy` and the refinement
  `PlacementIsImplemented == Spec /\ Orderly /\ []Unlapsed => Placement!Safety`, for any number of CellApps
  and migrations.  The invariant `Answered` says of each entity what a body that waits for its commit
  waits for (`Waits`): along its route, either the snapshot it left with is on the way to the target or
  the commit of its epoch is on the way back, and on no connection to it does a snapshot of the entity
  come before that commit, because `applyMigrationTransfer` would drop it.  The last part fails for
  three CellApps (section 5).  `Orderly` is the exact condition under which it holds: an
  entity migrates to a CellApp that still has a body of it only from where that body's route leads,
  so that snapshot and commit share a connection.  Nothing in the code enforces it, which is why it is a
  hypothesis.  `TwoCellsAreOrderly` shows that with at most two CellApps, as in the run, every behaviour
  satisfies it.  In the refinement every step is mapped to a step of `CellPlacement` for one entity or to
  a stutter: `OneMoves` says that no step moves two.

### Theorems of `LoginApp_proofs`

`ConstantsAssumption`: the two "none" values are none of the values, the bounds are natural numbers.

* `TypeCorrect == Spec => []TypeOK`,
* `AccountsStayUnique == Spec => []AccountIsUnique`,
* `UpStaysReachable == Spec => []UpIsReachable`,
* `RowsStayTruthful == Spec => [](Punctual => SessionRowIsTruthful)`.

One inductive invariant carries the first three, because each needs another: the look-up of an
account answers with a well-typed id only if there is a smallest account of that name, which follows
from uniqueness.  `UpIsReachable` alone is not inductive: the step that confirms a link must know that
an answer can have come over the registered peer only (`AnswersComeFromPeer`).

`Punctual` says that no wait of `dbRequest` ended while its answer could still come; without it a late
answer is taken for the next login's (section 5).  `RowInv` adds which connections can carry what:
only the link's own carries more than probes, and what it carries is the request or the answer of the
login that waits (`Current`).

### Theorems of `SessionLinkage_proofs`

`RowsStaySound == Spec => []RowsAreSound`, `RevokedStaysGone == Spec => []RevokedIsGone` and the action
property `ClosedAreKicked == Spec => ClosedWasKicked`, for any clients, accounts, realms, tokens and
links.  Between the commands of two processes nearly nothing is true of a row alone, so `Inv` says
what each unfinished operation has read and will write: a login that has not yet written its row
(`LoginFits`), a selection between its load and its save (`SelectionFits`), an operator's command with
the views it has gathered (`CommandFits`), notices on a link (`NoticesFit`).  A token that is written
once stays its account's (`Written`).

### Theorems of `MachineDaemon_proofs`

`SupervisionStaysSound == Spec => []SupervisionIsSound` and
`RosterStaysOrdered == Spec => []RosterIsOrdered`, for any pids, nodes, sources and capacities.

* The supervisor: `ManagedAreOurs` needs that a child being terminated is out of the map when its pid
  is freed (`SupervisorInv`).
* The center: each operator preserves `Center` (roster and order agree, the limit holds); for
  `Evicted` the loop's number of steps exists by `LeastNatural`, and what is left of the order is what
  is left of the roster because no node is in it twice.  `OthersFacts` is about the filter with which
  deregistration and pruning keep the order (`Lists`).
* The copies: handles are given once, so a copy's artifact that is still in the daemon's ring is
  among those it remembers (`CopiesInv`), and one that has left does not come back (`ProfilerInv`).

### Theorems of `Persistence_proofs`

`TypeCorrect`, `IdsStayGivenOnce`, `AccountsStayWhole` and `AckedStaysStored`, the four invariants of the
`storage` run, for any accounts, ids and troubles and for each of the stores, from `StoresAssumption`.
`Inv` follows a request through DBApp statement by statement: what an open transaction has changed
already (`TransactionFits`, `AccountsFit`), what a counter that was read but not written is worth
(`IdsFit`), that the base waits for the last request it sent (`CallIsLast`), and that the versions of
an entity stored, being saved, waiting and in the register are in this order (`VersionsFit`): late
answers and repeated saves cannot take a version back.

### Theorems of `PropertySync_proofs`

`OwnersStayCurrent`, `ClientStaysCurrent` and `GhostStaysCurrent`, for any properties, CellApps, writes
and migrations.  The entity is at most at one place, a CellApp where its body is Active or a message
that carries it (`Unique`).  The central notion is `Carries(p, v)`, "the entity has value v of p where it
is": it treats a body and a message alike, so that a migration changes nothing of `BodyHears` and
`BaseHears`, which relate it to what the base has, has marked or has sent.  That no value goes back
needs the order of one connection (`InOrder`) and that before a migration the other CellApps have not
heard of the entity (`Elsewhere`); after the second migration it is no longer true, and the history
variables say so.  TLC checked the invariant with two migrations.

### Theorems of `CellSpaces_proofs`

`TypeCorrect == Spec => []TypeOK`, `ViewStaysInRange == Spec => []ViewIsInRange` and
`ClientStaysInStep == Spec => []ClientSeesTheView`, for any entities, spaces, ranges and integer
positions, and any number of operations and movers in a tick, of messages under way and of losses.

* The coordinate system, as an algorithm: `IsAxis(list, at, S)` says that a list holds each of the
  entities S once, in the order of their X.  `InsertedIs`, `RemovedIs` and `RepositionedIs` show that
  insert, remove and update keep it so, and `InRangeIs` that the walk of `entitiesInRange` over part
  of such a list finds exactly who is near; it needs that who is near is near in X (`NearInX`).
* The loop over those who move: that it has a result (`RunExists`), and that the lists are in order
  after each step of it (`MovedIs`), by the least step at which this would fail.
* The views: `Inv` says that what a witness has reported is what its trigger has inside and is in its
  space, but for who came back unnoticed (`Reported`, `Unnoticed`).  `AnotherPlace` shows it for every
  way an entity can come, leave or teleport, `LooksRight` for a trigger that looks, whatever was
  inside before.
* The clients: `ClientsAreTold` says of each that lost nothing that it is `InStep` with its witness.  With
  `view` for what it knows when it has heard what is under way, the last event of the witness about
  an entity (`Says`) tells how the two differ: an "enter" is of one now in the view of the witness, a
  "leave" of one no longer in it, and of whom nothing is said is in both or in neither (`IsTold`), and
  there where it is unless it moved or is among the misled (`IsPlaced`).  So a queue of any length
  comes down to its last events: `NoticesTell` follows what its messages do to one entity, and
  `NoticesOfOthers` shows that the rest does not touch it.  That a hearing is a run, message by message, and that
  two lists are heard one after the other as their concatenation is, are `HearingIs` and `HeardJoined`, by
  `LeastNatural` again.  Each operation of a witness keeps in step (`EnteredFollows`, `LeftFollows`,
  `RefreshedFollows`), each action does for all of them, and `OutgoingShows` is what a flush gives.  The
  notice that is left out, of the entry of one that is nowhere, is of nobody in the view (`InViewInSpace`).

TLC checked the invariants on the instance of `world`, and with one other entity and three operations in a phase.

### Theorems of `Services_proofs`

`TicksStaySound == Spec => [](focus # "tree" => TickIsSound)`: the wheel, the loop and the movements; and
`WheelServesTimers == Spec => FiresWhenDue`, the refinement of `TimerService`.

`WheelAssumption` says what the code's constants have in common with every other wheel: `SlotSpan`, the
ticks that a slot of each ring covers, is 1 in ring 0 and `SlotsPerLevel` times the former in every other
(`kLevelMask`, and the shifts by 8 in `advance`), and there are two rings at least.  `MoveAssumption`:
positions are integers, and the speed and the arrival distance are natural numbers.

* The wheel (`WheelInv`): `EntriesPlaced` is `SlotsAreSound` by slots, which says in both directions which
  entries a slot holds; `IdsApart` makes an index and an id name one entry, also in the snapshot of
  a batch, whose indices callbacks may have freed and given out again.
* That a timer is punctual is `EntriesAhead`: the slot an entry is in comes up before it is due, and
  in ring 0 when it is due.  The delicate step is the one from ring to ring inside a tick.  A slot of
  a ring that this tick has not emptied yet may be the slot of now, so that an entry that cascades finds its
  slot ahead only because the rings below it have been emptied, and one that is due at the tick of its
  cascade fires at once.  With a delay beyond the last ring an entry comes round more than once.
  The lemmas on division and remainder of nested spans stand at its head.
* `TimersHaveBodies`: a timer of an entity that is still on the wheel is recorded for the body that set
  it, or was left behind by a migration.  It is why destroying a body silences all its timers, and why
  `OldTimersAreSilent` cannot go without its exception.
* The refinement: `AlarmsAre` says which function `Alarms` is, and `WheelServes` that a step of the wheel
  is one of six things to the service (`SetsOne`, `DropsSome`, `GoesOff`, `FallsSilent`, `Passes`,
  `Idles`).  A cascade is nothing to it, and when a tick begins no alarm of the former is left.
* The loop (`LoopInv`): the build pump is the last of its phase and of what is left of it, and a space
  that has still to sync has its pump ahead, since no space comes or goes in that phase.
* Movements (`MoveInv`): there is a velocity only while a controller is active, and no controller has
  ended that is active or was not added yet.

`BooksStayKept == Spec => []BooksAreKept`: eight facilities in one theorem, since a behaviour follows one
of them; and `RatesStayKept == Spec => []RatesAreKept`.  `BooksInv` gives each its own inductive invariant along `focus`; `RateAssumption`,
`SpanAssumption`, `TopologyAssumption`, `ActionsAssumption` and `MachineAssumption` say that bounds, costs,
capacities and hashes are natural numbers, and that transitions lead between states.

* Rates (`RateInv`): what is in the bucket and what was spent since a call was granted are together
  no more than a full bucket, what was refilled since and what rounding up has added (`BookFits`), for
  any number of digits and any units; below `Precision` rounding changes nothing.  That a call whose lock lapses
  between its read and its write takes nothing twice needs that tokens of the lock are unique
  (`TokensAreUnique`) and that a caller whose token is still in the lock's row has read the bucket as it
  is (`OwnersAreCurrent`).
* Spans (`SpansInv`): a span is with one thread, in the queue, in the worker's batch or counted, and with
  one of them only (`SpansOwned`).
* Backup topology (`TopologyInv`): an acknowledgement names a share that was primed and the version that
  its round staged (`AcksFit`), and a seat is marked for what was primed in this rebuild, or for what is
  believed (`MarksFit`).  The places of a primary and of its backup differ, whatever the hash
  (`PlacesDiffer`).
* Player actions (`ActingInv`, `ServingInv`): what is queued comes after what was handled; the events
  shown, on the lines and pending are in the order of their emission in each body, are all different,
  and together with those given up in vain are all that were emitted.
* Metrics (`MetricsInv`): a histogram's sum and buckets differ by the one observation that is being made
  (`EntriesFit`), and the registry does not grow under a collection (`CollectionFits`).  Versions, bots,
  state machines and groups need little more than the property.

Facts about the places of `Append`, `SubSeq`, `Tail` and concatenation are lemmas at the head of the
module.  `CellSpaces_proofs`, `MachineDaemon_proofs` and `SessionLinkage_proofs` each begin with
`LeastNatural`, that a non-empty set of natural numbers has a least element: it is proved from the
well-foundedness of strict inclusion on finite sets, and stands in for induction.

### Only model-checked

* Liveness, which is out of the prover's reach: `DestroyCompletes`, `MigrationCompletes`, `LoginEnds`,
  `LinkRecovers`, `KickedLoginEnds`, `NoticeLinkRecovers`, `ShutdownHappens`, `AcceptedArrives`,
  `ChangeIsStored`, `WhatBeganEnds`, the fairness part of `PlacementSpec`.
* `KeepsOrder`: reassembly and the reader of a bundle are written with `SelectSeq` and `FlattenSeq`, of
  which the provers know nothing.
* `RunsStartFresh`, the part of `TickIsSound` about behaviour trees: which nodes are below a node is
  recursive over the tree, and what a recursion computes for every tree needs induction over data.

## 5. Where code and documentation differ

Observed while modelling.  Each was a counterexample of TLC, or is a line of a model that the
properties make an exception of.

* *Rebinding by an old cellReady.*  `cellReady` carries no epoch (`core/BaseRuntime.cpp:527`) and those
  of two CellApps arrive over two connections.  When the newer is handled first, the older one
  rebinds the base to a CellApp without a body, and nothing corrects it;
  `05-entity-migration.md:129` says that the base's target is updated.  `BindingIsTruthful` is
  therefore checked without migrations.
* *A snapshot meets a body.*  `applyMigrationTransfer` drops a snapshot when any body of the entity is
  there, also one that waits for its commit (`runtime/CellRuntime.cpp:480`).  With three CellApps an
  entity that returns before its first commit is lost; line 5 of the same document says that
  entities can migrate safely.  `migration` has two CellApps.
* *destroyCell in the route window* is handled before the routes are looked at
  (`runtime/CellRuntime.cpp:679`) and not forwarded; lines 151 and 157 say that control messages are.
  `DestroyCompletes` is checked without migrations.
* *destroyEntity before cellReady* takes the branch without a cell part (`core/BaseRuntime.cpp:255`;
  the comment at :253 says the cell part goes first) and leaves the body on its CellApp.
* *A late answer is taken for the next one's*: `dbRequest` matches answers by method
  (`login/LoginApp.cpp:539`; the comment at :525 and `db/DBApp.cpp:498` say otherwise).
  The run `late_answers` shows it, with one early time-out; `RowsStayTruthful` proves that without any
  the rows are right.
* *A hub keeps a dead peer*: `try_emplace` (`runtime/TransportHub.cpp:71`) keeps the old transport, and
  after a cut that DBApp (or the daemon) survives no new connection gets an answer;
  `04-ops-control-plane.md:504` and `:508` promise the reconnect.  `LinkRecovers` excepts exactly this
  state, `NoticeLinkRecovers` is about restarts of the daemon.
* *A realm selection revives a session* that is revoked or expires between its load and its save
  (`login/LoginApp.cpp:759`; the comment at :751 says it does not).
* *A refused flush*: `flushOutbound` empties the channels before the connection takes the bytes
  (`runtime/NetworkTransport.cpp:153`); when the write buffer is full they are gone, while
  `TcpConnection.cpp:79` says the upper layer backs off.
* *MySQL's two-statement writes* are atomic by the comment at `db/MySQLEntityStore.cpp:391`, but
  `ensureConnected` renews a lost session in the middle (`db/MySQLConnection.cpp:544`).
* *File stores*: `save` truncates in place and a short counter file starts ids again
  (`core/FileEntityStore.cpp:80`, `:125`).  On a full disk `save` may report success (`:85`): its text is
  still in the stream's buffer when the stream is asked, and nobody asks after the close.  *A base never renews* its connection to DBApp.
* *Property losses*: a migration does not carry string properties (`runtime/EntityMigration.cpp:134`)
  and clears the marks of what it carries (`:186`); a refused delta is not sent again; a delta has no
  version (`runtime/CellRuntime.cpp:709`), so one that meets a body that has been elsewhere in the
  meantime takes a newer value back.
* *A staged position outlives its entity's stay*: `SpaceRuntime::removeEntity` leaves
  `stagedPositions_` as it is (`runtime/SpaceRuntime.cpp:57`), so one that moved, left and came back in
  one tick is sent with the place it had before (`:224`), after its entry; a client that was told so
  keeps it there until it moves again.  `ClientSeesTheView` makes an exception of it (`misled`).
* *A trigger keeps who left and came back* inside (`runtime/AOI.cpp:78`); a lost flush is not repeated
  (`runtime/CellRuntime.cpp:893`).
* *Input*: `processInput` goes on after a handler ended the entity (`runtime/Entity.cpp:190`); queued
  input and events do not migrate; `bindMethodHandler` and `bindStreamMethodHandler` erase each
  other's entry by a name that was moved from.
* *Timers* of a body that migrates away, or that `CellApp::destroyEntity` removes
  (`runtime/CellRuntime.cpp:201`), stay on the wheel; a restored body has no timer functions.
* *Rates*: the bucket's tokens are written with the stream's six digits
  (`foundation/RateLimiter.cpp:134`).  With a capacity of 2,000,000 a bucket that a call of cost 1 has left
  at 1,999,999 is stored as 2e+06 and never drains; from 1000 tokens on the fractions that a refill
  interval of 6 ms gives are rounded at every write, up as well as down.  The `capacity` of
  `RateLimiter.h:24`, "max tokens", is then not the most that callers get; `RateIsKept` counts what they gain.
* *The center* leaves a profile index row when it deregisters a node it has pruned
  (`control/ops/OpsControlCenter.cpp:111`).  *The supervisor* gives a hung child up and forgets it
  (`ProcessSupervisor.cpp:581`).
* *Spans* that end between the take and the set of the emitter (`OtlpTraceExporter.cpp:239`) reach
  nobody, and one queued after the worker's last look stays in the queue.
* *Undefined behaviour* appears as a "crashed" or "lost" state where a callback changes the container
  that is iterated: controllers (`Controller.cpp:64`), also when `Entity::destroy` clears them from a
  completion callback (`Movement.Clear`), group members (`GroupManager.cpp:82`), and a
  space destroyed while its pump runs (`TickScheduler.cpp:98`).  A periodic timer's callback is called by
  a reference into `entries_` (`TimerWheel.cpp:53`): an `addTimer` inside it that moves the entries, or
  takes the entry of a timer that cancelled itself, destroys the callback that runs (`LoseCallback`).
  An uninstall writes `previous_` while another thread calls it (`OtlpTraceExporter.cpp:269`, `:436`): a
  data race on a `std::function`, after which the process may be gone (`LoseChain`).  Left out are a
  histogram replaced by a metric of another kind while an observer holds its lock, and
  `MetricsRegistry::reset`, which only tests call.
* *Backup topology*: a rebuild with the epoch of an aborted one counts its late acknowledgements;
  *HotUpdate* gives version names out again after a rollback.

## 6. What is not modelled

`components` in `PROJECT.json` has the reason of each part.  In short:

* `EntityRuntime` assumes a store that answers at once.  With `RemoteEntityStore` a save inside a
  handler receives from the hub it shares and discards game messages (`db/RemoteEntityStore.cpp:47`);
  the product of `Persistence` and `EntityRuntime` is too large for TLC.
* A property that base and cell both write (`core/BaseRuntime.cpp:550`); the end of a ghost and calls
  of a ghost; property deltas of witnesses by detail level, which nothing changes.
* Client wire formats, token signatures, JSON and text pages, log files, host statistics, entity
  definitions, the realm registry: no state that spans steps.
* `remove` and `listIds` over the wire, which no server calls.
* Host and time: wall clocks are abstract ("due in any tick") except in `TimerWheel`, `RateLimit` and
  `Movement`, where the numbers matter.

## 7. Plan

1. Proofs about what is left: the safety part of `KeepsOrder`, with the parser of a bundle stated
   without `SelectSeq`, and `RunsStartFresh` for trees of a given depth.
2. Which placements of the game layer keep migrations orderly with three CellApps (section 4), so that
   the hypothesis `Orderly` becomes a property of a model of that layer.
3. A larger `world` with two players, and `sessions` with two accounts, if a reduction of their state
   (symmetry, a view) makes them fit.
4. `RemoteEntityStore` in the middle of a handler of BaseRuntime, for one handler at a time.
