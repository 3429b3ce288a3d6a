---------------------------- MODULE EntityRuntime ----------------------------
(***************************************************************************)
(* The distributed entity runtime: one BaseApp (core/BaseRuntime.cpp) and   *)
(* several CellApps (runtime/CellRuntime.cpp).  The base owns the base      *)
(* part of every entity and the address of its cell part (cellEntityCall);  *)
(* a CellApp hosts cell bodies and moves them to other CellApps.            *)
(*                                                                         *)
(* Every process is a single thread that runs one handler at a time, so a   *)
(* handler is one action.  Two processes talk over one connection           *)
(* (TransportHub::peers_), which is FIFO; messages of different senders     *)
(* may be handled in any order, because a tick drains the peers one after   *)
(* another and the ticks of the processes are not synchronised.             *)
(*                                                                         *)
(* What is abstracted:                                                      *)
(*   - an entity's properties are the number of method calls its body has   *)
(*     executed (work): enough to see whether a migration loses an effect;  *)
(*   - spaces, positions, AoI and property deltas are in other modules;     *)
(*   - every CellApp has a factory for every type and decodes every         *)
(*     payload (the runtime's own encoders wrote it);                       *)
(*   - Clock::now() >= expiry of a route is the flag "expired", raised by   *)
(*     the step ExpireRoute;                                                *)
(*   - the entity store answers at once (FileEntityStore) and no ghost is   *)
(*     bound to an entity;                                                  *)
(*   - an epoch is chosen by the caller of beginMigration; callers use each *)
(*     epoch once;                                                          *)
(*   - the game layer asks for a cell body once per entity, right after it  *)
(*     created the base part, as both callers in the repository do.         *)
(***************************************************************************)
EXTENDS Naturals, Sequences

CONSTANTS
    Entities,       \* EntityIds; the store hands out each id once (allocId)
    Cells,          \* the CellApps' ComponentIds
    Base,           \* the BaseApp's ComponentId
    NoCell,         \* a base entity without a cellEntityCall
    NoRoute,        \* no entry in migrationRoutes_
    MaxMigrations,  \* bound: calls of beginMigration that are accepted
    MaxCalls,       \* bound: method calls sent to a cell body
    MaxLapses,      \* bound: routes that expire or are cleared by the caller
    MaxRefusals,    \* bound: sends the transport does not accept
    MaxSpawns,      \* bound: spawn requests made by cell bodies
    MaxBacklog      \* bound: messages of one connection when the game layer
                    \* (never a handler) adds one

ASSUME ConstantsAssumption ==
    /\ Base \notin Cells
    /\ NoCell \notin Cells
    /\ MaxMigrations \in Nat /\ MaxCalls \in Nat /\ MaxLapses \in Nat
    /\ MaxRefusals \in Nat /\ MaxSpawns \in Nat /\ MaxBacklog \in Nat

Processes == Cells \cup {Base}
Links     == {l \in Processes \X Processes : l[1] # l[2]}

Routes == [target : Cells, epoch : 1 .. MaxMigrations, expired : BOOLEAN]

ASSUME NoRouteAssumption == NoRoute \notin Routes

Messages ==
         [type : {"createCell", "destroyCell", "cellReady", "cellDestroyed",
                  "spawnRequest", "call"}, e : Entities]
    \cup [type : {"transfer"}, e : Entities, epoch : 1 .. MaxMigrations,
          work : Nat]
    \cup [type : {"commit"}, e : Entities, epoch : 1 .. MaxMigrations]

VARIABLES
    baseState,   \* entities_ and EntityState of the base parts
    cellCall,    \* cellEntityCall of the base parts
    pendingDestructions,
    body,        \* ownedEntities_ and EntityState of the cell bodies
    work,        \* calls whose effect a body carries in its properties
    migrationRoutes,
    net,         \* the connections: one FIFO queue per ordered pair
    epochs,      \* epochs used so far
    applied,     \* calls executed for an entity, by whichever body
    used         \* how much of each bound on the environment is used up

baseVars == <<baseState, cellCall, pendingDestructions>>
cellVars == <<body, work, migrationRoutes, applied>>
vars     == <<baseVars, cellVars, net, epochs, used>>

TypeOK ==
    /\ baseState \in [Entities -> {"Unborn", "Active", "Destroying", "Gone"}]
    /\ cellCall \in [Entities -> Cells \cup {NoCell}]
    /\ pendingDestructions \in SUBSET Entities
    /\ body \in [Cells -> [Entities -> {"None", "Active", "Migrating"}]]
    /\ work \in [Cells -> [Entities -> Nat]]
    /\ migrationRoutes \in [Cells -> [Entities -> Routes \cup {NoRoute}]]
    /\ net \in [Links -> Seq(Messages)]
    /\ epochs \in 0 .. MaxMigrations
    /\ applied \in [Entities -> Nat]
    /\ used \in [{"calls", "lapses", "refusals", "spawns"} -> Nat]

\* A route never leads back to the CellApp that keeps it.
RoutesLeadAway ==
    \A c \in Cells, e \in Entities :
        migrationRoutes[c][e] # NoRoute => migrationRoutes[c][e].target # c

Init ==
    /\ baseState = [e \in Entities |-> "Unborn"]
    /\ cellCall = [e \in Entities |-> NoCell]
    /\ pendingDestructions = {}
    /\ body = [c \in Cells |-> [e \in Entities |-> "None"]]
    /\ work = [c \in Cells |-> [e \in Entities |-> 0]]
    /\ migrationRoutes = [c \in Cells |-> [e \in Entities |-> NoRoute]]
    /\ net = [l \in Links |-> <<>>]
    /\ epochs = 0
    /\ applied = [e \in Entities |-> 0]
    /\ used = [u \in {"calls", "lapses", "refusals", "spawns"} |-> 0]

-----------------------------------------------------------------------------
(* The transport *)

\* SendResult: a message is queued on the connection, or the transport
\* answers NotConnected, BackPressure or Closed and the message is gone.
SendResults ==
    {"Accepted"} \cup (IF used["refusals"] < MaxRefusals THEN {"Refused"} ELSE {})

Push(n, l, m) == [n EXCEPT ![l] = Append(@, m)]
Pop(n, l)     == [n EXCEPT ![l] = Tail(@)]

Send(n, l, m, r) == IF r = "Accepted" THEN Push(n, l, m) ELSE n

Spend(u, what) == [u EXCEPT ![what] = @ + 1]
Charge(u, r)   == IF r = "Refused" THEN Spend(u, "refusals") ELSE u

Signal(type, e) == [type |-> type, e |-> e]

\* The oldest message of connection l is of the given type.
Arrived(l, type) == net[l] # <<>> /\ Head(net[l]).type = type

\* The game layer adds to connection l only while it is short (a bound).
Room(l) == Len(net[l]) < MaxBacklog

-----------------------------------------------------------------------------
(* The base: BaseRuntime and its callers in BaseApp *)

Registered(e) == baseState[e] \in {"Active", "Destroying"}

\* Entity::bindCellEntityCall and clearCellEntityCall of a base part
\* Mutant of Bind: the receiver's component is read where the sender's was
\* written.
BindReceiver(e, c) == cellCall' = [cellCall EXCEPT ![e] = Base]
Bind(e, c)         == cellCall' = [cellCall EXCEPT ![e] = c]

\* Mutant of Unbind: the address survives the body.
UnbindForgotten(e) == UNCHANGED cellCall
Unbind(e)          == cellCall' = [cellCall EXCEPT ![e] = NoCell]

\* Mutant of CompleteBaseDestruction: the id stays in pendingDestructions_.
CompleteBaseDestructionStillPending(e) ==
    /\ baseState' = [baseState EXCEPT ![e] = "Gone"]
    /\ cellCall' = [cellCall EXCEPT ![e] = NoCell]
    /\ UNCHANGED pendingDestructions

\* completeBaseDestruction: the base part leaves entities_ and
\* pendingDestructions_, and Entity::destroy drops its cellEntityCall.
CompleteBaseDestruction(e) ==
    /\ baseState' = [baseState EXCEPT ![e] = "Gone"]
    /\ Unbind(e)
    /\ pendingDestructions' = pendingDestructions \ {e}

\* handleEnterGame (and any creation by the game layer): createEntity with a
\* fresh id, then requestCreateCell, whose result is ignored.
EnterGame(e, c) ==
    /\ baseState[e] = "Unborn"
    /\ Room(<<Base, c>>)
    /\ baseState' = [baseState EXCEPT ![e] = "Active"]
    /\ \E r \in SendResults :
          /\ net' = Send(net, <<Base, c>>, Signal("createCell", e), r)
          /\ used' = Charge(used, r)
    /\ UNCHANGED <<cellCall, pendingDestructions, cellVars, epochs>>

\* destroyEntity: with a cell the base waits for cellDestroyed, without one
\* it is destroyed at once.
DestroyEntity(e) ==
    /\ Registered(e)
    /\ \/ /\ cellCall[e] # NoCell
          /\ Room(<<Base, cellCall[e]>>)
          /\ baseState' = [baseState EXCEPT ![e] = "Destroying"]
          /\ pendingDestructions' = pendingDestructions \cup {e}
          /\ \E r \in SendResults :
                /\ net' = Send(net, <<Base, cellCall[e]>>,
                               Signal("destroyCell", e), r)
                /\ used' = Charge(used, r)
          /\ UNCHANGED cellCall
       \/ /\ cellCall[e] = NoCell
          /\ CompleteBaseDestruction(e)
          /\ UNCHANGED <<net, used>>
    /\ UNCHANGED <<cellVars, epochs>>

\* requestDestroyCell called by the game layer: the cell part is to go, the
\* base part stays.
LeaveWorld(e) ==
    /\ baseState[e] = "Active"
    /\ cellCall[e] # NoCell
    /\ Room(<<Base, cellCall[e]>>)
    /\ \E r \in SendResults :
          /\ net' = Send(net, <<Base, cellCall[e]>>,
                         Signal("destroyCell", e), r)
          /\ used' = Charge(used, r)
    /\ UNCHANGED <<baseVars, cellVars, epochs>>

\* BaseApp::cleanupClients on a closed client connection: destroyCell is
\* requested, and destroyEntity requests it a second time.
ClientDisconnect(e) ==
    /\ baseState[e] = "Active"
    /\ cellCall[e] # NoCell
    /\ Room(<<Base, cellCall[e]>>)
    /\ baseState' = [baseState EXCEPT ![e] = "Destroying"]
    /\ pendingDestructions' = pendingDestructions \cup {e}
    /\ \E r1, r2 \in SendResults :
          LET l == <<Base, cellCall[e]>>
              m == Signal("destroyCell", e)
          IN  /\ net' = Send(Send(net, l, m, r1), l, m, r2)
              /\ used' = Charge(Charge(used, r1), r2)
    /\ UNCHANGED <<cellCall, cellVars, epochs>>

\* handleClientAction of a cell method: Entity::callCell.
CallCell(e) ==
    /\ baseState[e] = "Active"
    /\ cellCall[e] # NoCell
    /\ used["calls"] < MaxCalls
    /\ Room(<<Base, cellCall[e]>>)
    /\ \E r \in SendResults :
          /\ net' = Send(net, <<Base, cellCall[e]>>, Signal("call", e), r)
          /\ used' = Charge(Spend(used, "calls"), r)
    /\ UNCHANGED <<baseVars, cellVars, epochs>>

\* handleCellReady: the sender's component becomes the cellEntityCall,
\* whatever the base knew before.
HandleCellReady(c) ==
    LET l == <<c, Base>>
        e == Head(net[l]).e
    IN  /\ Arrived(l, "cellReady")
        /\ IF Registered(e) THEN Bind(e, c) ELSE UNCHANGED cellCall
        /\ net' = Pop(net, l)
        /\ UNCHANGED <<baseState, pendingDestructions, cellVars, epochs, used>>

\* handleCellDestroyed
HandleCellDestroyed(c) ==
    LET l == <<c, Base>>
        e == Head(net[l]).e
    IN  /\ Arrived(l, "cellDestroyed")
        /\ net' = Pop(net, l)
        /\ \/ /\ e \in pendingDestructions
              /\ CompleteBaseDestruction(e)
           \/ /\ e \notin pendingDestructions
              /\ IF Registered(e) THEN Unbind(e) ELSE UNCHANGED cellCall
              /\ UNCHANGED <<baseState, pendingDestructions>>
        /\ UNCHANGED <<cellVars, epochs, used>>

\* handleSpawnRequest: createEntity with a fresh id (none left: allocId fails
\* and the request is dropped), then the new entity's cell is requested on the
\* requester's CellApp; a requester that is gone or has no cell undoes it.
HandleSpawnRequest(c) ==
    LET l         == <<c, Base>>
        requester == Head(net[l]).e
        popped    == Pop(net, l)
    IN  /\ Arrived(l, "spawnRequest")
        /\ \/ /\ \A e \in Entities : baseState[e] # "Unborn"
              /\ net' = popped
              /\ UNCHANGED <<baseState, used>>
           \/ /\ \E e \in Entities :
                    /\ baseState[e] = "Unborn"
                    /\ \/ /\ Registered(requester)
                          /\ cellCall[requester] # NoCell
                          /\ baseState' = [baseState EXCEPT ![e] = "Active"]
                          /\ \E r \in SendResults :
                                /\ net' = Send(popped,
                                               <<Base, cellCall[requester]>>,
                                               Signal("createCell", e), r)
                                /\ used' = Charge(used, r)
                       \/ /\ \/ ~ Registered(requester)
                             \/ cellCall[requester] = NoCell
                          /\ baseState' = [baseState EXCEPT ![e] = "Gone"]
                          /\ net' = popped
                          /\ UNCHANGED used
        /\ UNCHANGED <<cellCall, pendingDestructions, cellVars, epochs>>

-----------------------------------------------------------------------------
(* A CellApp: CellRuntime *)

Hosts(c, e) == body[c][e] # "None"     \* findEntity(e) # nullptr

\* handleCreateCell: an entity that is already here is left alone.
HandleCreateCell(c) ==
    LET l == <<Base, c>>
        e == Head(net[l]).e
    IN  /\ Arrived(l, "createCell")
        /\ \/ /\ Hosts(c, e)
              /\ net' = Pop(net, l)
              /\ UNCHANGED <<body, work, used>>
           \/ /\ ~ Hosts(c, e)
              /\ body' = [body EXCEPT ![c][e] = "Active"]
              /\ work' = [work EXCEPT ![c][e] = 0]
              /\ \E r \in SendResults :
                    /\ net' = Send(Pop(net, l), <<c, Base>>,
                                   Signal("cellReady", e), r)
                    /\ used' = Charge(used, r)
        /\ UNCHANGED <<baseVars, migrationRoutes, applied, epochs>>

\* Mutant of TellDestroyed: the payload carries no base component.
TellDestroyedNobody(n, c, e, r) == n
TellDestroyed(n, c, e, r) ==
    Send(n, <<c, Base>>, Signal("cellDestroyed", e), r)

\* handleDestroyCell: whatever state the body is in it goes, and the base is
\* told; without a body nothing happens and nobody is told.
HandleDestroyCell(c) ==
    LET l == <<Base, c>>
        e == Head(net[l]).e
    IN  /\ Arrived(l, "destroyCell")
        /\ \/ /\ ~ Hosts(c, e)
              /\ net' = Pop(net, l)
              /\ UNCHANGED <<body, used>>
           \/ /\ Hosts(c, e)
              /\ body' = [body EXCEPT ![c][e] = "None"]
              /\ \E r \in SendResults :
                    /\ net' = TellDestroyed(Pop(net, l), c, e, r)
                    /\ used' = Charge(used, r)
        /\ UNCHANGED <<baseVars, work, migrationRoutes, applied, epochs>>

\* Mutant of Leaving: the source body is left Active.
LeavingUnmarked(c, e) == UNCHANGED body
Leaving(c, e)         == body' = [body EXCEPT ![c][e] = "Migrating"]

\* Mutant of OpenRoute: emplace, which keeps the route of an earlier migration.
OpenRouteOnce(c, e, t, n) ==
    migrationRoutes' =
        [migrationRoutes EXCEPT ![c][e] =
            IF @ # NoRoute
            THEN @ ELSE [target |-> t, epoch |-> n, expired |-> FALSE]]
OpenRoute(c, e, t, n) ==
    migrationRoutes' = [migrationRoutes EXCEPT ![c][e] =
                           [target |-> t, epoch |-> n, expired |-> FALSE]]

\* beginMigration: the snapshot is sent first, and only a send that was
\* accepted turns the body into a Migrating one and opens the route window.
BeginMigration(c, t, e) ==
    /\ t # c
    /\ body[c][e] = "Active"
    /\ epochs < MaxMigrations
    /\ \E r \in SendResults :
          /\ used' = Charge(used, r)
          /\ \/ /\ r = "Accepted"
                /\ epochs' = epochs + 1
                /\ net' = Push(net, <<c, t>>,
                               [type |-> "transfer", e |-> e,
                                epoch |-> epochs + 1, work |-> work[c][e]])
                /\ Leaving(c, e)
                /\ OpenRoute(c, e, t, epochs + 1)
             \/ /\ r = "Refused"
                /\ UNCHANGED <<epochs, net, body, migrationRoutes>>
    /\ UNCHANGED <<baseVars, work, applied>>

\* Mutant of TakesIn: an entity this CellApp once gave away is refused as long
\* as its route is kept.
TakesInUnrouted(c, e) == ~ Hosts(c, e) /\ migrationRoutes[c][e] = NoRoute
TakesIn(c, e)         == ~ Hosts(c, e)

\* applyMigrationTransfer: a body that is already here, even one that has not
\* been committed away yet, makes the snapshot be dropped without an answer.
\* Otherwise the entity is Active here, the base is told where it is and the
\* source that it may go.  A route this CellApp holds for it is not touched.
ApplyMigrationTransfer(s, c) ==
    LET l == <<s, c>>
        m == Head(net[l])
    IN  /\ Arrived(l, "transfer")
        /\ \/ /\ ~ TakesIn(c, m.e)
              /\ net' = Pop(net, l)
              /\ UNCHANGED <<body, work, used>>
           \/ /\ TakesIn(c, m.e)
              /\ body' = [body EXCEPT ![c][m.e] = "Active"]
              /\ work' = [work EXCEPT ![c][m.e] = m.work]
              /\ \E r1, r2 \in SendResults :
                    /\ net' = Send(Send(Pop(net, l), <<c, Base>>,
                                        Signal("cellReady", m.e), r1),
                                   <<c, s>>,
                                   [type |-> "commit", e |-> m.e,
                                    epoch |-> m.epoch], r2)
                    /\ used' = Charge(Charge(used, r1), r2)
        /\ UNCHANGED <<baseVars, migrationRoutes, applied, epochs>>

\* applyMigrationCommit: the source body goes if the route is still there, of
\* the same epoch, and the body is Migrating; the route stays.
ApplyMigrationCommit(s, c) ==
    LET l == <<s, c>>
        m == Head(net[l])
        matches == /\ migrationRoutes[c][m.e] # NoRoute
                   /\ migrationRoutes[c][m.e].epoch = m.epoch
                   /\ body[c][m.e] = "Migrating"
    IN  /\ Arrived(l, "commit")
        /\ body' = IF matches THEN [body EXCEPT ![c][m.e] = "None"] ELSE body
        /\ net' = Pop(net, l)
        /\ UNCHANGED <<baseVars, work, migrationRoutes, applied, epochs, used>>

\* Entity::dispatchInvocation: the method runs on the body, whatever its
\* state; without a body the call is dropped.
ExecuteCall(c, e) ==
    IF Hosts(c, e)
    THEN /\ work' = [work EXCEPT ![c][e] = @ + 1]
         /\ applied' = [applied EXCEPT ![e] = @ + 1]
    ELSE UNCHANGED <<work, applied>>

\* routeMigratingInvocation: a live route, whether or not the entity has come
\* back since.
\* Mutant of InWindow: only once the source body is gone.
InWindowAfterCommit(c, e) ==
    /\ migrationRoutes[c][e] # NoRoute
    /\ ~ migrationRoutes[c][e].expired
    /\ ~ Hosts(c, e)
InWindow(c, e) ==
    /\ migrationRoutes[c][e] # NoRoute
    /\ ~ migrationRoutes[c][e].expired

Lapsed(c, e) ==
    /\ migrationRoutes[c][e] # NoRoute
    /\ migrationRoutes[c][e].expired

\* dispatchInvocation of a method call: forwarded inside the route window; an
\* expired route is erased; a call that is not forwarded runs here.
DispatchCall(s, c) ==
    LET l == <<s, c>>
        m == Head(net[l])
    IN  /\ Arrived(l, "call")
        /\ \/ /\ ~ InWindow(c, m.e)
              /\ ExecuteCall(c, m.e)
              /\ net' = Pop(net, l)
              /\ migrationRoutes' =
                    IF Lapsed(c, m.e)
                    THEN [migrationRoutes EXCEPT ![c][m.e] = NoRoute]
                    ELSE migrationRoutes
              /\ UNCHANGED used
           \/ /\ InWindow(c, m.e)
              /\ \E r \in SendResults :
                    /\ net' = Send(Pop(net, l),
                                   <<c, migrationRoutes[c][m.e].target>>, m, r)
                    /\ used' = Charge(used, r)
                    /\ IF r = "Accepted" THEN UNCHANGED <<work, applied>>
                                         ELSE ExecuteCall(c, m.e)
              /\ UNCHANGED migrationRoutes
        /\ UNCHANGED <<baseVars, body, epochs>>

\* Clock::now() reaches the expiry of a route; nothing happens to the route
\* until the next call looks at it.
ExpireRoute(c, e) ==
    /\ used["lapses"] < MaxLapses
    /\ migrationRoutes[c][e] # NoRoute
    /\ ~ migrationRoutes[c][e].expired
    /\ migrationRoutes' = [migrationRoutes EXCEPT ![c][e].expired = TRUE]
    /\ used' = Spend(used, "lapses")
    /\ UNCHANGED <<baseVars, body, work, applied, net, epochs>>

\* clearMigrationRoute, called by the owner of the CellApp
ClearMigrationRoute(c, e) ==
    /\ used["lapses"] < MaxLapses
    /\ migrationRoutes[c][e] # NoRoute
    /\ migrationRoutes' = [migrationRoutes EXCEPT ![c][e] = NoRoute]
    /\ used' = Spend(used, "lapses")
    /\ UNCHANGED <<baseVars, body, work, applied, net, epochs>>

\* requestSpawnEntity: a body, in whatever state, asks its base for another
\* entity next to it.
RequestSpawnEntity(c, e) ==
    /\ Hosts(c, e)
    /\ used["spawns"] < MaxSpawns
    /\ Room(<<c, Base>>)
    /\ \E r \in SendResults :
          /\ net' = Send(net, <<c, Base>>, Signal("spawnRequest", e), r)
          /\ used' = Charge(Spend(used, "spawns"), r)
    /\ UNCHANGED <<baseVars, cellVars, epochs>>

-----------------------------------------------------------------------------

\* One message of connection <<s, d>> is handled (pumpInbound).
Deliver(s, d) ==
    \/ /\ d = Base
       /\ s \in Cells
       /\ \/ HandleCellReady(s)
          \/ HandleCellDestroyed(s)
          \/ HandleSpawnRequest(s)
    \/ /\ d \in Cells
       /\ s = Base
       /\ \/ HandleCreateCell(d)
          \/ HandleDestroyCell(d)
    \/ /\ d \in Cells
       /\ s \in Cells \ {d}
       /\ \/ ApplyMigrationTransfer(s, d)
          \/ ApplyMigrationCommit(s, d)
    \/ /\ d \in Cells
       /\ s \in Processes \ {d}
       /\ DispatchCall(s, d)

\* What the game layer, its clients and the clock do.
Environment ==
    \/ \E e \in Entities : \/ \E c \in Cells : EnterGame(e, c)
                           \/ DestroyEntity(e)
                           \/ LeaveWorld(e)
                           \/ ClientDisconnect(e)
                           \/ CallCell(e)
    \/ \E c \in Cells, e \in Entities :
          \/ \E t \in Cells : BeginMigration(c, t, e)
          \/ ExpireRoute(c, e)
          \/ ClearMigrationRoute(c, e)
          \/ RequestSpawnEntity(c, e)

Next == Environment \/ \E l \in Links : Deliver(l[1], l[2])

Spec == Init /\ [][Next]_vars

\* Every tick of every process drains its connections until they are empty
\* (the loop of pumpInbound), so a message that is queued is handled.
Fairness == \A l \in Links : WF_vars(Deliver(l[1], l[2]))

FairSpec == Spec /\ Fairness

-----------------------------------------------------------------------------
(* Vocabulary of the properties *)

\* Message m is what becomes the authoritative body of e when it is handled.
Claims(m, e) == m.e = e /\ m.type \in {"createCell", "transfer"}

InFlight(m, l) == \E i \in DOMAIN net[l] : net[l][i] = m

Pending(type, e) == \E l \in Links : InFlight(Signal(type, e), l)

ClaimInFlight(e) ==
    \E l \in Links : \E i \in DOMAIN net[l] : Claims(net[l][i], e)

HasAuthority(e) == ClaimInFlight(e) \/ \E c \in Cells : body[c][e] = "Active"

-----------------------------------------------------------------------------
(* Properties *)

\* An entity has at most one authoritative cell body, counting the bodies that
\* are still on their way (in a createCell or in a migration snapshot), however
\* migrations, destructions, refused sends and expired routes interleave: the
\* snapshot is sent before the source leaves the Active state, and the target
\* activates its copy before the source is committed away.
SingleAuthority ==
    \A e \in Entities :
        /\ \A c1, c2 \in Cells :
              body[c1][e] = "Active" /\ body[c2][e] = "Active" => c1 = c2
        /\ ClaimInFlight(e) => \A c \in Cells : body[c][e] # "Active"
        /\ \A l1, l2 \in Links :
              \A i \in DOMAIN net[l1], j \in DOMAIN net[l2] :
                  Claims(net[l1][i], e) /\ Claims(net[l2][j], e)
                      => l1 = l2 /\ i = j

\* completeBaseDestruction's early return is unreachable, as the comment on it
\* says: an id waits in pendingDestructions_ exactly while its base part is
\* registered and being destroyed.
PendingIsRegistered ==
    \A e \in Entities : e \in pendingDestructions <=> baseState[e] = "Destroying"

\* While entities do not migrate, the cellEntityCall the base holds is the
\* CellApp that hosts the entity, until the news of the body's end is on its
\* way back: a call never goes to a CellApp that never had, or will never
\* again have, the entity.
BindingIsTruthful ==
    \A e \in Entities : cellCall[e] # NoCell =>
        \/ Hosts(cellCall[e], e)
        \/ InFlight(Signal("cellDestroyed", e), <<cellCall[e], Base>>)

\* A base part that waits for its cell's destruction has its answer or its
\* request on the way; with two requests per disconnect and one answer.
PendingIsAnswered ==
    \A e \in pendingDestructions :
        \/ InFlight(Signal("cellDestroyed", e), <<cellCall[e], Base>>)
        \/ /\ Hosts(cellCall[e], e)
           /\ InFlight(Signal("destroyCell", e), <<Base, cellCall[e]>>)

\* Destroying an entity that has a cell part ends with both parts gone.
DestroyCompletes ==
    \A e \in Entities :
        e \in pendingDestructions ~>
            /\ baseState[e] = "Gone"
            /\ \A c \in Cells : ~ Hosts(c, e)

\* An entity that has a cell part loses it only because handleDestroyCell
\* removed the authoritative body; no order of transfers and commits does.
AuthorityEndsByDestroy ==
    [][\A e \in Entities :
          HasAuthority(e) /\ ~ HasAuthority(e)' =>
              \E c \in Cells :
                  /\ HandleDestroyCell(c)
                  /\ Head(net[<<Base, c>>]) = Signal("destroyCell", e)
                  /\ body[c][e] = "Active"]_vars

\* The authoritative body carries the effect of every call that was executed:
\* no call runs on a source body after its snapshot was taken.
NoEffectIsLost ==
    \A e \in Entities :
        /\ \A c \in Cells :
              body[c][e] = "Active" => work[c][e] = applied[e]
        /\ \A l \in Links : \A i \in DOMAIN net[l] :
              net[l][i].type = "transfer" /\ net[l][i].e = e
                  => net[l][i].work = applied[e]

\* A source body that waits to be committed away can be: its snapshot or the
\* commit of its epoch is on the way, and the route with that epoch exists.
MigratingIsAnswered ==
    \A c \in Cells, e \in Entities : body[c][e] = "Migrating" =>
        LET r == migrationRoutes[c][e]
        IN  /\ r # NoRoute
            /\ \/ \E i \in DOMAIN net[<<c, r.target>>] :
                     LET m == net[<<c, r.target>>][i]
                     IN  m.type = "transfer" /\ m.e = e /\ m.epoch = r.epoch
               \/ InFlight([type |-> "commit", e |-> e, epoch |-> r.epoch],
                           <<r.target, c>>)

\* A migration that was begun ends: the source body does not stay Migrating.
MigrationCompletes ==
    \A c \in Cells, e \in Entities :
        body[c][e] = "Migrating" ~> body[c][e] # "Migrating"

-----------------------------------------------------------------------------
(* The runtime implements CellPlacement: an entity is hosted where its       *)
(* authoritative body is, requested or travelling where the message that     *)
(* carries the claim to it is going, and removed when there is neither.      *)

PlaceOf(e) ==
    LET hosts   == {c \in Cells : body[c][e] = "Active"}
        bearers == {l \in Links : \E i \in DOMAIN net[l] : Claims(net[l][i], e)}
    IN  IF hosts # {}
        THEN [stage |-> "hosted", cell |-> CHOOSE c \in hosts : TRUE]
        ELSE IF bearers # {}
        THEN LET l == CHOOSE l \in bearers : TRUE
             IN  [stage |-> IF l[1] = Base THEN "requested" ELSE "travelling",
                  cell  |-> l[2]]
        ELSE [stage |-> IF baseState[e] = "Unborn" THEN "unplaced"
                                                   ELSE "removed",
              cell  |-> NoCell]

Placement == INSTANCE CellPlacement
                 WITH place <- [e \in Entities |-> PlaceOf(e)]

PlacementSpec == Placement!Spec
=============================================================================
