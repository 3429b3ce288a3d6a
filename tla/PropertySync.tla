---------------------------- MODULE PropertySync ----------------------------
(***************************************************************************)
(* The properties of one entity: its base part (core/BaseRuntime.cpp), its     *)
(* cell body on a CellApp and, after a migration, on another one               *)
(* (runtime/CellRuntime.cpp), its ghost on a neighbour (GhostManager.cpp) and  *)
(* what its player's client is shown (core/BaseApp.cpp).  Each part keeps a    *)
(* PropertyBlock with a dirty mask per audience; the masks are turned into     *)
(* deltas once a tick and sent.                                              *)
(*                                                                         *)
(* Every process is one thread.  A tick handles messages and runs scripts,     *)
(* then builds and sends with nothing in between; how many messages a tick     *)
(* handles is open, so each message and each Sync is a step.                 *)
(*                                                                         *)
(* What is abstracted: a value is the number of the write that made it (0 is   *)
(* the default); a property is written by scripts of one side only, as the     *)
(* single write authority of the design asks; properties that stay on their    *)
(* side (flags Base, Cell) are left out; epochs and route windows are those    *)
(* of EntityRuntime and no property message meets them.                        *)
(***************************************************************************)
EXTENDS Naturals, Sequences, FiniteSets

CONSTANTS
    BaseProps,      \* written by scripts of the base part
    CellProps,      \* written by scripts of the cell body
    Strings,        \* kept in varStorage_, with an entry once written
    Cells, Base, Ghost,
    Nowhere,
    MaxWrites, MaxMigrations, MaxRefusals,
    MaxBacklog      \* messages of a connection when a part builds a delta

Props == BaseProps \cup CellProps
Parts == Cells \cup {Base, Ghost}

ASSUME PropertiesAssumption ==
    /\ BaseProps \cap CellProps = {} /\ Strings \subseteq Props
    /\ Base \notin Cells /\ Ghost \notin Cells /\ Base # Ghost /\ Nowhere \notin Parts
    /\ {MaxWrites, MaxMigrations, MaxRefusals, MaxBacklog} \subseteq Nat

VARIABLES
    value,          \* storage_ and varStorage_ of each part
    runtime, view,  \* dirtyMask_, viewDirtyMask_
    client,         \* clientDirtyMask_ of the base part
    body,           \* of each CellApp
    asked,          \* a cell body has been asked for
    cellCall,       \* of the base part
    shadow,         \* CellApps whose body has a ghost (ensureRealGhost)
    net,            \* from part to part, in order
    wire, screen,   \* to the client, and what it shows
    writes, migrations, refusals,
    missed,         \* history: changes of the base no body will get
    untold,         \* history: changes of the body the base will not get
    unseen,         \* history: what the ghost will not get
    unheard         \* history: what the client will not get

blockVars == <<value, runtime, view, client>>
placeVars == <<body, asked, cellCall, shadow>>
boundVars == <<writes, migrations, refusals>>
historyVars == <<missed, untold, unseen, unheard>>
vars == <<blockVars, placeVars, net, wire, screen, boundVars, historyVars>>

Default == [p \in Props |-> 0]

\* The client has been sent a snapshot when it entered (handleEnterGame).
Init ==
    /\ value = [x \in Parts |-> Default]
    /\ runtime = [x \in Parts |-> {}] /\ view = [x \in Parts |-> {}] /\ client = {}
    /\ body = [c \in Cells |-> "None"] /\ asked = FALSE
    /\ cellCall = Nowhere /\ shadow = {}
    /\ net = [l \in Parts \X Parts |-> <<>>]
    /\ wire = <<>> /\ screen = Default
    /\ writes = 0 /\ migrations = 0 /\ refusals = 0
    /\ missed = {} /\ untold = {} /\ unseen = {} /\ unheard = {}

-----------------------------------------------------------------------------
(* PropertyBlock and PropertyReplication.                                    *)
\* buildDeltaFromMask: the values the storage has now.
Delta(x, mask) == [p \in mask |-> value[x][p]]

\* buildFullSnapshot: a string that was never written has no entry.
FullSnapshot(x) == Delta(x, {p \in Props : p \in Strings => value[x][p] # 0})

\* applyDelta
Over(delta, values) ==
    [p \in DOMAIN values |-> IF p \in DOMAIN delta THEN delta[p] ELSE values[p]]
Applied(x, delta) == [value EXCEPT ![x] = Over(delta, @)]

\* DirtyMask::mark and clear
Marked(mask, x, ps) == [mask EXCEPT ![x] = @ \cup ps]
Cleared(mask, x) == [mask EXCEPT ![x] = {}]

\* set, setString, setBlob
Set(x, p) ==
    /\ writes < MaxWrites /\ writes' = writes + 1
    /\ value' = [value EXCEPT ![x][p] = writes + 1]
    /\ runtime' = Marked(runtime, x, {p})

-----------------------------------------------------------------------------
(* The transport.                                                            *)
Message(kind, delta) == [kind |-> kind, delta |-> delta]
Quiet(kind) == Message(kind, <<>>)

Sent(queues, x, y, m) == [queues EXCEPT ![<<x, y>>] = Append(@, m)]
Refuse(n) == refusals + n <= MaxRefusals /\ refusals' = refusals + n
Room(x, y) == Len(net[<<x, y>>]) < MaxBacklog

Arrived(x, y, kind) == net[<<x, y>>] # <<>> /\ Head(net[<<x, y>>]).kind = kind
Payload(x, y) == Head(net[<<x, y>>]).delta
Taken(x, y) == [net EXCEPT ![<<x, y>>] = Tail(@)]

UnderWay(y, p, v) ==
    \E x \in Parts : \E i \in DOMAIN net[<<x, y>>] :
        LET d == net[<<x, y>>][i].delta IN p \in DOMAIN d /\ d[p] = v
ToCome(y, p) == \E v \in 0..MaxWrites : UnderWay(y, p, v)

\* What the base hears of a body after it has heard of the next one, or a string
\* that the next one does not have.
Late(c, delta) ==
    IF migrations = 0 THEN {}
    ELSE {p \in DOMAIN delta : delta[p] < value[Base][p] \/ (p \in Strings /\ body[c] # "Active")}

\* What reaches the body at c, sent before it left c for the last time, when it
\* has come back with something newer.
Overtaken(c, delta) ==
    IF migrations <= 1 THEN {} ELSE {p \in DOMAIN delta : delta[p] < value[c][p]}

-----------------------------------------------------------------------------
(* The base part.                                                            *)

\* A script of the base part writes (Entity::setString and the like).
BaseWrite(p) ==
    /\ p \in BaseProps
    /\ Set(Base, p)
    /\ client' = client \cup {p}
    /\ missed' = missed \ {p}
    /\ UNCHANGED <<view, placeVars, net, wire, screen, migrations, refusals,
                   untold, unseen, unheard>>

\* requestCreateCell: what the snapshot holds is no longer dirty.
RequestCreateCell(c) ==
    /\ ~ asked
    /\ \/ /\ net' = Sent(net, Base, c, Message("create", FullSnapshot(Base)))
          /\ asked' = TRUE
          /\ runtime' = Cleared(runtime, Base)
          /\ UNCHANGED refusals
       \/ Refuse(1) /\ UNCHANGED <<net, asked, runtime>>
    /\ UNCHANGED <<value, view, client, body, cellCall, shadow, wire, screen,
                   writes, migrations, historyVars>>

\* Mutant: the mask is cleared when the delta is built.
SyncToCellsEarly ==
    /\ cellCall # Nowhere /\ runtime[Base] # {} /\ Room(Base, cellCall)
    /\ \/ /\ net' = Sent(net, Base, cellCall, Message("sync", Delta(Base, runtime[Base])))
          /\ UNCHANGED refusals
       \/ Refuse(1) /\ UNCHANGED net
    /\ runtime' = Cleared(runtime, Base)
    /\ UNCHANGED <<value, view, client, placeVars, wire, screen, writes, migrations,
                   historyVars>>

\* syncToCells and flushRuntimeTransport: the mask is cleared only when the
\* transport accepts.
SyncToCells ==
    /\ cellCall # Nowhere /\ runtime[Base] # {} /\ Room(Base, cellCall)
    /\ \/ /\ net' = Sent(net, Base, cellCall, Message("sync", Delta(Base, runtime[Base])))
          /\ runtime' = Cleared(runtime, Base)
          /\ UNCHANGED refusals
       \/ Refuse(1) /\ UNCHANGED <<net, runtime>>
    /\ UNCHANGED <<value, view, client, placeVars, wire, screen, writes, migrations,
                   historyVars>>

\* handleCellReady
HandleCellReady(c) ==
    /\ Arrived(c, Base, "ready")
    /\ net' = Taken(c, Base)
    /\ cellCall' = c
    /\ UNCHANGED <<blockVars, body, asked, shadow, wire, screen, boundVars, historyVars>>

\* Mutant: the client is not told.
SyncFromCellSilently(c) ==
    /\ Arrived(c, Base, "sync")
    /\ net' = Taken(c, Base)
    /\ LET delta == Payload(c, Base) IN
       /\ value' = Applied(Base, delta)
       /\ untold' = untold \cup Late(c, delta)
    /\ UNCHANGED <<runtime, view, client, placeVars, wire, screen, boundVars, missed,
                   unseen, unheard>>

\* handlePropertySyncFromCell: for the client and the store, not for the cell.
\* After a migration a delta of the old body may come after one of the new.
SyncFromCell(c) ==
    /\ Arrived(c, Base, "sync")
    /\ net' = Taken(c, Base)
    /\ LET delta == Payload(c, Base) IN
       /\ value' = Applied(Base, delta)
       /\ client' = client \cup DOMAIN delta
       /\ untold' = untold \cup Late(c, delta)
    /\ UNCHANGED <<runtime, view, placeVars, wire, screen, boundVars, missed,
                   unseen, unheard>>

\* flushClientPropertyUpdates: the mask is cleared whatever the session does.
FlushClient ==
    /\ client # {} /\ Len(wire) < MaxBacklog
    /\ \/ /\ wire' = Append(wire, Delta(Base, client))
          /\ unheard' = unheard \ client
          /\ UNCHANGED refusals
       \/ Refuse(1) /\ unheard' = unheard \cup client /\ UNCHANGED wire
    /\ client' = {}
    /\ UNCHANGED <<value, runtime, view, placeVars, net, screen, writes, migrations,
                   missed, untold, unseen>>

\* The client merges what it hears.
Show ==
    /\ wire # <<>>
    /\ screen' = Over(Head(wire), screen)
    /\ wire' = Tail(wire)
    /\ UNCHANGED <<blockVars, placeVars, net, boundVars, historyVars>>

-----------------------------------------------------------------------------
(* The cell body.                                                            *)
Active(c) == body[c] = "Active"

\* A script of the body writes.
CellWrite(c, p) ==
    /\ p \in CellProps /\ Active(c)
    /\ Set(c, p)
    /\ view' = Marked(view, c, {p})
    /\ untold' = untold \ {p} /\ unseen' = unseen \ {p}
    /\ UNCHANGED <<client, placeVars, net, wire, screen, migrations, refusals,
                   missed, unheard>>

\* handleCreateCell: notifyCreate may write; then the snapshot is applied and
\* every mask is cleared.
HandleCreateCell(c) ==
    /\ Arrived(Base, c, "create") /\ body[c] = "None"
    /\ LET snapshot == Payload(Base, c) IN
       \E early \in {{}} \cup {{p} : p \in CellProps} :
        /\ writes + Cardinality(early) <= MaxWrites
        /\ writes' = writes + Cardinality(early)
        /\ value' = [value EXCEPT ![c] = Over(snapshot,
                        [p \in Props |-> IF p \in early THEN writes' ELSE 0])]
        /\ untold' = untold \cup (early \ DOMAIN snapshot)
    /\ body' = [body EXCEPT ![c] = "Active"]
    /\ net' = Sent(Taken(Base, c), c, Base, Quiet("ready"))
    /\ UNCHANGED <<runtime, view, client, asked, cellCall, shadow, wire, screen,
                   migrations, refusals, missed, unseen, unheard>>

\* Mutant: what the base changed is not shown.
ViewedNot(c, delta) == view

\* The targets of handlePropertySyncFromBase: watchers and the ghost, not the base.
Viewed(c, delta) == Marked(view, c, DOMAIN delta)

\* handlePropertySyncFromBase, wherever the entity is: a message that finds no
\* body is dropped, and one that finds a Migrating body changes a body that is
\* about to go (neither is routed: the call is handled before the route).
SyncFromBase(c) ==
    /\ Arrived(Base, c, "sync")
    /\ net' = Taken(Base, c)
    /\ LET delta == Payload(Base, c) IN
       /\ IF body[c] = "None" THEN UNCHANGED <<value, view>>
          ELSE /\ value' = Applied(c, delta)
               /\ view' = Viewed(c, delta)
       /\ IF Active(c) THEN /\ unseen' = unseen \ DOMAIN delta
                            /\ missed' = missed \cup Overtaken(c, delta)
          ELSE /\ missed' = missed \cup {p \in DOMAIN delta : delta[p] = value[Base][p]}
               /\ UNCHANGED unseen
    /\ UNCHANGED <<runtime, client, placeVars, wire, screen, boundVars, untold, unheard>>

\* syncToBases and syncRealGhosts: of an entity that is Active.
ToBase(c) == Active(c) /\ runtime[c] # {}
ToGhost(c) == Active(c) /\ c \in shadow /\ view[c] # {}
Listeners(c) == {x \in {Base, Ghost} : IF x = Base THEN ToBase(c) ELSE ToGhost(c)}
News(c, x) == IF x = Base THEN Message("sync", Delta(c, runtime[c]))
              ELSE Message("ghost", Delta(c, view[c]))

\* stageDirtyEntities, buildSync and flushRuntimeTransport: the masks are cleared
\* when the deltas are staged, whether or not they are sent.
CellSync(c) ==
    /\ body[c] # "None" /\ runtime[c] \cup view[c] # {}
    /\ Room(c, Base) /\ Room(c, Ghost)
    /\ \E lost \in SUBSET Listeners(c) :
        /\ Refuse(Cardinality(lost))
        /\ net' = [l \in DOMAIN net |-> IF l[1] = c /\ l[2] \in Listeners(c) \ lost
                                       THEN Append(net[l], News(c, l[2])) ELSE net[l]]
        /\ untold' = IF Base \in lost THEN untold \cup runtime[c] ELSE untold
        /\ unseen' = IF Ghost \in lost THEN unseen \cup view[c] ELSE unseen
    /\ runtime' = Cleared(runtime, c) /\ view' = Cleared(view, c)
    /\ UNCHANGED <<value, client, placeVars, wire, screen, writes, migrations, missed,
                   unheard>>

\* capture and restore: a snapshot is of storage_ alone; what restores it has
\* nothing dirty.
Captured(c) == Delta(c, Props \ Strings)
Restored(snapshot) == Over(snapshot, Default)

\* migration.transfer
Transfer(c) == Message("transfer", Captured(c))

\* beginMigration: what is dirty stays behind.
BeginMigration(c, t) ==
    /\ Active(c) /\ t # c /\ migrations < MaxMigrations
    /\ \/ /\ net' = Sent(net, c, t, Transfer(c))
          /\ body' = [body EXCEPT ![c] = "Migrating"]
          /\ migrations' = migrations + 1
          /\ untold' = untold \cup runtime[c] \cup {p \in CellProps \cap Strings : value[c][p] # 0}
          /\ missed' = missed \cup {p \in BaseProps \cap Strings : value[c][p] # 0}
          /\ UNCHANGED refusals
       \/ Refuse(1) /\ UNCHANGED <<net, body, migrations, untold, missed>>
    /\ UNCHANGED <<blockVars, asked, cellCall, shadow, wire, screen, writes, unseen, unheard>>

\* applyMigrationTransfer: the base is told where the body is, and
\* the source that it may go.  A snapshot that meets a body is dropped.
ApplyMigrationTransfer(s, c) ==
    /\ Arrived(s, c, "transfer")
    /\ IF body[c] = "None"
       THEN /\ value' = [value EXCEPT ![c] = Restored(Payload(s, c))]
            /\ runtime' = Cleared(runtime, c) /\ view' = Cleared(view, c)
            /\ body' = [body EXCEPT ![c] = "Active"]
            /\ net' = Sent(Sent(Taken(s, c), c, Base, Quiet("ready")), c, s, Quiet("commit"))
       ELSE net' = Taken(s, c) /\ UNCHANGED <<value, runtime, view, body>>
    /\ UNCHANGED <<client, asked, cellCall, shadow, wire, screen, boundVars, historyVars>>

\* applyMigrationCommit: the old body and its ghost binding go.
ApplyMigrationCommit(s, c) ==
    /\ Arrived(s, c, "commit") /\ body[c] = "Migrating"
    /\ net' = Taken(s, c)
    /\ body' = [body EXCEPT ![c] = "None"]
    /\ runtime' = Cleared(runtime, c) /\ view' = Cleared(view, c)
    /\ shadow' = shadow \ {c}
    /\ UNCHANGED <<value, client, asked, cellCall, wire, screen, boundVars, historyVars>>

-----------------------------------------------------------------------------
(* The ghost.                                                                *)
\* ensureRealGhost: from now on what changes is sent; what is there is not, and
\* what an earlier body has sent may still come.
EnsureRealGhost(c) ==
    /\ Active(c) /\ c \notin shadow
    /\ shadow' = shadow \cup {c}
    /\ unseen' = {p \in Props \ view[c] : value[Ghost][p] # value[c][p] \/ ToCome(Ghost, p)}
    /\ UNCHANGED <<blockVars, body, asked, cellCall, net, wire, screen, boundVars,
                   missed, untold, unheard>>

\* applyGhostSync: a body that has gone may be heard after the next one.
ApplyGhostSync(c) ==
    /\ Arrived(c, Ghost, "ghost")
    /\ net' = Taken(c, Ghost)
    /\ value' = Applied(Ghost, Payload(c, Ghost))
    /\ unseen' = IF Active(c) THEN unseen ELSE unseen \cup DOMAIN Payload(c, Ghost)
    /\ UNCHANGED <<runtime, view, client, placeVars, wire, screen, boundVars, missed,
                   untold, unheard>>

-----------------------------------------------------------------------------
Next ==
    \/ \E p \in Props : BaseWrite(p) \/ \E c \in Cells : CellWrite(c, p)
    \/ SyncToCells \/ FlushClient \/ Show
    \/ \E c \in Cells :
        \/ RequestCreateCell(c) \/ HandleCellReady(c) \/ SyncFromCell(c)
        \/ HandleCreateCell(c) \/ SyncFromBase(c) \/ CellSync(c)
        \/ EnsureRealGhost(c) \/ ApplyGhostSync(c)
        \/ \E t \in Cells : \/ BeginMigration(c, t)
                            \/ ApplyMigrationTransfer(t, c)
                            \/ ApplyMigrationCommit(t, c)

Spec == Init /\ [][Next]_vars

-----------------------------------------------------------------------------
(* Properties.                                                               *)
\* Types; only the base part has something for the client.
TypeOK ==
    /\ value \in [Parts -> [Props -> 0..MaxWrites]]
    /\ \A c \in Cells : runtime[c] \subseteq CellProps /\ view[c] \subseteq Props
    /\ runtime[Base] \subseteq BaseProps /\ client \subseteq Props
    /\ body \in [Cells -> {"None", "Active", "Migrating"}]
    /\ cellCall \in Cells \cup {Nowhere} /\ shadow \subseteq Cells

\* Where the body is Active it has every value the base has written, or that
\* value is still to be sent or under way; unless it came to a body that was
\* leaving, or was overwritten by an older one where the body had come back
\* (BaseRuntime::syncToCells, CellRuntime::handlePropertySyncFromBase).
CellIsCurrent ==
    \A c \in Cells : Active(c) =>
        \A p \in BaseProps \ missed :
            \/ value[c][p] = value[Base][p]
            \/ p \in runtime[Base]
            \/ \E d \in Cells : UnderWay(d, p, value[Base][p])

\* And the base has what the body has written; unless it was written in the
\* tick of a migration, overtaken, refused, or a string that does not travel
\* (CellRuntime::syncToBases, EntityMigration::restore).
BaseIsCurrent ==
    \A c \in Cells : Active(c) =>
        \A p \in CellProps \ untold :
            \/ value[Base][p] = value[c][p]
            \/ p \in runtime[c]
            \/ UnderWay(Base, p, value[c][p])

\* The two owners of an entity's properties have each other's values, but for the
\* losses named above.
OwnersAreCurrent == TypeOK /\ CellIsCurrent /\ BaseIsCurrent

\* The client has what the base has, or will (flushClientPropertyUpdates).
ClientIsCurrent ==
    \A p \in Props \ unheard :
        \/ screen[p] = value[Base][p]
        \/ p \in client
        \/ \E i \in DOMAIN wire : p \in DOMAIN wire[i] /\ wire[i][p] = value[Base][p]

\* The ghost has what the body has, from the first change after it was bound
\* (syncRealGhosts).
GhostIsCurrent ==
    \A c \in shadow : Active(c) =>
        \A p \in Props \ unseen :
            \/ value[Ghost][p] = value[c][p]
            \/ p \in view[c]
            \/ UnderWay(Ghost, p, value[c][p])
=============================================================================
