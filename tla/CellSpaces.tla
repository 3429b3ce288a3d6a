----------------------------- MODULE CellSpaces -----------------------------
(***************************************************************************)
(* The spaces of one CellApp and what its players see: Space and its           *)
(* CoordinateSystem (runtime/Space.cpp, AOI.cpp), SpaceRuntime and Witness     *)
(* (SpaceRuntime.cpp, Witness.cpp), the part of CellRuntime that moves         *)
(* entities between spaces and sends what witnesses saw (CellRuntime.cpp),     *)
(* and the way of these messages through BaseRuntime and BaseApp to the        *)
(* player's client.                                                        *)
(*                                                                         *)
(* A cell process runs its tick phase by phase in one thread; messages are     *)
(* handled in Network, scripts run in Network and Script, Flush follows        *)
(* SyncBuild with nothing between them.                                      *)
(*                                                                         *)
(* What is abstracted: velocities and controllers (an entity moves to any      *)
(* point at any tick), the Z list (kept exactly as the X list is, and never    *)
(* walked), detail levels (set at entry and never read), property values (see  *)
(* PropertySync), entity types and tags.                                     *)
(***************************************************************************)
EXTENDS Integers, Sequences, FiniteSets, SequencesExt, Functions, Lists

CONSTANTS
    Avatars,        \* entities with a base part and a client
    Npcs,           \* entities of CellApp::createEntity
    Spaces, Default,
    Points,         \* positions, <<x, z>>
    Ranges,         \* view ranges scripts ask for
    Nowhere,        \* no space, no witness
    MaxOps,         \* operations in one phase
    MaxMovers,      \* entities that move in one tick
    MaxBacklog,     \* messages under way to a client when a tick starts
    MaxLosses       \* messages refused by the transport, or dropped

ASSUME SpacesAssumption ==
    /\ Avatars \cap Npcs = {} /\ Default \in Spaces /\ Nowhere \notin Spaces
    /\ {MaxOps, MaxMovers, MaxBacklog, MaxLosses} \subseteq Nat /\ Ranges \subseteq Nat
    /\ Points \subseteq Int \X Int /\ Points # {}
    /\ IsFiniteSet(Avatars) /\ IsFiniteSet(Npcs)

Entities == Avatars \cup Npcs

\* What a witness has, and is not Nowhere.
Events == [kind : {"enter", "leave"}, who : Entities]
Witnesses == [range : Ranges, inside : SUBSET Entities, entries : SUBSET Entities,
              events : Seq(Events)]

ASSUME WitnessAssumption == Nowhere \notin Witnesses

VARIABLES
    phase, ops,     \* of the tick; operations done in this phase
    spaces,         \* spaceRuntimes_
    space,          \* entitySpaceMap_
    position,       \* CoordinateNode::position_
    axis,           \* the list from headX_ of each space
    held,           \* CellApp::ownedEntities_
    born,           \* avatars whose cell part has been created
    witness,        \* witnesses_ of all spaces, by owner
    staged,         \* stagedPositions_: <<space, entity>> -> position
    wire,           \* from the cell through the base to each client
    known,          \* what each client has been told: entity -> position
    back,           \* history: <<o, e>>, e came back between two refreshes of o
    misled,         \* history: <<o, e>>, the client of o was last told where e was
                    \* before it left and came back
    deaf, losses    \* history: clients a message to whom was lost

placeVars == <<spaces, space, position, axis, held, born>>
historyVars == <<back, misled, deaf, losses>>
vars == <<phase, ops, placeVars, witness, staged, wire, known, historyVars>>

Init ==
    /\ phase = "Network" /\ ops = 0
    /\ spaces = {Default}
    /\ space = [e \in Entities |-> Nowhere]
    /\ position = [e \in Entities |-> CHOOSE p \in Points : TRUE]
    /\ axis = [s \in Spaces |-> <<>>]
    /\ held = {} /\ born = {}
    /\ witness = [o \in Avatars |-> Nowhere]
    /\ staged = <<>>
    /\ wire = [o \in Avatars |-> <<>>]
    /\ known = [o \in Avatars |-> <<>>]
    /\ back = {} /\ misled = {} /\ deaf = {} /\ losses = 0

-----------------------------------------------------------------------------
(* What the cell says, and the base repeats to the client.                   *)
EntityEnter(e, p) == [kind |-> "enter", who |-> e, at |-> p]
EntityLeave(e) == [kind |-> "leave", who |-> e]
PropertySync(at) == [kind |-> "place", at |-> at]
SpaceChange == [kind |-> "space"]

\* A map with some of its entries set.
Overwritten(old, new) ==
    [k \in DOMAIN old \cup DOMAIN new |-> IF k \in DOMAIN new THEN new[k] ELSE old[k]]

-----------------------------------------------------------------------------
(* CoordinateSystem.                                                         *)
X(at, e) == at[e][1]

\* insertSortedX: before the first that is not smaller.
Inserted(list, at, e) ==
    LET i == SelectInSeq(list, LAMBDA f : X(at, f) >= X(at, e))
    IN InsertAt(list, IF i = 0 THEN Len(list) + 1 ELSE i, e)

\* Mutant: only toward the head.
RepositionedOnce(list, at, e) ==
    LET k == SelectInSeq(list, LAMBDA f : f = e)
        rest == RemoveAt(list, k)
        i == SelectLastInSubSeq(rest, 1, k - 1, LAMBDA f : X(at, f) <= X(at, e))
    IN InsertAt(rest, i + 1, e)

\* reposition: past the larger ones before it, else past the smaller ones
\* after it.
Repositioned(list, at, e) ==
    LET k == SelectInSeq(list, LAMBDA f : f = e)
        rest == RemoveAt(list, k)
        i == SelectLastInSubSeq(rest, 1, k - 1, LAMBDA f : X(at, f) <= X(at, e))
        j == SelectInSubSeq(rest, k, Len(rest), LAMBDA f : X(at, f) >= X(at, e))
        end == IF j = 0 THEN Len(rest) + 1 ELSE j
    IN InsertAt(rest, IF i < k - 1 THEN i + 1 ELSE end, e)

Square(n) == n * n
Distance(p, q) == Square(p[1] - q[1]) + Square(p[2] - q[2])     \* squared

\* entitiesInRange: the list is walked from the first with x >= minX to the
\* last with x <= maxX.
InRange(list, at, origin, radius) ==
    LET from == SelectInSeq(list, LAMBDA f : X(at, f) >= origin[1] - radius)
        beyond == SelectInSubSeq(list, from, Len(list),
                                 LAMBDA f : X(at, f) > origin[1] + radius)
        last == IF beyond = 0 THEN Len(list) ELSE beyond - 1
    IN IF from = 0 THEN {}
       ELSE {e \in ToSet(SubSeq(list, from, last)) :
                Distance(at[e], origin) <= Square(radius)}

-----------------------------------------------------------------------------
(* RangeTrigger and Witness.                                                 *)
Sees(o) == witness[o] # Nowhere

Event(kind, e) == [kind |-> kind, who |-> e]
Entered(w, es) ==       \* onEnterView
    [w EXCEPT !.entries = @ \cup es,
              !.events = @ \o SetToSeq({Event("enter", e) : e \in es})]
Left(w, es) ==          \* onLeaveView
    [w EXCEPT !.entries = @ \ es,
              !.events = @ \o SetToSeq({Event("leave", e) : e \in es})]

\* refresh: those not inside before enter; of those inside before, the ones
\* still in the coordinate system leave.
Refreshed(w, o, list, at) ==
    LET near == InRange(list, at, at[o], w.range) \ {o}
        gone == (w.inside \ near) \cap ToSet(list)
    IN [Left(Entered(w, near \ w.inside), gone) EXCEPT !.inside = near]

\* A trigger that is installed has nobody inside.
NewWitness(range) == [range |-> range, inside |-> {}, entries |-> {}, events |-> <<>>]

-----------------------------------------------------------------------------
(* SpaceRuntime: entities come and go.                                       *)
Operates(phases) == phase \in phases /\ ops < MaxOps /\ ops' = ops + 1 /\ UNCHANGED phase

\* Mutant: the other witnesses are not told.
WithoutUntold(e) == [o \in Avatars |-> IF o = e THEN Nowhere ELSE witness[o]]

\* removeEntity: its own witness goes with its events, every other witness of
\* the space is told, and its trigger is not.
Without(e) == [o \in Avatars |->
    IF o = e THEN Nowhere
    ELSE IF Sees(o) /\ space[o] = space[e] THEN Left(witness[o], {e}) ELSE witness[o]]

\* Who still has e inside although it was away.
Returned(e, s) == {<<o, e>> : o \in {v \in Avatars \ {e} :
                    Sees(v) /\ space[v] = s /\ e \in witness[v].inside}}
Forgotten(e) == {b \in back : b[1] # e}

\* Space::addEntity
Added(e, s, p) ==
    LET at == [position EXCEPT ![e] = p]
    IN /\ space' = [space EXCEPT ![e] = s]
       /\ position' = at
       /\ axis' = [axis EXCEPT ![s] = Inserted(@, at, e)]
       /\ back' = back \cup Returned(e, s)

\* createSpace: unless there is one.
Opened(s) == spaces \cup {s}

\* handleCreateCell: the target space is made if need be.
CreateCell(e, s, p) ==
    /\ Operates({"Network"})
    /\ e \in Avatars \ born
    /\ spaces' = Opened(s)
    /\ born' = born \cup {e}
    /\ Added(e, s, p)
    /\ UNCHANGED <<held, witness, staged, wire, known, misled, deaf, losses>>

\* CellApp::createEntity
CreateEntity(e, p) ==
    /\ Operates({"Network", "Script"})
    /\ e \in Npcs \ held
    /\ held' = held \cup {e}
    /\ Added(e, Default, p)
    /\ UNCHANGED <<spaces, born, witness, staged, wire, known, misled, deaf, losses>>

\* CellRuntime::removeEntity
Removed(e) ==
    IF space[e] = Nowhere THEN UNCHANGED <<axis, witness, space, back>>
    ELSE /\ axis' = [axis EXCEPT ![space[e]] = RemoveFirst(@, e)]
         /\ witness' = Without(e)
         /\ space' = [space EXCEPT ![e] = Nowhere]
         /\ back' = Forgotten(e)

\* handleDestroyCell
DestroyCell(e) ==
    /\ Operates({"Network"})
    /\ e \in Avatars /\ space[e] # Nowhere
    /\ Removed(e)
    /\ UNCHANGED <<spaces, position, held, born, staged, wire, known, misled, deaf, losses>>

\* CellApp::destroyEntity
DestroyEntity(e) ==
    /\ Operates({"Network", "Script"})
    /\ e \in held
    /\ held' = held \ {e}
    /\ Removed(e)
    /\ UNCHANGED <<spaces, position, born, staged, wire, known, misled, deaf, losses>>

\* What the base of the entity is told, and its client, or was refused.
SpaceChanged(e) ==
    \/ e \notin Avatars /\ UNCHANGED <<wire, deaf, losses>>
    \/ /\ e \in Avatars
       /\ wire' = [wire EXCEPT ![e] = Append(@, SpaceChange)]
       /\ UNCHANGED <<deaf, losses>>
    \/ /\ e \in Avatars /\ losses < MaxLosses
       /\ deaf' = deaf \cup {e} /\ losses' = losses + 1
       /\ UNCHANGED wire

\* teleportEntity: out of one space and into another, where no witness is made
\* for it.  Whether the base of the entity hears of it is not asked.
TeleportEntity(e, s, p) ==
    /\ space[e] \notin {Nowhere, s}
    /\ LET at == [position EXCEPT ![e] = p]
       IN /\ space' = [space EXCEPT ![e] = s]
          /\ position' = at
          /\ axis' = [axis EXCEPT ![space[e]] = RemoveFirst(@, e), ![s] = Inserted(@, at, e)]
    /\ witness' = Without(e)
    /\ back' = Forgotten(e) \cup Returned(e, s)
    /\ SpaceChanged(e)
    /\ UNCHANGED <<held, born, staged, known, misled>>

\* handleTeleport: the base asks; the space is made if need be, also for an
\* entity that has gone.
HandleTeleport(e, s, p) ==
    /\ Operates({"Network"})
    /\ e \in Avatars
    /\ spaces' = Opened(s)
    /\ \/ TeleportEntity(e, s, p)
       \/ /\ space[e] \in {Nowhere, s}
          /\ UNCHANGED <<space, position, axis, held, born, witness, staged, wire, known, historyVars>>

\* A script asks, for a space there is.
ScriptTeleport(e, s, p) ==
    /\ Operates({"Script"})
    /\ s \in spaces
    /\ TeleportEntity(e, s, p)
    /\ UNCHANGED spaces

\* destroySpace: its entities go, and nobody is told.
DestroySpace(s) ==
    /\ Operates({"Network", "Script"})
    /\ s \in spaces \ {Default}
    /\ LET lost == ToSet(axis[s]) IN
       /\ spaces' = spaces \ {s}
       /\ space' = [e \in Entities |-> IF e \in lost THEN Nowhere ELSE space[e]]
       /\ axis' = [axis EXCEPT ![s] = <<>>]
       /\ witness' = [o \in Avatars |-> IF o \in lost THEN Nowhere ELSE witness[o]]
       /\ staged' = Restrict(staged, {d \in DOMAIN staged : d[1] # s})
       /\ back' = {b \in back : b[1] \notin lost}
    /\ UNCHANGED <<position, held, born, wire, known, misled, deaf, losses>>

\* ensureWitness: its trigger looks at once; a new range too.
Watch(o, range) ==
    /\ Operates({"Network", "Script"})
    /\ space[o] # Nowhere
    /\ LET w == IF Sees(o) THEN [witness[o] EXCEPT !.range = range] ELSE NewWitness(range)
           r == Refreshed(w, o, axis[space[o]], position)
       IN /\ witness' = [witness EXCEPT ![o] = r]
          /\ back' = {b \in back : b[1] = o => b[2] \in r.inside}
    /\ UNCHANGED <<placeVars, staged, wire, known, misled, deaf, losses>>

-----------------------------------------------------------------------------
(* The tick (TickScheduler::runOnce).                                        *)
\* CoordinateSystem::update
Updated(b, e, p) ==
    LET now == [b.at EXCEPT ![e] = p]
    IN [at |-> now, axis |-> [b.axis EXCEPT ![space[e]] = Repositioned(@, now, e)]]

\* applyVelocity: who has a velocity moves, one after the other.
Steps(order, to) ==
    LET after[n \in 0..Len(order)] ==
            IF n = 0 THEN [at |-> position, axis |-> axis]
            ELSE Updated(after[n - 1], order[n], to[order[n]])
    IN after
Moved(movers, to) == Steps(SetToSeq(movers), to)[Cardinality(movers)]

\* SpaceRuntime::tick: entities move, then every trigger looks.
EntityPhase(movers, to) ==
    /\ phase = "Network"
    /\ \A o \in Avatars : Len(wire[o]) <= MaxBacklog
    /\ Cardinality(movers) <= MaxMovers /\ \A e \in movers : space[e] # Nowhere
    /\ LET now == Moved(movers, to) IN
       /\ position' = now.at /\ axis' = now.axis
       /\ staged' = Overwritten(staged, [d \in {<<space[e], e>> : e \in movers} |-> to[d[2]]])
       /\ witness' = [o \in Avatars |->
                        IF Sees(o) THEN Refreshed(witness[o], o, now.axis[space[o]], now.at)
                        ELSE Nowhere]
       /\ back' = {b \in back : b[2] \in witness'[b[1]].inside}
    /\ phase' = "Script" /\ ops' = 0
    /\ UNCHANGED <<spaces, space, held, born, wire, known, misled, deaf, losses>>

\* flushAoIEvents: an entity that is nowhere any more does not enter.
Notice(event) ==
    IF event.kind = "enter" THEN EntityEnter(event.who, position[event.who])
    ELSE EntityLeave(event.who)
Notices(o) ==
    LET unsent == {v \in ToSet(witness[o].events) : v.kind = "enter" /\ space[v.who] = Nowhere}
        sent == Others(witness[o].events, unsent)
    IN [i \in DOMAIN sent |-> Notice(sent[i])]

\* collectWitnessDirty: who in view has moved.
Dirty(o) == {e \in witness[o].entries : <<space[o], e>> \in DOMAIN staged}

\* flushWitnessSync: where they are; the channel of lossy messages is drained
\* after the reliable one (ChannelRouter::drainAll).
Deltas(o) ==
    IF Dirty(o) = {} THEN <<>>
    ELSE << PropertySync([e \in Dirty(o) |-> staged[<<space[o], e>>]]) >>

\* History: who came back in this tick and is told to be where it was (removeEntity
\* leaves stagedPositions_ as it is); the others whose position is told.
Misplaced(o) == {e \in Dirty(o) : staged[<<space[o], e>>] # position[e]}
Shown(o) == Dirty(o) \cup {v.who : v \in {v \in ToSet(witness[o].events) : v.kind = "enter"}}

\* buildSync of CellRuntime: who enters and leaves, then where they are.
Outgoing(o) == IF Sees(o) THEN Notices(o) \o Deltas(o) ELSE <<>>

\* sync of SpaceRuntime, buildSync, flushRuntimeTransport: what is refused or
\* dropped is gone.
SyncAndFlush ==
    /\ phase = "Script"
    /\ \/ /\ wire' = [o \in Avatars |-> wire[o] \o Outgoing(o)]
          /\ UNCHANGED <<deaf, losses>>
       \/ /\ losses < MaxLosses
          /\ \E o \in Avatars : \E i \in DOMAIN Outgoing(o) :
                /\ wire' = [a \in Avatars |-> wire[a] \o
                            IF a = o THEN RemoveAt(Outgoing(o), i) ELSE Outgoing(a)]
                /\ deaf' = deaf \cup {o}
          /\ losses' = losses + 1
    /\ witness' = [o \in Avatars |-> IF Sees(o) THEN [witness[o] EXCEPT !.events = <<>>]
                                     ELSE Nowhere]
    /\ misled' = {b \in Avatars \X Entities :
                    /\ Sees(b[1])
                    /\ b[2] \in Misplaced(b[1]) \/ (b \in misled /\ b[2] \notin Shown(b[1]))}
    /\ staged' = <<>>
    /\ phase' = "Network" /\ ops' = 0
    /\ UNCHANGED <<placeVars, known, back>>

-----------------------------------------------------------------------------
(* The base relays (BaseRuntime, BaseApp); the client draws what it is told,   *)
(* and one that changes space starts with an empty view.                     *)
OnEnter(view, m) == Overwritten(view, [e \in {m.who} |-> m.at])
OnLeave(view, m) == Restrict(view, DOMAIN view \ {m.who})
OnPropertySync(view, m) == Overwritten(view, m.at)
OnSpaceChange(view, m) == <<>>
Told(view, m) ==
    CASE m.kind = "enter" -> OnEnter(view, m)
      [] m.kind = "leave" -> OnLeave(view, m)
      [] m.kind = "place" -> OnPropertySync(view, m)
      [] m.kind = "space" -> OnSpaceChange(view, m)

\* What a client knows when it has heard some messages, one after the other.
Hearing(view, messages) ==
    LET after[n \in 0..Len(messages)] ==
            IF n = 0 THEN view ELSE Told(after[n - 1], messages[n])
    IN after
Heard(view, messages) == Hearing(view, messages)[Len(messages)]

Relay(o) ==
    /\ wire[o] # <<>>
    /\ known' = [known EXCEPT ![o] = Told(@, Head(wire[o]))]
    /\ wire' = [wire EXCEPT ![o] = Tail(@)]
    /\ UNCHANGED <<phase, ops, placeVars, witness, staged, historyVars>>

Next ==
    \/ \E e \in Entities, p \in Points :
        \/ \E s \in Spaces : CreateCell(e, s, p) \/ HandleTeleport(e, s, p) \/ ScriptTeleport(e, s, p)
        \/ CreateEntity(e, p)
    \/ \E e \in Entities : DestroyCell(e) \/ DestroyEntity(e)
    \/ \E s \in Spaces : DestroySpace(s)
    \/ \E o \in Avatars : (\E r \in Ranges : Watch(o, r)) \/ Relay(o)
    \/ \E movers \in SUBSET Entities : \E to \in [movers -> Points] : EntityPhase(movers, to)
    \/ SyncAndFlush

Spec == Init /\ [][Next]_vars

-----------------------------------------------------------------------------
(* Properties.                                                               *)
\* Types.
TypeOK ==
    /\ phase \in {"Network", "Script"} /\ ops \in 0..MaxOps
    /\ spaces \subseteq Spaces /\ space \in [Entities -> Spaces \cup {Nowhere}]
    /\ position \in [Entities -> Points]
    /\ \A s \in Spaces : ToSet(axis[s]) = {e \in Entities : space[e] = s}
    /\ witness \in [Avatars -> Witnesses \cup {Nowhere}]
    /\ \A o \in Avatars : Sees(o) => space[o] # Nowhere
    /\ back \subseteq Avatars \X Entities

\* After the triggers have looked, a witness has in view exactly the entities of
\* its space within its range, except those that came back to the space between
\* two looks (RangeTrigger::refresh, AOI.cpp:78: they are still inside).
ViewIsInRange ==
    /\ TypeOK
    /\ phase = "Script" /\ ops = 0 =>
        \A o \in Avatars : Sees(o) =>
            witness[o].entries =
                {e \in Entities \ {o} :
                    /\ space[e] = space[o]
                    /\ Distance(position[e], position[o]) <= Square(witness[o].range)
                    /\ <<o, e>> \notin back}

\* What a client knows, once it has heard all that is under way to it and all
\* its witness has to say, are those in the view, each where it is unless it
\* moves in this tick; unless a message to it was refused or dropped
\* (CellRuntime.cpp:893).  One that moved, left the space and came back within
\* the tick is told to be where it was before (SpaceRuntime.cpp:224).
ClientSeesTheView ==
    \A o \in Avatars \ deaf : Sees(o) =>
        LET view == Heard(Heard(known[o], wire[o]), Notices(o))
        IN /\ DOMAIN view = witness[o].entries
           /\ \A e \in DOMAIN view : \/ view[e] = position[e]
                                     \/ <<space[o], e>> \in DOMAIN staged
                                     \/ <<o, e>> \in misled
=============================================================================
