------------------------------ MODULE Movement ------------------------------
(***************************************************************************)
(* runtime/Controller.cpp on one entity of a space, with the velocity that *)
(* SpaceRuntime applies.  Positions are whole numbers on a line; a tick    *)
(* takes one unit of time.  A completion callback runs in the middle of    *)
(* ControllerManager::tick and may add and remove controllers.             *)
(***************************************************************************)
EXTENDS Integers, Sequences, SequencesExt, Lists

CONSTANTS Positions, Speed, Arrival, Targets, MaxControllers, MaxOutside

ASSUME MoveAssumption ==
    /\ Positions \subseteq Int /\ 0 \in Positions /\ Targets \subseteq Positions
    /\ {Speed, Arrival, MaxControllers} \subseteq Nat

VARIABLES
    position, velocity,
    order,              \* the manager's map, in the order in which it is iterated
    goals,              \* id -> what the controller pursues
    inactive,           \* controllers that completed and are not erased yet
    nextId,
    left,               \* the controllers that this tick has still to visit
    moving,             \* where the tick is: "idle", "ticking", "callback", "crashed"
    current,            \* the controller whose callback runs
    target,             \* the position of the entity that is followed, or NoTarget
    outside,            \* how often somebody else moved the entity or the target
    ended               \* history: how often each controller completed or was removed

moveVars == <<position, velocity, order, goals, inactive, nextId, left, moving,
              current, target, outside, ended>>

NoTarget == 99
FollowTarget == 98
Ids == 1 .. MaxControllers

MoveInit ==
    /\ position = 0 /\ velocity = 0 /\ order = << >> /\ goals = [c \in Ids |-> 0]
    /\ inactive = {} /\ nextId = 1 /\ left = << >> /\ moving = "idle" /\ current = 0
    /\ target = 0 /\ outside = 0 /\ ended = [c \in Ids |-> 0]

-----------------------------------------------------------------------------
(* A controller's view of the world *)

Abs(n) == IF n < 0 THEN -n ELSE n

Aim(goal) == IF goal = FollowTarget THEN target ELSE goal

Lost(goal) == Aim(goal) = NoTarget

Arrived(goal) == ~Lost(goal) /\ Abs(Aim(goal) - position) <= Arrival

Done(goal) == Lost(goal) \/ Arrived(goal)

Toward(goal) == IF Aim(goal) > position THEN Speed ELSE -Speed

Managed == ToSet(order)

Active == Managed \ inactive

DroppedFrom(list, c) == Others(list, {c})

Counted(cs) == ended' = [c \in Ids |-> ended[c] + (IF c \in cs THEN 1 ELSE 0)]

-----------------------------------------------------------------------------
(* Calls of the entity: between ticks, or from a completion callback *)

MayAct == moving \in {"idle", "callback"}

\* add: a controller whose target is near or lost is done in start() and never
\* enters the map.  A map that grows while it is iterated may be reordered:
\* what the running tick still visits is then any of its other members.
Add(goal) ==
    /\ MayAct /\ nextId \in Ids
    /\ nextId' = nextId + 1
    /\ goals' = [goals EXCEPT ![nextId] = goal]
    /\ IF Done(goal)
       THEN Counted({nextId}) /\ UNCHANGED <<velocity, order, left>>
       ELSE /\ velocity' = Toward(goal)
            /\ order' \in {InsertAt(order, k, nextId) : k \in 1 .. Len(order) + 1}
            /\ left' \in IF moving = "idle" THEN {left}
                         ELSE {Others(order', ToSet(order') \ visit) :
                                 visit \in SUBSET (Active \cup {nextId})}
            /\ UNCHANGED ended
    /\ UNCHANGED <<position, inactive, moving, current, target, outside>>

\* remove: stop() clears the velocity.
RemoveActive(c) ==
    /\ MayAct /\ c \in Active
    /\ velocity' = 0
    /\ order' = DroppedFrom(order, c)
    /\ left' = DroppedFrom(left, c)
    /\ Counted({c})
    /\ UNCHANGED <<position, goals, inactive, nextId, moving, current, target, outside>>

\* A callback that removes a controller which has completed: the one it runs
\* for is erased under the running iteration, which goes down or goes on.
RemoveCompleted(c) ==
    /\ MayAct /\ c \in Managed \cap inactive
    /\ order' = DroppedFrom(order, c)
    /\ inactive' = inactive \ {c}
    /\ moving' \in IF c = current THEN {"crashed", moving} ELSE {moving}
    /\ UNCHANGED <<position, velocity, goals, nextId, left, current, target, outside, ended>>

\* Entity::destroy clears the manager; nothing moves the entity after that.  From a
\* completion callback it destroys the controller that runs it and the map under the
\* iteration, which goes down or finds nothing more to visit.
Clear ==
    /\ MayAct
    /\ velocity' = IF Active = {} THEN velocity ELSE 0
    /\ order' = << >> /\ left' = << >> /\ inactive' = {}
    /\ moving' \in IF moving = "callback" THEN {"crashed", moving} ELSE {moving}
    /\ Counted(Active)
    /\ UNCHANGED <<position, goals, nextId, current, target, outside>>

-----------------------------------------------------------------------------
(* The tick of the space *)

\* applyVelocity, then tickControllers begins.
BeginMove ==
    /\ moving = "idle" /\ position + velocity \in Positions
    /\ velocity # 0 \/ order # << >>
    /\ position' = position + velocity
    /\ left' = order
    /\ moving' = "ticking"
    /\ UNCHANGED <<velocity, order, goals, inactive, nextId, current, target, outside, ended>>

Visit == /\ moving = "ticking" /\ left # << >>
         /\ left' = Tail(left)
         /\ UNCHANGED <<position, order, goals, nextId, target, outside>>

Steer ==
    /\ Visit /\ ~Done(goals[Head(left)])
    /\ velocity' = Toward(goals[Head(left)])
    /\ UNCHANGED <<inactive, moving, current, ended>>

\* Arrived, or the target is gone: the velocity is cleared, the callback runs.
Complete ==
    LET c == Head(left) IN
    /\ Visit /\ Done(goals[c])
    /\ velocity' = 0
    /\ inactive' = inactive \cup {c}
    /\ Counted({c})
    /\ moving' = "callback" /\ current' = c

CompletionReturns ==
    /\ moving = "callback" /\ moving' = "ticking" /\ current' = 0
    /\ UNCHANGED <<position, velocity, order, goals, inactive, nextId, left, target,
                   outside, ended>>

\* The controllers that completed are erased after the iteration.
EndMove ==
    /\ moving = "ticking" /\ left = << >>
    /\ order' = Others(order, inactive)
    /\ inactive' = {}
    /\ moving' = "idle"
    /\ UNCHANGED <<position, velocity, goals, nextId, left, current, target, outside, ended>>

MoveTick == BeginMove \/ Steer \/ Complete \/ CompletionReturns \/ EndMove

\* Somebody else: the target walks or disappears, the entity is displaced.
Displace(p) == /\ moving = "idle" /\ outside < MaxOutside /\ outside' = outside + 1
               /\ \/ position' = p /\ UNCHANGED target
                  \/ target' \in {p, NoTarget} /\ UNCHANGED position
               /\ UNCHANGED <<velocity, order, goals, inactive, nextId, left, moving,
                              current, ended>>

MoveNext == \/ \E goal \in Targets \cup {FollowTarget} : Add(goal)
            \/ \E c \in Ids : RemoveActive(c) \/ RemoveCompleted(c)
            \/ Clear \/ MoveTick
            \/ \E p \in Targets : Displace(p)

-----------------------------------------------------------------------------
(* Properties *)

MoveTypeOK ==
    /\ position \in Positions /\ velocity \in {-Speed, 0, Speed}
    /\ IsInjective(order) /\ Managed \subseteq Ids /\ inactive \subseteq Ids
    /\ nextId \in 1 .. MaxControllers + 1 /\ ToSet(left) \subseteq Ids
    /\ moving \in {"idle", "ticking", "callback", "crashed"}

\* An entity moves only under a controller, and no controller ends twice, as
\* completed or as removed, whatever its callbacks add and remove.
MovesUnderControl ==
    /\ MoveTypeOK
    /\ velocity # 0 => Active # {}
    /\ \A c \in Ids : ended[c] <= 1

\* Movements end where a step is no longer than twice the arrival distance, also
\* when several controllers take turns in steering.
MovesEnded == Active = {} \/ moving = "crashed"
=============================================================================
