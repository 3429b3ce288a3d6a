---------------------------- MODULE CellPlacement ----------------------------
(***************************************************************************)
(* What the entity runtime promises about the cell part of an entity, with *)
(* no message, no base and no half-migrated body in sight: an entity is    *)
(* asked for at one CellApp, lives at one CellApp at a time, travels to    *)
(* another one and always arrives, and is removed from the CellApp that    *)
(* hosts it.  Nothing is lost on the way and nothing comes back after it   *)
(* was removed.                                                            *)
(***************************************************************************)
EXTENDS Naturals

CONSTANTS Entities, Cells, NoCell

VARIABLE place      \* where the cell part of every entity is

Stages == {"unplaced", "requested", "hosted", "travelling", "removed"}

At(stage, c) == [stage |-> stage, cell |-> c]

TypeOK == place \in [Entities -> [stage : Stages, cell : Cells \cup {NoCell}]]

Init == place = [e \in Entities |-> At("unplaced", NoCell)]

Moves(e, from, to) == place[e] = from /\ place' = [place EXCEPT ![e] = to]

\* The base asks CellApp c for the entity's cell part, or gives up before it
\* asks.
Request(e, c) == Moves(e, At("unplaced", NoCell), At("requested", c))
Abandon(e)    == Moves(e, At("unplaced", NoCell), At("removed", NoCell))

\* CellApp c creates it.
Arrive(e, c) == Moves(e, At("requested", c), At("hosted", c))

\* CellApp c gives it away to CellApp t, and t takes it in.
Depart(e, c, t) == c # t /\ Moves(e, At("hosted", c), At("travelling", t))
Land(e, t)      == Moves(e, At("travelling", t), At("hosted", t))

\* The base has it destroyed where it is.
Remove(e, c) == Moves(e, At("hosted", c), At("removed", NoCell))

Next == \E e \in Entities :
            \/ Abandon(e)
            \/ \E c \in Cells : \/ Request(e, c)
                                \/ Arrive(e, c)
                                \/ \E t \in Cells : Depart(e, c, t)
                                \/ Land(e, c)
                                \/ Remove(e, c)

Safety == Init /\ [][Next]_place

\* What was asked for is created, and what travels lands.
Fairness == \A e \in Entities : WF_place(\E c \in Cells : Arrive(e, c) \/ Land(e, c))

Spec == Safety /\ Fairness
=============================================================================
