----------------------------- MODULE MCServices -----------------------------
(* One or two of everything, and the least numbers at which the rings       *)
(* cascade, the queue is full, the lock lapses and a rebuild is repeated.   *)
EXTENDS Services

CONSTANT avatar

MCAsks == {[delay |-> 0, periodic |-> FALSE, owner |-> NoOwner],
           [delay |-> 2, periodic |-> TRUE, owner |-> avatar]}
MCSlotSpan == [r \in 0 .. 2 |-> 2 ^ r]
MCPositions == -7 .. 7
MCTargets == {-2, 3}
MCHashes == 0 .. 11
MCNode(kind, children, maxCount) == [kind |-> kind, children |-> children, maxCount |-> maxCount]
MCTrees == {
    << MCNode("repeat", <<2>>, 2), MCNode("selector", <<3, 7>>, 0), MCNode("condition", <<4>>, 0),
       MCNode("sequence", <<5, 6>>, 0), MCNode("action", << >>, 0), MCNode("action", << >>, 0),
       MCNode("inverter", <<8>>, 0), MCNode("action", << >>, 0) >>,
    << MCNode("sequence", <<2, 4>>, 0), MCNode("succeeder", <<3>>, 0), MCNode("action", << >>, 0),
       MCNode("selector", <<5, 6>>, 0), MCNode("action", << >>, 0), MCNode("action", << >>, 0) >> }
MCTransitions == {<<1, 2>>, <<2, 3>>, <<3, 1>>}
=============================================================================
