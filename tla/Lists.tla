-------------------------------- MODULE Lists --------------------------------
(***************************************************************************)
(* The idiom std::erase_if, or std::remove and erase: members of a vector  *)
(* go, and the others close up in their order.                             *)
(***************************************************************************)
EXTENDS Naturals, FiniteSets

\* What is left of a list when some of its members go, in the same order.
Others(list, gone) ==
    LET left == {i \in DOMAIN list : list[i] \notin gone}
        Nth(k) == CHOOSE i \in left : Cardinality({j \in left : j <= i}) = k
    IN [k \in 1..Cardinality(left) |-> list[Nth(k)]]
=============================================================================
