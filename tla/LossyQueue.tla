----------------------------- MODULE LossyQueue -----------------------------
(***************************************************************************)
(* What a connection promises of the messages a component sends to a peer     *)
(* with ordered-reliable delivery: those that arrive arrive whole, once and   *)
(* in the order they were accepted.  It may lose the latest of those on their *)
(* way, and nothing else.                                                    *)
(***************************************************************************)
EXTENDS Sequences, Naturals

CONSTANT Messages

VARIABLES
    travelling,     \* accepted, neither received nor lost
    received

Init == travelling = <<>> /\ received = <<>>

Accept(m) == travelling' = Append(travelling, m) /\ UNCHANGED received

Arrive ==
    /\ travelling # <<>>
    /\ received' = Append(received, Head(travelling))
    /\ travelling' = Tail(travelling)

\* The last ones are lost, with those a step accepts.
Lose ==
    /\ \E k \in 0..Len(travelling) : travelling' = SubSeq(travelling, 1, k)
    /\ UNCHANGED received

Next == (\E m \in Messages : Accept(m)) \/ Arrive \/ Lose

Spec == Init /\ [][Next]_<<travelling, received>>
=============================================================================
