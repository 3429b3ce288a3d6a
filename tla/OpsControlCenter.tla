-------------------------- MODULE OpsControlCenter --------------------------
(***************************************************************************)
(* The center (control/ops/OpsControlCenter.cpp): the roster of nodes with   *)
(* its order of arrival, the index of the profiles each node has, copies of   *)
(* profile artifacts and the audit trail of all nodes.  Daemons call it       *)
(* directly, each call is one operator here.                                 *)
(*                                                                         *)
(* What is abstracted: a report's content but for its profiles; the age of    *)
(* a report (pruneStale may take any set of nodes for stale); the queries,    *)
(* which change nothing but the trail.                                      *)
(***************************************************************************)
EXTENDS Naturals, Sequences, FiniteSets, SequencesExt, Lists

CONSTANTS
    Nodes,
    MaxNodes,       \* Config::maxNodes, 0: no limit
    MaxCopies,      \* Config::maxProfileArtifacts
    MaxTrail        \* Config::maxAuditEntries

ASSUME CenterAssumption == {MaxNodes, MaxCopies, MaxTrail} \subseteq Nat

EmptyCenter == [nodes |-> {}, order |-> <<>>, index |-> <<>>, copies |-> <<>>,
                trail |-> <<>>]

\* A ring keeps the newest entries.
Pushed(ring, max, x) ==
    IF max = 0 THEN ring
    ELSE Append(IF Len(ring) = max THEN Tail(ring) ELSE ring, x)

Without(index, gone) == [n \in DOMAIN index \ gone |-> index[n]]

\* evictOldestIfFull: the earliest arrivals go until the roster fits.
Evicted(c) ==
    IF MaxNodes = 0 \/ Cardinality(c.nodes) <= MaxNodes THEN c
    ELSE LET Kept(k) == c.nodes \ Range(SubSeq(c.order, 1, k))
             pops == CHOOSE k \in 0..Len(c.order) :
                        /\ Cardinality(Kept(k)) <= MaxNodes \/ k = Len(c.order)
                        /\ \A j \in 0..(k - 1) : Cardinality(Kept(j)) > MaxNodes
         IN [c EXCEPT !.nodes = Kept(pops),
                      !.order = SubSeq(@, pops + 1, Len(@)),
                      !.index = Without(@, c.nodes \ Kept(pops))]

Joined(c, n) ==
    IF n \in c.nodes THEN c
    ELSE Evicted([c EXCEPT !.nodes = @ \cup {n}, !.order = Append(@, n)])

\* registerNode: a heartbeat for a node that is known.
Registered(c, n) == Joined(c, n)

\* Mutant: the order of arrival keeps a node that has left.
DeregisteredFromNodes(c, n) ==
    IF n \notin c.nodes THEN c
    ELSE [c EXCEPT !.nodes = @ \ {n}, !.index = Without(@, {n})]

\* deregister: a node that is not on the roster is left as it is.
Deregistered(c, n) ==
    IF n \notin c.nodes THEN c
    ELSE [c EXCEPT !.nodes = @ \ {n}, !.order = Others(@, {n}),
                   !.index = Without(@, {n})]

\* publish of a report: the node's profiles become those of the report.
Reported(c, n, profiles) ==
    LET d == Joined(c, n)
    IN [d EXCEPT !.index = (n :> profiles) @@ @]

\* pruneStale
Pruned(c, stale) ==
    [c EXCEPT !.nodes = @ \ stale, !.index = Without(@, stale \cap c.nodes),
              !.order = Others(@, stale)]

\* publish of an audit entry
Audited(c, n, entry) ==
    [c EXCEPT !.trail = Pushed(@, MaxTrail, [node |-> n, entry |-> entry])]

\* publish of artifacts, one after another: their handles join the node's index
\* (an index row is made for a node that has none, on the roster or not), copies
\* the ring, which keeps the newest.
Copy(n, handle) == [node |-> n, handle |-> handle]
Newest(ring, max) == IF Len(ring) <= max THEN ring
                     ELSE SubSeq(ring, Len(ring) - max + 1, Len(ring))

Relayed(c, n, handles) ==
    LET known == IF n \in DOMAIN c.index THEN c.index[n] ELSE {}
        copies == [k \in DOMAIN handles |-> Copy(n, handles[k])]
    IN IF handles = <<>> THEN c
       ELSE [c EXCEPT !.index = (n :> (known \cup Range(handles))) @@ @,
                      !.copies = Newest(@ \o copies, MaxCopies)]

\* queryProfiles and downloadProfileArtifact: every attempt is in the trail.
QueriedBy(c, who, ok) ==
    [c EXCEPT !.trail = Pushed(@, MaxTrail,
        [node |-> "center", entry |-> [source |-> who, accepted |-> ok]])]
=============================================================================
