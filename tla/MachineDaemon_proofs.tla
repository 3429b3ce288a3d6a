------------------------ MODULE MachineDaemon_proofs ------------------------
(***************************************************************************)
(* Proofs about MachineDaemon with its supervisor and the center, for all    *)
(* sets of pids, nodes and sources and all values of the bounds: what the    *)
(* map of managed processes says is so, the center's roster and its order of *)
(* arrival agree, and the center has each artifact once.                     *)
(***************************************************************************)
EXTENDS MachineDaemon, WellFoundedInduction, FiniteSetTheorems, TLAPS

-----------------------------------------------------------------------------
(* Lists and rings                                                           *)

\* A non-empty set of naturals has a least element.
LEMMA LeastNatural ==
    ASSUME NEW T \in SUBSET Nat, T # {}
    PROVE  \E n \in T : \A m \in T : n <= m
<1> DEFINE Downs == {1 .. n : n \in T}
<1>1. Downs \subseteq FiniteSubsetsOf(Nat) /\ Downs # {}
    <2>1. \A n \in T : IsFiniteSet(1 .. n) /\ 1 .. n \in SUBSET Nat
        BY FS_Interval
    <2> QED
        BY <2>1 DEF FiniteSubsetsOf
<1>2. PICK low \in Downs : \A d \in Downs : <<d, low>> \notin StrictSubsetOrdering(Nat)
    <2> HIDE DEF Downs
    <2> QED
        BY <1>1, FS_StrictSubsetOrderingWellFounded, WFMin
<1>3. PICK n \in T : low = 1 .. n
    OBVIOUS
<1>4. ASSUME NEW m \in T, m < n PROVE FALSE
    <2>1. 1 .. m \in Downs /\ n \in 1 .. n /\ n \notin 1 .. m
        BY <1>4
    <2>2. 1 .. m \subseteq 1 .. n /\ 1 .. m \subseteq Nat /\ 1 .. n \subseteq Nat
        BY <1>4
    <2> QED
        BY <1>2, <1>3, <2>1, <2>2 DEF StrictSubsetOrdering
<1> QED
    BY <1>4

\* What is left of a list is its members that do not go, each in one place if
\* it was so before.
LEMMA OthersFacts ==
    ASSUME NEW S, NEW list \in Seq(S), NEW gone
    PROVE  /\ Others(list, gone) \in Seq(S)
           /\ Range(Others(list, gone)) = Range(list) \ gone
           /\ IsInjective(list) => IsInjective(Others(list, gone))
<1> DEFINE left == {i \in DOMAIN list : list[i] \notin gone}
           Rank(i) == Cardinality({j \in left : j <= i})
           Nth(k) == CHOOSE i \in left : Rank(i) = k
           n == Cardinality(left)
           rank == [i \in left |-> Rank(i)]
<1>1. /\ IsFiniteSet(left) /\ n \in Nat /\ left \subseteq Int
      /\ \A i \in left : /\ IsFiniteSet({j \in left : j <= i})
                         /\ Rank(i) \in Nat /\ Rank(i) <= n
    <2>1. DOMAIN list = 1..Len(list) /\ Len(list) \in Nat
        OBVIOUS
    <2>2. IsFiniteSet(1..Len(list))
        BY <2>1, FS_Interval
    <2>3. left \in SUBSET (1..Len(list))
        BY <2>1
    <2>4. IsFiniteSet(left)
        BY <2>2, <2>3, FS_Subset
    <2>5. ASSUME NEW i \in left
          PROVE  IsFiniteSet({j \in left : j <= i}) /\ Rank(i) <= n
        <3>1. {j \in left : j <= i} \in SUBSET left
            OBVIOUS
        <3> QED
            BY <2>4, <3>1, FS_Subset
    <2>6. n \in Nat /\ \A i \in left : Rank(i) \in Nat
        <3>1. n \in Nat
            BY <2>4, FS_CardinalityType
        <3>2. ASSUME NEW i \in left PROVE Rank(i) \in Nat
            BY <2>5, FS_CardinalityType
        <3> QED
            BY <3>1, <3>2
    <2>7. left \subseteq Int
        BY <2>3
    <2> HIDE DEF Rank, left, n
    <2> QED
        BY <2>4, <2>5, <2>6, <2>7
<1>2. \A i \in left : Rank(i) \in 1..n
    <2>1. ASSUME NEW i \in left PROVE Rank(i) # 0
        <3>1. i \in {j \in left : j <= i}
            BY <1>1
        <3> QED
            BY <1>1, <3>1, FS_EmptySet
    <2>2. \A i \in left : Rank(i) \in Nat /\ Rank(i) <= n
        BY <1>1
    <2>3. n \in Nat
        BY <1>1
    <2> HIDE DEF Rank, left, n
    <2> QED
        BY <2>1, <2>2, <2>3
<1>3. ASSUME NEW i \in left, NEW k \in left, i < k
      PROVE  Rank(i) # Rank(k)
    <2>1. {j \in left : j <= i} \in SUBSET {j \in left : j <= k}
        BY <1>1, <1>3
    <2>2. k \in {j \in left : j <= k} /\ k \notin {j \in left : j <= i}
        BY <1>1, <1>3
    <2> QED
        BY <1>1, <2>1, <2>2, FS_Subset
<1>4. \A i, k \in left : Rank(i) = Rank(k) => i = k
    <2> HIDE DEF Rank
    <2> QED
        BY <1>1, <1>3
<1>5. \A k \in 1..n : \E i \in left : Rank(i) = k
    <2>1. rank \in Injection(left, 1..n)
        <3> HIDE DEF Rank, left, n
        <3> QED
            BY <1>2, <1>4 DEF Injection, IsInjective
    <2>2. IsFiniteSet(1..n) /\ Cardinality(1..n) = n
        BY <1>1, FS_Interval
    <2>3. rank \in Surjection(left, 1..n)
        <3> HIDE DEF rank
        <3> QED
            BY <2>1, <2>2, FS_Injection
    <2> HIDE DEF Rank, left, n
    <2> QED
        BY <2>3 DEF Surjection
<1>6. /\ \A k \in 1..n : Nth(k) \in left /\ Rank(Nth(k)) = k
      /\ \A i \in left : Nth(Rank(i)) = i
    <2> HIDE DEF Rank, left, n
    <2> QED
        BY <1>2, <1>4, <1>5
<1>7. Others(list, gone) = [k \in 1..n |-> list[Nth(k)]]
    BY DEF Others
<1>8. \A i \in left : i \in DOMAIN list /\ list[i] \in S \ gone
    OBVIOUS
<1>9. \A i \in DOMAIN list : list[i] \notin gone => i \in left
    OBVIOUS
<1> HIDE DEF Nth, Rank, left, n
<1>10. Others(list, gone) \in Seq(S)
    <2>1. \A k \in 1..n : list[Nth(k)] \in S
        BY <1>6, <1>8
    <2> QED
        BY <1>1, <1>7, <2>1
<1>11. Range(Others(list, gone)) = Range(list) \ gone
    BY <1>2, <1>6, <1>7, <1>8, <1>9 DEF Range
<1>12. ASSUME IsInjective(list) PROVE IsInjective(Others(list, gone))
    <2>1. \A k, m \in 1..n : list[Nth(k)] = list[Nth(m)] => k = m
        BY <1>6, <1>8, <1>12 DEF IsInjective
    <2> QED
        BY <1>7, <2>1 DEF IsInjective
<1> QED
    BY <1>10, <1>11, <1>12

\* A ring takes one more, and the oldest may go.
LEMMA PushedFacts ==
    ASSUME NEW S, NEW ring \in Seq(S), NEW max \in Nat, Len(ring) <= max, NEW x \in S
    PROVE  /\ Pushed(ring, max, x) \in Seq(S) /\ Len(Pushed(ring, max, x)) <= max
           /\ Range(Pushed(ring, max, x)) \subseteq Range(ring) \cup {x}
           /\ IsInjective(ring) /\ x \notin Range(ring)
                => IsInjective(Pushed(ring, max, x))
<1>1. CASE max = 0
    BY <1>1 DEF Pushed
<1>2. CASE max # 0 /\ Len(ring) = max
    <2>1. Pushed(ring, max, x) = Append(Tail(ring), x) /\ ring # <<>>
        BY <1>2 DEF Pushed
    <2>2. /\ Tail(ring) \in Seq(S) /\ Len(Tail(ring)) = Len(ring) - 1
          /\ \A i \in 1..Len(ring) - 1 : Tail(ring)[i] = ring[i + 1]
        BY <2>1
    <2>3. Append(Tail(ring), x) \in Seq(S) /\ Len(Append(Tail(ring), x)) = Len(ring)
        BY <2>2
    <2>4. \A i \in 1..Len(ring) :
             Append(Tail(ring), x)[i] = IF i = Len(ring) THEN x ELSE ring[i + 1]
        <3> DEFINE t == Tail(ring)
        <3>1. t \in Seq(S) /\ Len(t) = Len(ring) - 1 /\ Len(ring) \in Nat
            BY <2>2
        <3>2. \A i \in 1..Len(t) : t[i] = ring[i + 1]
            BY <2>2
        <3> HIDE DEF t
        <3>3. \A i \in 1..Len(t) + 1 : Append(t, x)[i] = IF i = Len(t) + 1 THEN x ELSE t[i]
            BY <3>1
        <3>4. \A i \in 1..Len(ring) :
                 Append(t, x)[i] = IF i = Len(ring) THEN x ELSE ring[i + 1]
            BY <3>1, <3>2, <3>3
        <3> QED
            BY <3>4 DEF t
    <2> QED
        BY <1>2, <2>1, <2>3, <2>4 DEF Range, IsInjective
<1>3. CASE max # 0 /\ Len(ring) < max
    <2>1. Pushed(ring, max, x) = Append(ring, x)
        BY <1>3 DEF Pushed
    <2> QED
        BY <1>3, <2>1 DEF Range, IsInjective
<1> QED
    BY <1>1, <1>2, <1>3

LEMMA NewestFacts ==
    ASSUME NEW S, NEW ring \in Seq(S), NEW max \in Nat
    PROVE  /\ Newest(ring, max) \in Seq(S) /\ Len(Newest(ring, max)) <= max
           /\ Range(Newest(ring, max)) \subseteq Range(ring)
           /\ IsInjective(ring) => IsInjective(Newest(ring, max))
<1>1. CASE Len(ring) <= max
    BY <1>1 DEF Newest
<1>2. CASE Len(ring) > max
    <2> DEFINE d == Len(ring) - max
    <2>1. Newest(ring, max) = SubSeq(ring, d + 1, Len(ring)) /\ d \in Nat
        BY <1>2 DEF Newest
    <2>2. /\ SubSeq(ring, d + 1, Len(ring)) \in Seq(S)
          /\ Len(SubSeq(ring, d + 1, Len(ring))) = max
          /\ \A i \in 1..max : SubSeq(ring, d + 1, Len(ring))[i] = ring[d + i]
        BY <1>2
    <2>3. \A i \in 1..max : d + i \in 1..Len(ring)
        BY <1>2
    <2> QED
        BY <2>1, <2>2, <2>3 DEF Range, IsInjective
<1> QED
    BY <1>1, <1>2
-----------------------------------------------------------------------------
(* The center                                                                *)

Entries == [source : Sources \cup {Self}, accepted : BOOLEAN, ok : BOOLEAN]
Trails == [node : Nodes \cup {"center"},
           entry : Entries \cup [source : Sources, accepted : BOOLEAN]]
Copies == [node : {Self}, handle : Nat]

\* The center's records, whatever its index of profiles is.
IsCenter(c) ==
    \E x : c \in [nodes : SUBSET Nodes, order : Seq(Nodes), index : {x},
                  copies : Seq(Copies), trail : Seq(Trails)]

\* The order of arrival is the roster, each node once.
IsOrdered(c) == Range(c.order) = c.nodes /\ IsInjective(c.order)

FitsLimit(c) == MaxNodes # 0 => Cardinality(c.nodes) <= MaxNodes

Center(c) == IsCenter(c) /\ IsOrdered(c) /\ FitsLimit(c)

\* Nothing but the roster and the index differs.
SameRings(c, d) == d.copies = c.copies /\ d.trail = c.trail

LEMMA RosterIsFinite ==
    ASSUME NEW S, NEW list \in Seq(S), IsInjective(list)
    PROVE  IsFiniteSet(Range(list)) /\ Cardinality(Range(list)) = Len(list)
<1>1. list \in Bijection(1..Len(list), Range(list))
    <2>1. list \in [1..Len(list) -> Range(list)]
        BY DEF Range
    <2>2. list \in Injection(1..Len(list), Range(list))
        BY <2>1 DEF Injection, IsInjective
    <2>3. list \in Surjection(1..Len(list), Range(list))
        BY <2>1 DEF Surjection, Range
    <2> QED
        BY <2>2, <2>3 DEF Bijection
<1>2. ExistsBijection(1..Len(list), Range(list))
    BY <1>1 DEF ExistsBijection
<1>3. IsFiniteSet(1..Len(list)) /\ Cardinality(1..Len(list)) = Len(list)
    <2>1. Len(list) \in Nat
        OBVIOUS
    <2> QED
        BY <2>1, FS_Interval
<1> QED
    BY <1>2, <1>3, FS_Bijection

\* The loop of evictOldestIfFull ends with a roster that fits, in the order of
\* arrival as before.
LEMMA EvictedFacts ==
    ASSUME NEW c, IsCenter(c), IsOrdered(c)
    PROVE  /\ Center(Evicted(c)) /\ SameRings(c, Evicted(c))
           /\ Evicted(c).nodes \subseteq c.nodes
<1>1. MaxNodes \in Nat
    BY CenterAssumption
<1>2. PICK x : c \in [nodes : SUBSET Nodes, order : Seq(Nodes), index : {x},
                      copies : Seq(Copies), trail : Seq(Trails)]
    BY DEF IsCenter
<1>3. CASE MaxNodes = 0 \/ Cardinality(c.nodes) <= MaxNodes
    BY <1>3 DEF Evicted, Center, FitsLimit, SameRings
<1>4. CASE ~ (MaxNodes = 0 \/ Cardinality(c.nodes) <= MaxNodes)
    <2> DEFINE Kept(k) == c.nodes \ Range(SubSeq(c.order, 1, k))
               Enough(k) == /\ Cardinality(Kept(k)) <= MaxNodes \/ k = Len(c.order)
                            /\ \A j \in 0..(k - 1) : Cardinality(Kept(j)) > MaxNodes
               pops == CHOOSE k \in 0..Len(c.order) : Enough(k)
    <2>1. c.order \in Seq(Nodes) /\ Len(c.order) \in Nat
        BY <1>2
    <2>2. \A k : IsFiniteSet(Kept(k)) /\ Cardinality(Kept(k)) \in Nat
        <3>1. IsFiniteSet(c.nodes)
            BY <2>1, RosterIsFinite DEF IsOrdered
        <3>2. \A k : Kept(k) \in SUBSET c.nodes
            OBVIOUS
        <3> HIDE DEF Kept
        <3>3. \A k : IsFiniteSet(Kept(k))
            BY <3>1, <3>2, FS_Subset
        <3> QED
            BY <3>3, FS_CardinalityType
    <2>3. pops \in 0..Len(c.order) /\ Enough(pops)
        <3> DEFINE ends == {k \in 0..Len(c.order) :
                              Cardinality(Kept(k)) <= MaxNodes \/ k = Len(c.order)}
        <3>1. ends \in SUBSET Nat /\ Len(c.order) \in ends
            BY <2>1
        <3>2. PICK k \in ends : \A m \in ends : k <= m
            <4> HIDE DEF ends
            <4> QED
                BY <3>1, LeastNatural
        <3>3. \A j \in 0..(k - 1) : Cardinality(Kept(j)) > MaxNodes
            <4> SUFFICES ASSUME NEW j \in 0..(k - 1) PROVE Cardinality(Kept(j)) > MaxNodes
                OBVIOUS
            <4>1. j \in 0..Len(c.order) /\ ~ (k <= j)
                BY <2>1, <3>2
            <4>2. j \notin ends
                BY <3>2, <4>1
            <4>3. ~ (Cardinality(Kept(j)) <= MaxNodes)
                BY <4>1, <4>2
            <4> HIDE DEF Kept
            <4> QED
                BY <1>1, <2>2, <4>3
        <3>4. k \in 0..Len(c.order) /\ Enough(k)
            BY <3>2, <3>3
        <3> HIDE DEF Enough
        <3> QED
            BY <3>4
    <2>4. Evicted(c) = [c EXCEPT !.nodes = Kept(pops),
                                 !.order = SubSeq(@, pops + 1, Len(@)),
                                 !.index = Without(@, c.nodes \ Kept(pops))]
        BY <1>4 DEF Evicted
    <2> DEFINE rest == SubSeq(c.order, pops + 1, Len(c.order))
    <2>5. /\ rest \in Seq(Nodes) /\ Len(rest) = Len(c.order) - pops
          /\ \A i \in 1..Len(rest) : rest[i] = c.order[pops + i]
        <3> HIDE DEF pops
        <3> QED
            BY <2>1, <2>3
    <2>6. Range(SubSeq(c.order, 1, pops)) = {c.order[i] : i \in 1..pops}
        <3> HIDE DEF pops
        <3>1. /\ DOMAIN SubSeq(c.order, 1, pops) = 1..pops
              /\ \A i \in 1..pops : SubSeq(c.order, 1, pops)[i] = c.order[i]
            BY <2>1, <2>3
        <3> QED
            BY <3>1 DEF Range
    <2>7. Range(rest) = Kept(pops) /\ IsInjective(rest)
        <3>1. \A i, j \in 1..Len(c.order) : c.order[i] = c.order[j] => i = j
            BY <2>1 DEF IsOrdered, IsInjective
        <3>2. c.nodes = {c.order[i] : i \in 1..Len(c.order)}
            BY <2>1 DEF IsOrdered, Range
        <3>3. pops \in 0..Len(c.order) /\ Len(c.order) \in Nat
            BY <2>1, <2>3
        <3>4. Kept(pops) = {c.order[i] : i \in (pops + 1)..Len(c.order)}
            <4> HIDE DEF pops
            <4> QED
                BY <2>6, <3>1, <3>2, <3>3
        <3>5. DOMAIN rest = 1..(Len(c.order) - pops)
            BY <2>5
        <3> HIDE DEF rest, pops, Kept
        <3>6. Range(rest) = {c.order[pops + i] : i \in 1..(Len(c.order) - pops)}
            BY <2>5, <3>5 DEF Range
        <3>7. Range(rest) = Kept(pops)
            <4>1. ASSUME NEW i \in 1..(Len(c.order) - pops)
                  PROVE  pops + i \in (pops + 1)..Len(c.order)
                BY <3>3
            <4>2. ASSUME NEW i \in (pops + 1)..Len(c.order)
                  PROVE  /\ i - pops \in 1..(Len(c.order) - pops)
                         /\ i = pops + (i - pops)
                BY <3>3
            <4>3. Range(rest) \subseteq Kept(pops)
                BY <3>4, <3>6, <4>1
            <4>4. ASSUME NEW n \in Kept(pops) PROVE n \in Range(rest)
                <5>1. PICK i \in (pops + 1)..Len(c.order) : n = c.order[i]
                    BY <3>4
                <5>2. c.order[pops + (i - pops)] \in Range(rest)
                    BY <3>6, <4>2
                <5>3. pops + (i - pops) = i
                    BY <4>2
                <5> QED
                    BY <5>1, <5>2, <5>3
            <4> QED
                BY <4>3, <4>4
        <3> QED
            BY <2>5, <3>1, <3>3, <3>5, <3>7 DEF IsInjective
    <2>8. Cardinality(Kept(pops)) <= MaxNodes
        <3>1. CASE pops = Len(c.order)
            <4>1. c.nodes = {c.order[i] : i \in 1..pops}
                <5>1. c.nodes = {c.order[i] : i \in 1..Len(c.order)}
                    BY <2>1 DEF IsOrdered, Range
                <5> HIDE DEF pops
                <5> QED
                    BY <3>1, <5>1
            <4>2. Kept(pops) = {}
                <5> HIDE DEF pops
                <5> QED
                    BY <2>6, <4>1
            <4> HIDE DEF Kept, pops
            <4> QED
                BY <1>1, <4>2, FS_EmptySet
        <3>2. CASE pops # Len(c.order)
            <4> HIDE DEF Kept, pops
            <4> QED
                BY <2>3, <3>2
        <3> QED
            BY <3>1, <3>2
    <2> HIDE DEF pops, Enough
    <2>9. /\ Evicted(c).nodes = Kept(pops) /\ Evicted(c).order = rest
          /\ SameRings(c, Evicted(c))
        BY <1>2, <2>4 DEF SameRings
    <2>10. Kept(pops) \in SUBSET c.nodes /\ c.nodes \in SUBSET Nodes
        BY <1>2
    <2>11. IsCenter(Evicted(c))
        <3> HIDE DEF Kept
        <3>1. Evicted(c) \in [nodes : SUBSET Nodes, order : Seq(Nodes),
                               index : {Without(c.index, c.nodes \ Kept(pops))},
                               copies : Seq(Copies), trail : Seq(Trails)]
            BY <1>2, <2>4, <2>5, <2>10
        <3> QED
            BY <3>1 DEF IsCenter
    <2> HIDE DEF Kept, rest
    <2> QED
        BY <2>7, <2>8, <2>9, <2>10, <2>11 DEF Center, IsOrdered, FitsLimit
<1> QED
    BY <1>3, <1>4

\* A node that joins is last in the order of arrival.
LEMMA JoinedFacts ==
    ASSUME NEW c, Center(c), NEW n \in Nodes
    PROVE  /\ Center(Joined(c, n)) /\ SameRings(c, Joined(c, n))
           /\ Joined(c, n).nodes \subseteq c.nodes \cup {n}
<1>1. CASE n \in c.nodes
    BY <1>1 DEF Joined, SameRings
<1>2. CASE n \notin c.nodes
    <2> DEFINE d == [c EXCEPT !.nodes = @ \cup {n}, !.order = Append(@, n)]
    <2>1. PICK x : c \in [nodes : SUBSET Nodes, order : Seq(Nodes), index : {x},
                          copies : Seq(Copies), trail : Seq(Trails)]
        BY DEF Center, IsCenter
    <2>2. /\ d \in [nodes : SUBSET Nodes, order : Seq(Nodes), index : {x},
                    copies : Seq(Copies), trail : Seq(Trails)]
          /\ d.nodes = c.nodes \cup {n} /\ d.order = Append(c.order, n)
          /\ SameRings(c, d)
        <3>1. c.nodes \cup {n} \in SUBSET Nodes /\ Append(c.order, n) \in Seq(Nodes)
            BY <2>1
        <3> QED
            BY <2>1, <3>1 DEF SameRings
    <2>3. IsOrdered(d)
        <3>1. Range(c.order) = c.nodes /\ IsInjective(c.order) /\ c.order \in Seq(Nodes)
            BY <2>1 DEF Center, IsOrdered
        <3> DEFINE o == Append(c.order, n)
                   N == Len(c.order)
        <3>2. /\ DOMAIN o = 1..(N + 1) /\ N \in Nat /\ DOMAIN c.order = 1..N
              /\ \A i \in 1..N : o[i] = c.order[i]
              /\ o[N + 1] = n
            BY <3>1
        <3> HIDE DEF o, N
        <3>3. \A i \in 1..N : c.order[i] # n
            BY <1>2, <3>1, <3>2 DEF Range
        <3>4. \A i \in DOMAIN o : i \in 1..N \/ i = N + 1
            BY <3>2
        <3>5. IsInjective(o)
            <4> SUFFICES ASSUME NEW i \in DOMAIN o, NEW j \in DOMAIN o, o[i] = o[j]
                         PROVE  i = j
                BY DEF IsInjective
            <4>1. CASE i \in 1..N /\ j \in 1..N
                BY <3>1, <3>2, <4>1 DEF IsInjective
            <4>2. CASE i = N + 1 \/ j = N + 1
                BY <3>2, <3>3, <3>4, <4>2
            <4> QED
                BY <3>4, <4>1, <4>2
        <3>6. Range(o) = c.nodes \cup {n}
            BY <3>1, <3>2, <3>4 DEF Range
        <3> HIDE DEF d
        <3> QED
            BY <2>2, <3>5, <3>6 DEF IsOrdered, o
    <2>4. Joined(c, n) = Evicted(d)
        BY <1>2 DEF Joined
    <2>5. IsCenter(d)
        BY <2>2 DEF IsCenter
    <2> HIDE DEF d
    <2>6. /\ Center(Evicted(d)) /\ SameRings(d, Evicted(d))
          /\ Evicted(d).nodes \subseteq d.nodes
        BY <2>3, <2>5, EvictedFacts
    <2> QED
        BY <2>2, <2>4, <2>6 DEF SameRings
<1> QED
    BY <1>1, <1>2

\* A change of the index alone.
LEMMA IndexedFacts ==
    ASSUME NEW c, Center(c), NEW x
    PROVE  /\ Center([c EXCEPT !.index = x]) /\ SameRings(c, [c EXCEPT !.index = x])
           /\ [c EXCEPT !.index = x].nodes = c.nodes
<1> DEFINE d == [c EXCEPT !.index = x]
<1>1. PICK y : c \in [nodes : SUBSET Nodes, order : Seq(Nodes), index : {y},
                      copies : Seq(Copies), trail : Seq(Trails)]
    BY DEF Center, IsCenter
<1>2. d \in [nodes : SUBSET Nodes, order : Seq(Nodes), index : {x},
             copies : Seq(Copies), trail : Seq(Trails)]
    BY <1>1
<1>3. d.nodes = c.nodes /\ d.order = c.order /\ SameRings(c, d)
    BY <1>1 DEF SameRings
<1> HIDE DEF d
<1>4. Center(d)
    BY <1>2, <1>3 DEF Center, IsCenter, IsOrdered, FitsLimit
<1> QED
    BY <1>3, <1>4 DEF d

LEMMA ReportedFacts ==
    ASSUME NEW c, Center(c), NEW n \in Nodes, NEW profiles
    PROVE  /\ Center(Reported(c, n, profiles)) /\ SameRings(c, Reported(c, n, profiles))
           /\ Reported(c, n, profiles).nodes \subseteq c.nodes \cup {n}
<1> DEFINE d == Joined(c, n)
           x == (n :> profiles) @@ d.index
<1>1. Reported(c, n, profiles) = [d EXCEPT !.index = x]
    BY DEF Reported
<1>2. Center(d) /\ SameRings(c, d) /\ d.nodes \subseteq c.nodes \cup {n}
    BY JoinedFacts
<1> HIDE DEF d, x
<1>3. /\ Center([d EXCEPT !.index = x]) /\ SameRings(d, [d EXCEPT !.index = x])
      /\ [d EXCEPT !.index = x].nodes = d.nodes
    BY <1>2, IndexedFacts
<1> QED
    BY <1>1, <1>2, <1>3 DEF SameRings

\* Nodes that leave the roster leave the order.
LEMMA LeftFacts ==
    ASSUME NEW c, Center(c), NEW gone, NEW x, NEW d,
           d = [c EXCEPT !.nodes = c.nodes \ gone, !.index = x,
                         !.order = Others(c.order, gone)]
    PROVE  Center(d) /\ SameRings(c, d) /\ d.nodes = c.nodes \ gone
<1> DEFINE nodes == c.nodes \ gone
<1>1. PICK y : c \in [nodes : SUBSET Nodes, order : Seq(Nodes), index : {y},
                      copies : Seq(Copies), trail : Seq(Trails)]
    BY DEF Center, IsCenter
<1>2. c.order \in Seq(Nodes)
    BY <1>1
<1>3. /\ Others(c.order, gone) \in Seq(Nodes)
      /\ Range(Others(c.order, gone)) = Range(c.order) \ gone
      /\ IsInjective(c.order) => IsInjective(Others(c.order, gone))
    BY <1>2, OthersFacts
<1>4. nodes \in SUBSET Nodes /\ nodes \in SUBSET c.nodes
    BY <1>1
<1>5. /\ d \in [nodes : SUBSET Nodes, order : Seq(Nodes), index : {x},
                copies : Seq(Copies), trail : Seq(Trails)]
      /\ d.nodes = nodes /\ d.order = Others(c.order, gone) /\ SameRings(c, d)
    BY <1>1, <1>3, <1>4 DEF SameRings
<1>6. IsCenter(d)
    BY <1>5 DEF IsCenter
<1>7. IsOrdered(d)
    BY <1>3, <1>5 DEF Center, IsOrdered
<1>8. FitsLimit(d)
    <2>1. IsFiniteSet(c.nodes) /\ Cardinality(c.nodes) \in Nat
        <3>1. IsFiniteSet(c.nodes)
            BY <1>2, RosterIsFinite DEF Center, IsOrdered
        <3> QED
            BY <3>1, FS_CardinalityType
    <2>2. IsFiniteSet(nodes) /\ Cardinality(nodes) <= Cardinality(c.nodes)
        BY <1>4, <2>1, FS_Subset
    <2>3. Cardinality(nodes) \in Nat /\ MaxNodes \in Nat
        BY <2>2, FS_CardinalityType, CenterAssumption
    <2> QED
        BY <1>5, <2>1, <2>2, <2>3 DEF Center, FitsLimit
<1> QED
    BY <1>5, <1>6, <1>7, <1>8 DEF Center

LEMMA DeregisteredFacts ==
    ASSUME NEW c, Center(c), NEW n
    PROVE  /\ Center(Deregistered(c, n)) /\ SameRings(c, Deregistered(c, n))
           /\ n \notin Deregistered(c, n).nodes
<1>1. CASE n \notin c.nodes
    BY <1>1 DEF Deregistered, SameRings
<1>2. CASE n \in c.nodes
    <2> DEFINE d == Deregistered(c, n)
    <2>1. d = [c EXCEPT !.nodes = c.nodes \ {n}, !.index = Without(c.index, {n}),
                        !.order = Others(c.order, {n})]
        BY <1>2 DEF Deregistered
    <2> HIDE DEF d
    <2>2. Center(d) /\ SameRings(c, d) /\ d.nodes = c.nodes \ {n}
        BY <2>1, LeftFacts
    <2> QED
        BY <2>2 DEF d
<1> QED
    BY <1>1, <1>2

LEMMA PrunedFacts ==
    ASSUME NEW c, Center(c), NEW stale
    PROVE  /\ Center(Pruned(c, stale)) /\ SameRings(c, Pruned(c, stale))
           /\ Pruned(c, stale).nodes \subseteq c.nodes
<1> DEFINE d == Pruned(c, stale)
<1>1. d = [c EXCEPT !.nodes = c.nodes \ stale, !.index = Without(c.index, stale \cap c.nodes),
                    !.order = Others(c.order, stale)]
    BY DEF Pruned
<1> HIDE DEF d
<1>2. Center(d) /\ SameRings(c, d) /\ d.nodes = c.nodes \ stale
    BY <1>1, LeftFacts
<1> QED
    BY <1>2 DEF d

\* The roster is not touched by what is published to the rings.
SameRoster(c, d) == d.nodes = c.nodes /\ d.order = c.order

LEMMA TrailFacts ==
    ASSUME NEW c, Center(c), Len(c.trail) <= MaxTrail, NEW e \in Trails, NEW d,
           d = [c EXCEPT !.trail = Pushed(c.trail, MaxTrail, e)]
    PROVE  /\ Center(d) /\ SameRoster(c, d)
           /\ d.copies = c.copies /\ Len(d.trail) <= MaxTrail
<1>1. PICK x : c \in [nodes : SUBSET Nodes, order : Seq(Nodes), index : {x},
                      copies : Seq(Copies), trail : Seq(Trails)]
    BY DEF Center, IsCenter
<1>2. c.trail \in Seq(Trails) /\ MaxTrail \in Nat
    BY <1>1, CenterAssumption
<1>3. /\ Pushed(c.trail, MaxTrail, e) \in Seq(Trails)
      /\ Len(Pushed(c.trail, MaxTrail, e)) <= MaxTrail
    BY <1>2, PushedFacts
<1>4. /\ d \in [nodes : SUBSET Nodes, order : Seq(Nodes), index : {x},
                copies : Seq(Copies), trail : Seq(Trails)]
      /\ SameRoster(c, d) /\ d.copies = c.copies /\ Len(d.trail) <= MaxTrail
    BY <1>1, <1>3 DEF SameRoster
<1> QED
    BY <1>4 DEF Center, IsCenter, IsOrdered, FitsLimit, SameRoster

\* Artifacts that the center has not had join the copies.
LEMMA RelayedFacts ==
    ASSUME NEW c, Center(c), Len(c.copies) <= MaxCopies,
           NEW handles \in Seq(Nat)
    PROVE  /\ Center(Relayed(c, Self, handles)) /\ SameRoster(c, Relayed(c, Self, handles))
           /\ Relayed(c, Self, handles).trail = c.trail
           /\ Len(Relayed(c, Self, handles).copies) <= MaxCopies
           /\ Range(Relayed(c, Self, handles).copies)
                 \subseteq Range(c.copies) \cup {Copy(Self, h) : h \in Range(handles)}
           /\ /\ IsInjective(c.copies) /\ IsInjective(handles)
              /\ \A h \in Range(handles) : Copy(Self, h) \notin Range(c.copies)
              => IsInjective(Relayed(c, Self, handles).copies)
<1>1. CASE handles = <<>>
    BY <1>1 DEF Relayed, SameRoster
<1>2. CASE handles # <<>>
    <2> DEFINE new == [k \in DOMAIN handles |-> Copy(Self, handles[k])]
               known == IF Self \in DOMAIN c.index THEN c.index[Self] ELSE {}
               y == (Self :> (known \cup Range(handles))) @@ c.index
               all == c.copies \o new
               d == Relayed(c, Self, handles)
    <2>1. PICK x : c \in [nodes : SUBSET Nodes, order : Seq(Nodes), index : {x},
                          copies : Seq(Copies), trail : Seq(Trails)]
        BY DEF Center, IsCenter
    <2>2. d = [c EXCEPT !.index = y, !.copies = Newest(all, MaxCopies)]
        BY <1>2 DEF Relayed
    <2>3. c.copies \in Seq(Copies) /\ MaxCopies \in Nat
        BY <2>1, CenterAssumption
    <2>4. /\ new \in Seq(Copies) /\ DOMAIN new = DOMAIN handles
          /\ Len(new) = Len(handles) /\ DOMAIN handles = 1..Len(handles)
          /\ \A k \in DOMAIN new : new[k] = Copy(Self, handles[k])
        <3>1. \A k \in DOMAIN handles : Copy(Self, handles[k]) \in Copies
            BY DEF Copy, Copies
        <3> QED
            BY <3>1
    <2> HIDE DEF new, y, d
    <2>5. /\ all \in Seq(Copies) /\ DOMAIN all = 1..(Len(c.copies) + Len(new))
          /\ \A k \in 1..Len(c.copies) : all[k] = c.copies[k]
          /\ \A k \in 1..Len(new) : all[Len(c.copies) + k] = new[k]
        <3>1. c.copies \in Seq(Copies) /\ new \in Seq(Copies)
            BY <2>3, <2>4
        <3>2. all \in Seq(Copies) /\ Len(all) = Len(c.copies) + Len(new)
            BY <3>1
        <3>3. \A k \in 1..Len(c.copies) : all[k] = c.copies[k]
            BY <3>1
        <3>4. \A k \in 1..Len(new) : all[Len(c.copies) + k] = new[k]
            BY <3>1
        <3> HIDE DEF all
        <3> QED
            BY <3>1, <3>2, <3>3, <3>4
    <2>6. \A k \in DOMAIN all :
              \/ k \in DOMAIN c.copies /\ all[k] = c.copies[k]
              \/ \E m \in DOMAIN handles :
                   k = Len(c.copies) + m /\ all[k] = Copy(Self, handles[m])
        <3> SUFFICES ASSUME NEW k \in DOMAIN all, k \notin DOMAIN c.copies
                     PROVE  \E m \in DOMAIN handles :
                               k = Len(c.copies) + m /\ all[k] = Copy(Self, handles[m])
            BY <2>3, <2>5
        <3> HIDE DEF all
        <3>1. Len(c.copies) \in Nat /\ DOMAIN c.copies = 1..Len(c.copies)
            BY <2>3
        <3>2. k - Len(c.copies) \in 1..Len(new) /\ k = Len(c.copies) + (k - Len(c.copies))
            BY <2>4, <2>5, <3>1
        <3> QED
            BY <2>4, <2>5, <3>2
    <2> HIDE DEF all
    <2>7. /\ Newest(all, MaxCopies) \in Seq(Copies) /\ Len(Newest(all, MaxCopies)) <= MaxCopies
          /\ Range(Newest(all, MaxCopies)) \subseteq Range(all)
          /\ IsInjective(all) => IsInjective(Newest(all, MaxCopies))
        BY <2>3, <2>5, NewestFacts
    <2>8. Range(all) \subseteq Range(c.copies) \cup {Copy(Self, h) : h \in Range(handles)}
        BY <2>6 DEF Range
    <2>9. ASSUME IsInjective(c.copies), IsInjective(handles),
                 \A h \in Range(handles) : Copy(Self, h) \notin Range(c.copies)
          PROVE  IsInjective(all)
        <3> SUFFICES ASSUME NEW i \in DOMAIN all, NEW j \in DOMAIN all, all[i] = all[j]
                     PROVE  i = j
            BY DEF IsInjective
        <3>1. \A g, h : Copy(Self, g) = Copy(Self, h) => g = h
            BY DEF Copy
        <3>2. \A m \in DOMAIN handles : \A k \in DOMAIN c.copies :
                 Copy(Self, handles[m]) # c.copies[k]
            BY <2>9 DEF Range
        <3>3. \A m, k \in DOMAIN handles :
                 Copy(Self, handles[m]) = Copy(Self, handles[k]) => m = k
            BY <2>9, <3>1 DEF IsInjective
        <3>4. \A m, k \in DOMAIN c.copies : c.copies[m] = c.copies[k] => m = k
            BY <2>9 DEF IsInjective
        <3> QED
            BY <2>6, <3>2, <3>3, <3>4
    <2>10. /\ d \in [nodes : SUBSET Nodes, order : Seq(Nodes), index : {y},
                     copies : Seq(Copies), trail : Seq(Trails)]
           /\ d.nodes = c.nodes /\ d.order = c.order /\ d.trail = c.trail
           /\ d.copies = Newest(all, MaxCopies)
        BY <2>1, <2>2, <2>7
    <2>11. Center(d)
        BY <2>10 DEF Center, IsCenter, IsOrdered, FitsLimit
    <2> QED
        BY <2>7, <2>8, <2>9, <2>10, <2>11 DEF SameRoster, d
<1> QED
    BY <1>1, <1>2

-----------------------------------------------------------------------------
(* The supervisor                                                            *)

SupervisorTypes ==
    /\ process \in [Pids -> Processes \cup {NoProcess}]
    /\ managed \subseteq Pids /\ abandoned \subseteq Pids
    /\ waiting \in Terminations \cup {NoTermination}

\* What is being terminated is out of the map, which ManagedAreOurs needs when
\* the pid is freed.
SupervisorInv ==
    /\ SupervisorTypes /\ ManagedAreOurs
    /\ waiting # NoTermination => waiting.pid \notin managed

\* What a step may do to the supervisor and the processes of the host.
SupervisorMoves ==
    \/ UNCHANGED supervisorVars
    \/ ListProcesses
    \/ waiting = NoTermination /\ \E p \in Pids : Start(p)
    \/ waiting = NoTermination /\ \E p \in Pids : StopManaged(p) \/ RestartManaged(p)
    \/ \E p \in Pids : TerminateUnmanaged(p)
    \/ TerminationDone \/ KillGraceOver \/ TermGraceOver
    \/ \E p \in Pids : HostStart(p) \/ HostExit(p) \/ ChildExit(p)

Running(kin, g) == [kin |-> kin, state |-> "running", grit |-> g]

LEMMA ProcessFacts ==
    /\ NoProcess \notin Processes /\ NoTermination \notin Terminations
    /\ \A q \in Processes : [q EXCEPT !.state = "zombie"] \in Processes
    /\ \A q \in Processes : /\ [q EXCEPT !.state = "zombie"].kin = q.kin
                            /\ [q EXCEPT !.state = "zombie"].state = "zombie"
    /\ \A kin \in {"child", "host"}, g \in Grits :
          /\ Running(kin, g) \in Processes
          /\ Running(kin, g).kin = kin /\ Running(kin, g).state = "running"
    /\ "child" # "host" /\ "running" # "zombie" /\ "obeys" \in Grits
BY SupervisorAssumption DEF Processes, Running, Grits

\* Reaping takes exactly the managed children that have ended.
LEMMA ReapedFacts ==
    ASSUME SupervisorInv
    PROVE  /\ ReapedTable \in [Pids -> Processes \cup {NoProcess}]
           /\ ReapedManaged \subseteq managed
           /\ \A p \in ReapedManaged : /\ ReapedTable[p] = process[p]
                                       /\ process[p] # NoProcess /\ process[p].kin = "child"
           /\ \A p \in Pids : ReapedTable[p] # NoProcess => ReapedTable[p] = process[p]
           /\ \A p \in Pids : ReapedTable[p] # NoProcess /\ Is(p, "child", "running")
                               /\ p \in managed => p \in ReapedManaged
BY DEF SupervisorInv, SupervisorTypes, ManagedAreOurs, ReapedTable, ReapedManaged, Exited

LEMMA SupervisorStep ==
    ASSUME SupervisorInv, SupervisorMoves
    PROVE  SupervisorInv'
<1>1. /\ process \in [Pids -> Processes \cup {NoProcess}]
      /\ managed \subseteq Pids /\ abandoned \subseteq Pids
      /\ waiting \in Terminations \cup {NoTermination}
      /\ \A p \in managed : process[p] # NoProcess /\ process[p].kin = "child"
      /\ \A p \in Pids :
            process[p] # NoProcess /\ process[p].kin = "child" /\ process[p].state = "running"
            => \/ p \in managed \/ p \in abandoned
               \/ waiting # NoTermination /\ waiting.pid = p
      /\ waiting # NoTermination => waiting.pid \notin managed
    BY DEF SupervisorInv, SupervisorTypes, ManagedAreOurs, Is
<1> DEFINE Sound(table, mine, wait, lost) ==
              /\ table \in [Pids -> Processes \cup {NoProcess}]
              /\ mine \subseteq Pids /\ lost \subseteq Pids
              /\ wait \in Terminations \cup {NoTermination}
              /\ \A p \in mine : table[p] # NoProcess /\ table[p].kin = "child"
              /\ \A p \in Pids :
                    table[p] # NoProcess /\ table[p].kin = "child" /\ table[p].state = "running"
                    => \/ p \in mine \/ p \in lost
                       \/ wait # NoTermination /\ wait.pid = p
              /\ wait # NoTermination => wait.pid \notin mine
<1>2. Sound(process', managed', waiting', abandoned') => SupervisorInv'
    BY DEF SupervisorInv, SupervisorTypes, ManagedAreOurs, Is
<1>3. CASE UNCHANGED supervisorVars
    BY <1>1, <1>2, <1>3 DEF supervisorVars
<1>4. /\ ReapedTable \in [Pids -> Processes \cup {NoProcess}]
      /\ ReapedManaged \subseteq managed
      /\ \A p \in ReapedManaged : ReapedTable[p] # NoProcess /\ ReapedTable[p].kin = "child"
      /\ \A p \in Pids : ReapedTable[p] # NoProcess => ReapedTable[p] = process[p]
      /\ \A p \in Pids : ReapedTable[p] # NoProcess /\ process[p].kin = "child"
                          /\ process[p].state = "running" /\ p \in managed
                          => p \in ReapedManaged
    BY ReapedFacts DEF Is
<1>5. Sound(ReapedTable, ReapedManaged, waiting, abandoned)
    BY <1>1, <1>4
<1>6. CASE ListProcesses
    BY <1>2, <1>5, <1>6 DEF ListProcesses
<1>7. ASSUME NEW table, NEW mine, NEW lost, NEW p \in Pids,
             Sound(table, mine, NoTermination, lost), table[p] = NoProcess,
             Forked(table, mine, p)
      PROVE  Sound(process', managed', NoTermination, lost)
    <2>1. PICK g \in Grits : /\ process' = [table EXCEPT ![p] = Running("child", g)]
                             /\ managed' = mine \cup {p}
        BY <1>7 DEF Forked, Running
    <2>2. /\ Running("child", g) \in Processes /\ Running("child", g).kin = "child"
          /\ Running("child", g) # NoProcess
        BY ProcessFacts
    <2>3. process' \in [Pids -> Processes \cup {NoProcess}]
        BY <1>7, <2>1, <2>2
    <2>4. \A q \in Pids : process'[q] = IF q = p THEN Running("child", g) ELSE table[q]
        BY <1>7, <2>1
    <2> QED
        BY <1>7, <2>1, <2>2, <2>3, <2>4
<1>8. CASE waiting = NoTermination /\ \E p \in Pids : Start(p)
    <2>1. PICK p \in Pids : Start(p)
        BY <1>8
    <2>2. Sound(process, managed, NoTermination, abandoned)
        BY <1>1, <1>8
    <2>3. process[p] = NoProcess /\ Forked(process, managed, p)
        BY <2>1 DEF Start, Forked
    <2>4. waiting' = NoTermination /\ abandoned' = abandoned
        BY <1>8, <2>1 DEF Start
    <2> HIDE DEF Sound
    <2>5. Sound(process', managed', NoTermination, abandoned)
        BY <1>7, <2>2, <2>3
    <2> QED
        BY <1>2, <2>4, <2>5
<1>9. ASSUME NEW p \in Pids, waiting = NoTermination, StopManaged(p) \/ RestartManaged(p)
      PROVE  SupervisorInv'
    <2>1. \A s \in {"stop", "restart"} :
             LET t == [pid |-> p, sent |-> "SIGTERM", for |-> s]
             IN t \in Terminations /\ t # NoTermination /\ t.pid = p
        BY ProcessFacts DEF Terminations
    <2>2. CASE StopManaged(p)
        BY <1>1, <1>2, <1>9, <2>1, <2>2 DEF StopManaged
    <2>3. CASE RestartManaged(p)
        BY <1>2, <1>5, <1>9, <2>1, <2>3 DEF RestartManaged
    <2> QED
        BY <1>9, <2>2, <2>3
<1>10. ASSUME NEW p \in Pids, TerminateUnmanaged(p)
       PROVE  SupervisorInv'
    <2>1. CASE process' = ReapedTable
        BY <1>2, <1>5, <1>10, <2>1 DEF TerminateUnmanaged
    <2>2. CASE process' = [ReapedTable EXCEPT ![p] = NoProcess]
        BY <1>2, <1>5, <1>10, <2>2 DEF TerminateUnmanaged
    <2> QED
        BY <1>10, <2>1, <2>2 DEF TerminateUnmanaged
<1>11. CASE TerminationDone
    <2> DEFINE freed == [process EXCEPT ![waiting.pid] = NoProcess]
    <2>1. /\ waiting # NoTermination /\ waiting \in Terminations /\ waiting.pid \in Pids
          /\ waiting' = NoTermination /\ abandoned' = abandoned
        BY <1>1, <1>11 DEF TerminationDone, Terminations
    <2>2. Sound(freed, managed, NoTermination, abandoned)
        BY <1>1, <2>1
    <2>3. CASE process' = freed /\ UNCHANGED managed
        BY <1>2, <2>1, <2>2, <2>3
    <2>4. ASSUME NEW p \in Pids, Forked(freed, managed, p)
          PROVE  SupervisorInv'
        <3>1. freed[p] = NoProcess
            BY <2>4 DEF Forked
        <3> HIDE DEF Sound, freed
        <3>2. Sound(process', managed', NoTermination, abandoned)
            BY <1>7, <2>2, <2>4, <3>1
        <3> QED
            BY <1>2, <2>1, <3>2
    <2> QED
        BY <1>11, <2>3, <2>4 DEF TerminationDone
<1>12. CASE KillGraceOver
    BY <1>1, <1>2, <1>12 DEF KillGraceOver, Terminations
<1>13. CASE TermGraceOver
    <2>1. waiting # NoTermination /\ waiting \in Terminations
        BY <1>1, <1>13 DEF TermGraceOver
    <2>2. LET t == [waiting EXCEPT !.sent = "SIGKILL"]
          IN t \in Terminations /\ t # NoTermination /\ t.pid = waiting.pid
        BY <2>1, ProcessFacts DEF Terminations
    <2> QED
        BY <1>1, <1>2, <1>13, <2>2 DEF TermGraceOver
<1>14. ASSUME NEW p \in Pids, HostStart(p)
       PROVE  SupervisorInv'
    <2>1. /\ process' = [process EXCEPT ![p] = Running("host", "obeys")]
          /\ process[p] = NoProcess
        BY <1>14 DEF HostStart, Running
    <2>2. /\ Running("host", "obeys") \in Processes
          /\ Running("host", "obeys").kin = "host"
        BY ProcessFacts
    <2> QED
        BY <1>1, <1>2, <1>14, <2>1, <2>2 DEF HostStart
<1>15. ASSUME NEW p \in Pids, HostExit(p)
       PROVE  SupervisorInv'
    BY <1>1, <1>2, <1>15 DEF HostExit, Is
<1>16. ASSUME NEW p \in Pids, ChildExit(p)
       PROVE  SupervisorInv'
    <2>1. process[p] \in Processes /\ process[p].kin = "child"
        BY <1>1, <1>16 DEF ChildExit, Is
    <2> DEFINE z == [process[p] EXCEPT !.state = "zombie"]
    <2>2. z \in Processes /\ z.kin = "child" /\ z.state = "zombie" /\ z # NoProcess
        BY <2>1, ProcessFacts
    <2>3. process' = [process EXCEPT ![p] = z]
        BY <1>16 DEF ChildExit
    <2> HIDE DEF z
    <2> QED
        BY <1>1, <1>2, <1>16, <2>2, <2>3, ProcessFacts DEF ChildExit
<1> HIDE DEF Sound
<1> QED
    BY <1>3, <1>6, <1>8, <1>9, <1>10, <1>11, <1>12, <1>13, <1>14, <1>15, <1>16
    DEF SupervisorMoves

-----------------------------------------------------------------------------
(* The profiler, and what the center has of it                               *)

\* The profiler's handles are given once: a window that is open has one that no
\* artifact has.
Given(h) == h <= profiler.handle /\ (profiler.sampling => h # profiler.handle)

ProfilerInv ==
    /\ profiler \in [sampling : BOOLEAN, samples : Nat, handle : Nat, ring : Seq(Nat)]
    /\ profiler.samples < WindowTicks /\ Len(profiler.ring) <= MaxArtifacts
    /\ IsInjective(profiler.ring)
    /\ \A h \in Range(profiler.ring) : Given(h)

\* The roster, and the rings of the center.
CenterInv ==
    /\ Center(center) /\ StoppedIsForgotten /\ up \in BOOLEAN
    /\ Len(center.copies) <= MaxCopies /\ Len(center.trail) <= MaxTrail
    /\ IsInjective(center.copies)

\* A copy is of an artifact that was relayed, which the daemon remembers as long
\* as the artifact is in its ring.
CopiesInv ==
    \A x \in Range(center.copies) :
        Given(x.handle) /\ (x.handle \in Range(profiler.ring) => x.handle \in relayed)

\* An operation of the center that keeps the copies.
LEMMA CopiesAside ==
    ASSUME CenterInv, CopiesInv, UNCHANGED <<profiler, relayed>>,
           Center(center'), center'.copies = center.copies,
           Len(center'.trail) <= MaxTrail, StoppedIsForgotten', up' \in BOOLEAN
    PROVE  CenterInv' /\ CopiesInv'
BY DEF CenterInv, CopiesInv, Given

LEMMA AuditedFacts ==
    ASSUME CenterInv, CopiesInv, UNCHANGED <<profiler, relayed, up>>,
           NEW e \in Trails,
           center' = [center EXCEPT !.trail = Pushed(center.trail, MaxTrail, e)]
    PROVE  CenterInv' /\ CopiesInv'
<1> DEFINE d == [center EXCEPT !.trail = Pushed(center.trail, MaxTrail, e)]
<1>1. Center(center) /\ Len(center.trail) <= MaxTrail /\ center' = d
    BY DEF CenterInv
<1> HIDE DEF d
<1>2. /\ Center(d) /\ SameRoster(center, d) /\ d.copies = center.copies
      /\ Len(d.trail) <= MaxTrail
    BY <1>1, TrailFacts DEF d
<1>3. StoppedIsForgotten' /\ up' \in BOOLEAN
    BY <1>1, <1>2 DEF CenterInv, StoppedIsForgotten, SameRoster
<1> QED
    BY <1>1, <1>2, <1>3, CopiesAside

\* An attempt is written down on both sides.
AuditInv == auditLog \in Seq(Entries) /\ Len(auditLog) <= AuditCapacity

LEMMA AuditFacts ==
    ASSUME CenterInv, CopiesInv, AuditInv, UNCHANGED <<profiler, relayed, up>>,
           NEW src \in Sources \cup {Self}, NEW accepted \in BOOLEAN, NEW ok \in BOOLEAN,
           Audit(src, accepted, ok)
    PROVE  CenterInv' /\ CopiesInv' /\ AuditInv'
<1> DEFINE entry == [source |-> src, accepted |-> accepted, ok |-> ok]
           e == [node |-> Self, entry |-> entry]
<1>1. entry \in Entries /\ e \in Trails
    BY DaemonAssumption DEF Entries, Trails
<1>2. /\ auditLog' = Pushed(auditLog, AuditCapacity, entry)
      /\ center' = [center EXCEPT !.trail = Pushed(center.trail, MaxTrail, e)]
    BY DEF Audit, Audited
<1>3. AuditCapacity \in Nat
    BY DaemonAssumption
<1> HIDE DEF entry, e
<1>4. CenterInv' /\ CopiesInv'
    BY <1>1, <1>2, AuditedFacts
<1>5. AuditInv'
    BY <1>1, <1>2, <1>3, PushedFacts DEF AuditInv
<1> QED
    BY <1>4, <1>5

\* The relay at the end of a tick copies what was not relayed before.
LEMMA RelayFacts ==
    ASSUME ProfilerInv, CenterInv, CopiesInv, NEW c, Center(c), SameRings(center, c),
           up, up' = up, UNCHANGED profiler, relayed' = InRing, center' = RelayAll(c)
    PROVE  CenterInv' /\ CopiesInv'
<1> DEFINE fresh == Others(profiler.ring, relayed)
           d == Relayed(c, Self, fresh)
<1>1. /\ Center(c) /\ c.copies = center.copies /\ c.trail = center.trail
      /\ Len(c.copies) <= MaxCopies /\ Len(c.trail) <= MaxTrail
      /\ IsInjective(c.copies)
    BY DEF CenterInv, SameRings
<1>2. profiler.ring \in Seq(Nat)
    BY DEF ProfilerInv
<1>3. /\ fresh \in Seq(Nat) /\ IsInjective(fresh)
      /\ Range(fresh) = Range(profiler.ring) \ relayed
    BY <1>2, OthersFacts DEF ProfilerInv
<1>4. \A h \in Range(fresh) : Copy(Self, h) \notin Range(c.copies)
    BY <1>1, <1>3 DEF CopiesInv, Copy
<1>5. center' = d
    BY DEF RelayAll
<1> HIDE DEF fresh, d
<1>6. /\ Center(d) /\ SameRoster(c, d) /\ d.trail = c.trail /\ Len(d.copies) <= MaxCopies
      /\ Range(d.copies) \subseteq Range(c.copies) \cup {Copy(Self, h) : h \in Range(fresh)}
      /\ IsInjective(d.copies)
    BY <1>1, <1>3, <1>4, RelayedFacts DEF d
<1>7. CenterInv'
    BY <1>1, <1>5, <1>6 DEF CenterInv, StoppedIsForgotten
<1>8. \A x \in Range(d.copies) : \/ x \in Range(center.copies)
                                  \/ x.handle \in Range(profiler.ring)
    BY <1>1, <1>3, <1>6 DEF Copy
<1>9. \A h \in Range(profiler.ring) : Given(h)
    BY DEF ProfilerInv
<1>10. relayed' = Range(profiler.ring) /\ profiler' = profiler
    BY DEF InRing
<1>11. CopiesInv'
    BY <1>5, <1>8, <1>9, <1>10 DEF CopiesInv, Given
<1> QED
    BY <1>7, <1>11

\* The profiler gives the next handle, and later makes it an artifact.
LEMMA TriggerFacts ==
    ASSUME ProfilerInv, CopiesInv, CenterInv, ~ profiler.sampling, profiler' = Triggered,
           center'.copies = center.copies, relayed' = relayed
    PROVE  ProfilerInv' /\ CopiesInv'
<1>1. /\ profiler \in [sampling : BOOLEAN, samples : Nat, handle : Nat, ring : Seq(Nat)]
      /\ WindowTicks \in Nat /\ WindowTicks > 0
    BY DaemonAssumption DEF ProfilerInv
<1>2. /\ profiler' \in [sampling : BOOLEAN, samples : Nat, handle : Nat, ring : Seq(Nat)]
      /\ profiler'.sampling = TRUE /\ profiler'.samples = 0
      /\ profiler'.handle = profiler.handle + 1 /\ profiler'.ring = profiler.ring
    <2> DEFINE k == profiler.handle + 1
    <2>1. k \in Nat
        BY <1>1
    <2>2. profiler' = [profiler EXCEPT !.sampling = TRUE, !.samples = 0, !.handle = k]
        BY DEF Triggered
    <2> HIDE DEF k
    <2> QED
        <3> DEFINE q == [profiler EXCEPT !.sampling = TRUE]
                   z == [q EXCEPT !.samples = 0]
        <3>1. profiler' = [z EXCEPT !.handle = k]
            BY <2>2
        <3>2. q \in [sampling : BOOLEAN, samples : Nat, handle : Nat, ring : Seq(Nat)]
            BY <1>1
        <3>3. z \in [sampling : BOOLEAN, samples : Nat, handle : Nat, ring : Seq(Nat)]
            <4> HIDE DEF q
            <4> QED
                BY <3>2
        <3>4. profiler' \in [sampling : BOOLEAN, samples : Nat, handle : Nat, ring : Seq(Nat)]
            <4> HIDE DEF q, z
            <4> QED
                BY <3>1, <3>3, <2>1
        <3> HIDE DEF q, z
        <3>5. profiler'.samples = 0 /\ profiler'.ring = profiler.ring
            BY <1>1, <2>2
        <3>6. profiler'.sampling = TRUE
            BY <1>1, <2>2
        <3>7. profiler'.handle = k
            BY <1>1, <2>2
        <3> QED
            BY <3>4, <3>5, <3>6, <3>7 DEF k
<1>3. \A h \in Range(profiler.ring) : h \in Nat
    BY <1>1 DEF Range
<1>4. \A x \in Range(center.copies) : x.handle \in Nat
    <2>1. center.copies \in Seq(Copies)
        BY DEF CenterInv, Center, IsCenter
    <2>2. \A i \in DOMAIN center.copies : center.copies[i] \in Copies
        BY <2>1
    <2> QED
        BY <2>2 DEF Range, Copies
<1>5. \A h \in Nat : Given(h) => Given(h)'
    BY <1>1, <1>2 DEF Given
<1>6. ProfilerInv'
    BY <1>1, <1>2, <1>3, <1>5 DEF ProfilerInv
<1>7. CopiesInv'
    BY <1>2, <1>4, <1>5 DEF CopiesInv
<1> QED
    BY <1>6, <1>7

LEMMA TickFacts ==
    ASSUME ProfilerInv, CopiesInv, CenterInv, TickCompleted
    PROVE  ProfilerInv' /\ CopiesInv'
<1>1. /\ profiler \in [sampling : BOOLEAN, samples : Nat, handle : Nat, ring : Seq(Nat)]
      /\ WindowTicks \in Nat /\ WindowTicks > 0 /\ MaxArtifacts \in Nat
      /\ profiler.sampling /\ center' = center /\ relayed' = relayed
    BY DaemonAssumption DEF ProfilerInv, TickCompleted, daemonVars
<1>2. CASE profiler.samples + 1 < WindowTicks
    <2>1. /\ profiler' \in [sampling : BOOLEAN, samples : Nat, handle : Nat, ring : Seq(Nat)]
          /\ profiler'.sampling = profiler.sampling /\ profiler'.samples = profiler.samples + 1
          /\ profiler'.handle = profiler.handle /\ profiler'.ring = profiler.ring
        <3> DEFINE k == profiler.samples + 1
        <3>1. k \in Nat
            BY <1>1
        <3>2. profiler' = [profiler EXCEPT !.samples = k]
            BY <1>2 DEF TickCompleted
        <3> HIDE DEF k
        <3> QED
            BY <1>1, <3>1, <3>2 DEF k
    <2>2. \A h : Given(h) => Given(h)'
        BY <2>1 DEF Given
    <2> QED
        BY <1>1, <1>2, <2>1, <2>2 DEF ProfilerInv, CopiesInv
<1>3. CASE ~ (profiler.samples + 1 < WindowTicks)
    <2> DEFINE h == profiler.handle
               ring == Pushed(profiler.ring, MaxArtifacts, h)
    <2>1. h \in Nat /\ h \notin Range(profiler.ring)
        BY <1>1 DEF ProfilerInv, Given
    <2>2. /\ ring \in Seq(Nat) /\ Len(ring) <= MaxArtifacts
          /\ Range(ring) \subseteq Range(profiler.ring) \cup {h}
          /\ IsInjective(ring)
        BY <1>1, <2>1, PushedFacts DEF ProfilerInv
    <2>3. /\ profiler' \in [sampling : BOOLEAN, samples : Nat, handle : Nat, ring : Seq(Nat)]
          /\ profiler'.sampling = FALSE /\ profiler'.samples = 0
          /\ profiler'.handle = h /\ profiler'.ring = ring
        <3> HIDE DEF ring
        <3>1. profiler' = [profiler EXCEPT !.sampling = FALSE, !.samples = 0, !.ring = ring]
            BY <1>3 DEF TickCompleted, ring
        <3> QED
            BY <1>1, <2>2, <3>1
    <2>4. \A g : Given(g) => Given(g)'
        BY <2>3 DEF Given
    <2>5. Given(h)'
        BY <2>1, <2>3 DEF Given
    <2> HIDE DEF ring
    <2>6. ProfilerInv'
        BY <1>1, <2>2, <2>3, <2>4, <2>5 DEF ProfilerInv
    <2>7. \A x \in Range(center.copies) : x.handle # h
        BY <1>1 DEF CopiesInv, Given
    <2>8. CopiesInv'
        BY <1>1, <2>2, <2>3, <2>4, <2>7 DEF CopiesInv
    <2> QED
        BY <2>6, <2>8
<1> QED
    BY <1>2, <1>3

-----------------------------------------------------------------------------
(* The invariant                                                             *)

DaemonTypes ==
    /\ reporting \in BOOLEAN /\ draining \in BOOLEAN /\ shutdownRequested \in BOOLEAN
    /\ asker \in Sources \cup {Self}

Inv ==
    /\ SupervisorInv /\ DaemonTypes
    /\ ProfilerInv /\ CenterInv /\ CopiesInv /\ AuditInv

LEMMA InvInit == Init => Inv
<1> SUFFICES ASSUME Init PROVE Inv
    OBVIOUS
<1>1. SupervisorInv
    BY DEF Init, SupervisorInit, SupervisorInv, SupervisorTypes, ManagedAreOurs, Is
<1>2. DaemonTypes
    BY DEF Init, DaemonTypes
<1>3. AuditInv
    BY DaemonAssumption DEF Init, AuditInv
<1>4. ProfilerInv
    BY DaemonAssumption DEF Init, ProfilerInv, IsInjective, Range
<1>5. CenterInv
    <2>1. /\ center \in [nodes : SUBSET Nodes, order : Seq(Nodes), index : {<<>>},
                         copies : Seq(Copies), trail : Seq(Trails)]
          /\ center.nodes = {} /\ center.order = <<>> /\ center.copies = <<>>
          /\ center.trail = <<>>
        BY DEF Init, EmptyCenter
    <2>2. MaxNodes \in Nat /\ MaxCopies \in Nat /\ MaxTrail \in Nat
        BY CenterAssumption
    <2>3. Cardinality({}) = 0
        BY FS_EmptySet
    <2>4. IsCenter(center)
        BY <2>1 DEF IsCenter
    <2>5. IsOrdered(center) /\ IsInjective(center.copies)
        BY <2>1 DEF IsOrdered, IsInjective, Range
    <2>6. FitsLimit(center)
        BY <2>1, <2>2, <2>3 DEF FitsLimit
    <2>7. Len(center.copies) <= MaxCopies /\ Len(center.trail) <= MaxTrail
        BY <2>1, <2>2
    <2>8. StoppedIsForgotten /\ up \in BOOLEAN
        BY <2>1 DEF Init, StoppedIsForgotten
    <2> QED
        BY <2>4, <2>5, <2>6, <2>7, <2>8 DEF CenterInv, Center
<1>6. CopiesInv
    BY DEF Init, EmptyCenter, CopiesInv, Range
<1> QED
    BY <1>1, <1>2, <1>3, <1>4, <1>5, <1>6 DEF Inv

\* Requests come to a daemon that is not in a termination, and they do to the
\* supervisor what it can do.
LEMMA Supervised ==
    ASSUME SupervisorInv, Next
    PROVE  SupervisorMoves
<1>1. CASE StartDaemon \/ TickEnd
    BY <1>1 DEF StartDaemon, TickEnd, Stop, SupervisorMoves
<1>2. CASE StopDaemon \/ TickCompleted \/ CenterSteps
    BY <1>2 DEF StopDaemon, Stop, TickCompleted, CenterSteps, SupervisorMoves
<1>3. CASE TerminationEnds
    BY <1>3 DEF TerminationEnds, SupervisorMoves
<1>4. CASE HostSteps
    BY <1>4 DEF HostSteps, SupervisorMoves
<1>5. CASE Heeded
    <2>1. CASE Obey
        <3>1. waiting.pid \in Pids
            BY <2>1 DEF Obey, SupervisorInv, SupervisorTypes, Terminations
        <3> QED
            BY <2>1, <3>1 DEF Obey, SupervisorMoves
    <2> QED
        BY <1>5, <2>1 DEF Heeded, SupervisorMoves
<1>6. ASSUME NEW src \in Sources, NEW p \in Pids, ExecuteStop(src, p) \/ Terminate(src, p)
      PROVE  SupervisorMoves
    BY <1>6 DEF ExecuteStop, Terminate, Asked, Serving, SupervisorMoves
<1>7. ASSUME NEW src \in Sources, ExecuteStart(src)
      PROVE  SupervisorMoves
    BY <1>7 DEF ExecuteStart, Asked, Serving, SupervisorMoves
<1>8. ASSUME NEW src \in Sources,
             \/ \E what \in DOMAIN Needs : Reject(src, what)
             \/ UnknownMethod(src) \/ Snapshot(src) \/ ProcessList(src)
             \/ ReadProfiles(src) \/ ProfileTrigger(src)
             \/ \E value \in BOOLEAN : ConfigApply(src, value) \/ SetDraining(src, value)
             \/ Shutdown(src)
      PROVE  SupervisorMoves
    BY <1>8 DEF Reject, UnknownMethod, Snapshot, ProcessList, ReadProfiles, ProfileTrigger,
                ConfigApply, SetDraining, Shutdown, SupervisorMoves
<1> QED
    BY <1>1, <1>2, <1>3, <1>4, <1>5, <1>6, <1>7, <1>8 DEF Next, Requests

\* The rest of the state, for the actions that leave the profiler alone: the
\* center is not touched, has one more entry in its trail, or gives or loses a
\* node, or gets the artifacts.
Records == CenterInv /\ CopiesInv /\ AuditInv

LEMMA AsideRecords ==
    ASSUME Records, UNCHANGED <<up, center, relayed, profiler, auditLog>>
    PROVE  Records'
BY DEF Records, CenterInv, CopiesInv, AuditInv, Given, StoppedIsForgotten

LEMMA RequestRecords ==
    ASSUME Inv, NEW src \in Sources \cup {Self}, UNCHANGED <<up, relayed, profiler>>,
           \E accepted, ok \in BOOLEAN : Audit(src, accepted, ok)
    PROVE  Records'
BY AuditFacts DEF Inv, Records

LEMMA StopRecords ==
    ASSUME Inv, Stop, UNCHANGED <<profiler, auditLog>>
    PROVE  Records'
<1> DEFINE d == Deregistered(center, Self)
<1>1. /\ Center(d) /\ SameRings(center, d) /\ Self \notin d.nodes
    BY DeregisteredFacts DEF Inv, CenterInv
<1>2. center' = d /\ up' = FALSE /\ relayed' = relayed
    BY DEF Stop
<1> HIDE DEF d
<1>3. Center(center') /\ center'.copies = center.copies /\ Len(center'.trail) <= MaxTrail
    BY <1>1, <1>2 DEF SameRings, Inv, CenterInv
<1>4. StoppedIsForgotten' /\ up' \in BOOLEAN
    BY <1>1, <1>2 DEF StoppedIsForgotten
<1> QED
    BY <1>2, <1>3, <1>4, CopiesAside DEF Inv, Records, AuditInv

LEMMA StartRecords ==
    ASSUME Inv, StartDaemon
    PROVE  Records'
<1> DEFINE d == Joined(center, Self)
<1>1. Self \in Nodes
    BY DaemonAssumption
<1>2. Center(d) /\ SameRings(center, d)
    BY <1>1, JoinedFacts DEF Inv, CenterInv
<1>3. /\ center' = d /\ up' = TRUE /\ relayed' = relayed /\ profiler' = profiler
      /\ auditLog' = auditLog
    BY DEF StartDaemon, Registered
<1> HIDE DEF d
<1>4. Center(center') /\ center'.copies = center.copies /\ Len(center'.trail) <= MaxTrail
    BY <1>2, <1>3 DEF SameRings, Inv, CenterInv
<1>5. StoppedIsForgotten' /\ up' \in BOOLEAN
    BY <1>3 DEF StoppedIsForgotten
<1> QED
    BY <1>3, <1>4, <1>5, CopiesAside DEF Inv, Records, AuditInv

LEMMA TickEndRecords ==
    ASSUME Inv, TickEnd
    PROVE  Records'
<1>1. up /\ profiler' = profiler /\ auditLog' = auditLog /\ Center(center)
    BY DEF TickEnd, Inv, CenterInv
<1>2. CASE shutdownRequested
    BY <1>1, <1>2, StopRecords DEF TickEnd
<1>3. CASE ~ shutdownRequested
    <2>1. up' = up /\ relayed' = InRing
        BY <1>3 DEF TickEnd
    <2>2. PICK c : Center(c) /\ SameRings(center, c) /\ center' = RelayAll(c)
        <3> DEFINE d == Reported(center, Self, InRing)
        <3>1. Self \in Nodes
            BY DaemonAssumption
        <3>2. Center(d) /\ SameRings(center, d)
            BY <1>1, <3>1, ReportedFacts
        <3>3. center' = RelayAll(d) \/ center' = RelayAll(center)
            BY <1>3 DEF TickEnd
        <3> HIDE DEF d
        <3> QED
            BY <1>1, <3>2, <3>3 DEF SameRings
    <2>3. CenterInv' /\ CopiesInv'
        BY <1>1, <2>1, <2>2, RelayFacts DEF Inv
    <2> QED
        BY <1>1, <2>3 DEF Inv, Records, AuditInv
<1> QED
    BY <1>2, <1>3

LEMMA CenterRecords ==
    ASSUME Inv, CenterSteps
    PROVE  Records'
<1>1. /\ up' = up /\ profiler' = profiler /\ relayed' = relayed /\ auditLog' = auditLog
      /\ Center(center) /\ up \in BOOLEAN
    BY DEF CenterSteps, daemonVars, Inv, CenterInv
<1>2. ASSUME NEW d, center' = d, Center(d), SameRings(center, d),
             Self \notin center.nodes => Self \notin d.nodes
      PROVE  Records'
    <2>1. Center(center') /\ center'.copies = center.copies /\ Len(center'.trail) <= MaxTrail
        BY <1>2 DEF SameRings, Inv, CenterInv
    <2>2. StoppedIsForgotten'
        BY <1>1, <1>2 DEF StoppedIsForgotten, Inv, CenterInv
    <2> QED
        BY <1>1, <2>1, <2>2, CopiesAside DEF Inv, Records, AuditInv
<1>3. ASSUME NEW n \in Nodes \ {Self}, center' = Reported(center, n, {})
      PROVE  Records'
    <2> DEFINE d == Reported(center, n, {})
    <2>1. Center(d) /\ SameRings(center, d) /\ d.nodes \subseteq center.nodes \cup {n}
        BY <1>1, ReportedFacts
    <2> HIDE DEF d
    <2> QED
        BY <1>2, <1>3, <2>1 DEF d
<1>4. ASSUME NEW stale, center' = Pruned(center, stale)
      PROVE  Records'
    <2> DEFINE d == Pruned(center, stale)
    <2>1. Center(d) /\ SameRings(center, d) /\ d.nodes \subseteq center.nodes
        BY <1>1, PrunedFacts
    <2> HIDE DEF d
    <2> QED
        BY <1>2, <1>4, <2>1 DEF d
<1>5. ASSUME NEW src \in Sources, NEW ok \in BOOLEAN, center' = QueriedBy(center, src, ok)
      PROVE  Records'
    <2> DEFINE e == [node |-> "center", entry |-> [source |-> src, accepted |-> ok]]
    <2>1. e \in Trails
        BY DEF Trails
    <2>2. center' = [center EXCEPT !.trail = Pushed(center.trail, MaxTrail, e)]
        BY <1>5 DEF QueriedBy
    <2> HIDE DEF e
    <2>3. CenterInv' /\ CopiesInv'
        BY <1>1, <2>1, <2>2, AuditedFacts DEF Inv
    <2> QED
        BY <1>1, <2>3 DEF Inv, Records, AuditInv
<1> QED
    BY <1>3, <1>4, <1>5 DEF CenterSteps

\* One case per action: a request is refused or carried out, and written down.
LEMMA InvStep == Inv /\ [Next]_vars => Inv'
<1> SUFFICES ASSUME Inv, [Next]_vars PROVE Inv'
    OBVIOUS
<1>1. CASE UNCHANGED vars
    <2>1. UNCHANGED <<up, center, relayed, profiler, auditLog, reporting, draining, asker,
                      shutdownRequested>> /\ UNCHANGED supervisorVars
        BY <1>1 DEF vars, daemonVars
    <2>2. SupervisorInv'
        BY <2>1, SupervisorStep DEF SupervisorMoves, Inv
    <2>3. Records'
        BY <2>1, AsideRecords DEF Inv, Records
    <2>4. ProfilerInv' /\ DaemonTypes'
        BY <2>1 DEF Inv, ProfilerInv, DaemonTypes, Given
    <2> QED
        BY <2>2, <2>3, <2>4 DEF Inv, Records
<1> SUFFICES ASSUME Next PROVE Inv'
    BY <1>1
<1>2. SupervisorInv'
    BY Supervised, SupervisorStep DEF Inv
<1>3. DaemonTypes'
    <2>1. CASE StartDaemon \/ StopDaemon \/ TickEnd \/ TickCompleted \/ HostSteps \/ Heeded
               \/ CenterSteps \/ TerminationEnds
        BY <2>1 DEF Inv, DaemonTypes, StartDaemon, StopDaemon, TickEnd, TickCompleted, HostSteps,
                    Heeded, CenterSteps, TerminationEnds, daemonVars
    <2>2. ASSUME NEW src \in Sources, NEW p \in Pids, ExecuteStop(src, p) \/ Terminate(src, p)
          PROVE  DaemonTypes'
        BY <2>2 DEF Inv, DaemonTypes, ExecuteStop, Terminate, daemonVars
    <2>3. ASSUME NEW src \in Sources,
                 \/ \E what \in DOMAIN Needs : Reject(src, what)
                 \/ UnknownMethod(src) \/ Snapshot(src) \/ ProcessList(src)
                 \/ ReadProfiles(src) \/ ProfileTrigger(src) \/ ExecuteStart(src)
                 \/ \E value \in BOOLEAN : ConfigApply(src, value) \/ SetDraining(src, value)
                 \/ Shutdown(src)
          PROVE  DaemonTypes'
        BY <2>3 DEF Inv, DaemonTypes, Reject, UnknownMethod, Snapshot, ProcessList, ReadProfiles,
                    ProfileTrigger, ExecuteStart, ConfigApply, SetDraining, Shutdown, daemonVars
    <2> QED
        BY <2>1, <2>2, <2>3 DEF Next, Requests
<1>4. ASSUME UNCHANGED profiler PROVE ProfilerInv'
    BY <1>4 DEF Inv, ProfilerInv, Given
<1>5. ProfilerInv' /\ Records'
    <2>1. CASE StartDaemon
        BY <1>4, <2>1, StartRecords DEF StartDaemon
    <2>2. CASE StopDaemon
        BY <1>4, <2>2, StopRecords DEF StopDaemon
    <2>3. CASE TickEnd
        BY <1>4, <2>3, TickEndRecords DEF TickEnd
    <2>4. CASE TickCompleted
        <3>1. ProfilerInv' /\ CopiesInv'
            BY <2>4, TickFacts DEF Inv
        <3>2. CenterInv' /\ AuditInv'
            BY <2>4 DEF Inv, CenterInv, AuditInv, StoppedIsForgotten, TickCompleted, daemonVars
        <3> QED
            BY <3>1, <3>2 DEF Records
    <2>5. CASE TerminationEnds
        <3>1. asker \in Sources \cup {Self} /\ UNCHANGED <<up, relayed, profiler>>
            BY <2>5 DEF Inv, DaemonTypes, TerminationEnds, daemonVars
        <3>2. \E accepted, ok \in BOOLEAN : Audit(asker, accepted, ok)
            BY <2>5 DEF TerminationEnds
        <3> QED
            BY <1>4, <3>1, <3>2, RequestRecords
    <2>6. CASE HostSteps \/ Heeded
        <3>1. UNCHANGED <<up, center, relayed, profiler, auditLog>>
            BY <2>6 DEF HostSteps, Heeded, daemonVars
        <3> QED
            BY <1>4, <3>1, AsideRecords DEF Inv, Records
    <2>7. CASE CenterSteps
        BY <1>4, <2>7, CenterRecords DEF CenterSteps
    <2>8. ASSUME NEW src \in Sources, Requests, UNCHANGED <<up, relayed, profiler>>,
                 \E accepted, ok \in BOOLEAN : Audit(src, accepted, ok)
          PROVE  ProfilerInv' /\ Records'
        BY <1>4, <2>8, RequestRecords
    <2>9. ASSUME NEW src \in Sources, NEW p \in Pids, Requests,
                 ExecuteStop(src, p) \/ Terminate(src, p)
          PROVE  ProfilerInv' /\ Records'
        <3>1. UNCHANGED <<up, relayed, profiler>>
            BY <2>9 DEF ExecuteStop, Terminate, daemonVars
        <3>2. \/ \E accepted, ok \in BOOLEAN : Audit(src, accepted, ok)
              \/ UNCHANGED <<auditLog, center>>
            BY <2>9 DEF ExecuteStop, Terminate
        <3> QED
            BY <1>4, <2>8, <2>9, <3>1, <3>2, AsideRecords DEF Inv, Records
    <2>10. ASSUME NEW src \in Sources, Requests, Snapshot(src)
           PROVE  ProfilerInv' /\ Records'
        <3>1. UNCHANGED <<up, center, relayed, profiler, auditLog>>
            BY <2>10 DEF Snapshot, daemonVars
        <3> QED
            BY <1>4, <3>1, AsideRecords DEF Inv, Records
    <2>11. ASSUME NEW src \in Sources, Requests, ProfileTrigger(src)
           PROVE  ProfilerInv' /\ Records'
        <3>1. /\ up' = up /\ relayed' = relayed
              /\ \E accepted, ok \in BOOLEAN : Audit(src, accepted, ok)
            BY <2>11 DEF ProfileTrigger, daemonVars
        <3>2. CASE UNCHANGED profiler
            BY <2>8, <2>11, <3>1, <3>2
        <3>3. CASE ~ profiler.sampling /\ profiler' = Triggered
            <4>1. PICK accepted \in BOOLEAN, ok \in BOOLEAN : Audit(src, accepted, ok)
                BY <3>1
            <4> DEFINE entry == [source |-> src, accepted |-> accepted, ok |-> ok]
                       e == [node |-> Self, entry |-> entry]
                       d == [center EXCEPT !.trail = Pushed(center.trail, MaxTrail, e)]
            <4>2. /\ entry \in Entries /\ e \in Trails /\ AuditCapacity \in Nat
                BY DaemonAssumption DEF Entries, Trails
            <4>3. auditLog' = Pushed(auditLog, AuditCapacity, entry) /\ center' = d
                BY <4>1 DEF Audit, Audited
            <4> HIDE DEF entry, e
            <4>4. AuditInv'
                BY <4>2, <4>3, PushedFacts DEF Inv, AuditInv
            <4>5. Center(center) /\ Len(center.trail) <= MaxTrail
                BY DEF Inv, CenterInv
            <4> HIDE DEF d
            <4>6. /\ Center(d) /\ SameRoster(center, d) /\ d.copies = center.copies
                  /\ Len(d.trail) <= MaxTrail
                BY <4>2, <4>5, TrailFacts DEF d
            <4>7. CenterInv'
                BY <3>1, <4>3, <4>6 DEF Inv, CenterInv, StoppedIsForgotten, SameRoster
            <4>8. ProfilerInv' /\ CopiesInv'
                BY <3>1, <3>3, <4>3, <4>6, TriggerFacts DEF Inv
            <4> QED
                BY <4>4, <4>7, <4>8 DEF Records
        <3> QED
            BY <2>11, <3>2, <3>3 DEF ProfileTrigger
    <2>12. ASSUME NEW src \in Sources, Requests,
                  \/ \E what \in DOMAIN Needs : Reject(src, what)
                  \/ UnknownMethod(src) \/ ProcessList(src)
                  \/ ReadProfiles(src) \/ ExecuteStart(src)
                  \/ \E value \in BOOLEAN : ConfigApply(src, value) \/ SetDraining(src, value)
                  \/ Shutdown(src)
           PROVE  ProfilerInv' /\ Records'
        <3>1. UNCHANGED <<up, relayed, profiler>>
            BY <2>12 DEF Reject, UnknownMethod, ProcessList, ReadProfiles, ExecuteStart,
                         ConfigApply, SetDraining, Shutdown, daemonVars
        <3>2. \E accepted, ok \in BOOLEAN : Audit(src, accepted, ok)
            BY <2>12 DEF Reject, UnknownMethod, ProcessList, ReadProfiles, ExecuteStart,
                         ConfigApply, SetDraining, Shutdown
        <3> QED
            BY <2>8, <2>12, <3>1, <3>2
    <2> QED
        BY <2>1, <2>2, <2>3, <2>4, <2>5, <2>6, <2>7, <2>9, <2>10, <2>11, <2>12
        DEF Next, Requests
<1> QED
    BY <1>2, <1>3, <1>5 DEF Inv, Records

-----------------------------------------------------------------------------
(* The theorems                                                              *)

\* The supervisor, the profiler and the center keep their books: what is being
\* terminated is out of the map, handles are given once, and the daemon remembers
\* what it has relayed as long as it may meet it again.
THEOREM InvHolds == Spec => []Inv
<1>1. Spec => Init /\ [][Next]_vars
    BY DEF Spec
<1> QED
    BY <1>1, InvInit, InvStep, PTL

\* A managed pid is a child that has not been reaped and a running child is
\* managed, though pids are used again; the center gets an artifact once; a
\* daemon that has stopped is off the roster; rings keep their capacity.
THEOREM SupervisionStaysSound == Spec => []SupervisionIsSound
<1>1. Inv => SupervisionIsSound
    <2> SUFFICES ASSUME Inv PROVE SupervisionIsSound
        OBVIOUS
    <2>1. waiting = NoTermination \/ waiting.pid \in Pids
        BY DEF Inv, SupervisorInv, SupervisorTypes, Terminations
    <2>2. TypeOK
        BY <2>1 DEF TypeOK, Inv, SupervisorInv, SupervisorTypes, DaemonTypes, ProfilerInv,
                    CenterInv, AuditInv
    <2>3. CopiesAreDistinct
        BY DEF Inv, CenterInv, CopiesAreDistinct
    <2> QED
        BY <2>2, <2>3 DEF Inv, SupervisorInv, CenterInv, SupervisionIsSound
<1> QED
    BY <1>1, InvHolds, PTL

\* The order of arrival is the roster, whatever is evicted, pruned and deregistered
\* in between, and the roster keeps its limit.
THEOREM RosterStaysOrdered == Spec => []RosterIsOrdered
<1>1. Inv => RosterIsOrdered
    <2> SUFFICES ASSUME Inv PROVE RosterIsOrdered
        OBVIOUS
    <2>1. /\ Range(center.order) = center.nodes /\ IsInjective(center.order)
          /\ MaxNodes # 0 => Cardinality(center.nodes) <= MaxNodes
          /\ center.order \in Seq(Nodes)
        BY DEF Inv, CenterInv, Center, IsCenter, IsOrdered, FitsLimit
    <2>2. Cardinality(Range(center.order)) = Len(center.order)
        BY <2>1, RosterIsFinite
    <2> QED
        BY <2>1, <2>2 DEF RosterIsOrdered
<1> QED
    BY <1>1, InvHolds, PTL
=============================================================================
