------------------------- MODULE CellSpaces_proofs -------------------------
(***************************************************************************)
(* Proofs about CellSpaces, for all sets of entities and spaces, all integer  *)
(* positions and ranges and all values of the bounds: after the triggers have  *)
(* looked, what a witness has in view is what is in its range, and its client  *)
(* is told the same.                                                         *)
(*                                                                         *)
(* First the coordinate system as an algorithm: a list of the right entities   *)
(* in the order of their X (IsAxis) stays one when an entity is put in, taken  *)
(* out, or moved, and the walk of entitiesInRange finds on it exactly who is   *)
(* near.  Then the invariant: the lists are such lists, and what a witness has *)
(* reported is what its trigger has inside, without who has left the space     *)
(* and who came back since the trigger last looked (WitnessesAreSound).      *)
(*                                                                         *)
(* Last the clients: what a client knows when it has heard all that is under   *)
(* way, and what the events of its witness last say of each entity, are        *)
(* together what is in view (ClientsAreTold).                                *)
(***************************************************************************)
EXTENDS CellSpaces, WellFoundedInduction, FiniteSetTheorems, TLAPS

\* Where an entity may be, and where they all are.
Places == Int \X Int
Positions == [Entities -> Places]

-----------------------------------------------------------------------------
(* Facts about naturals and sequences.                                       *)

\* A non-empty set of naturals has a least element.
LEMMA LeastNatural ==
    ASSUME NEW T \in SUBSET Nat, T # {}
    PROVE  \E n \in T : \A m \in T : n <= m
<1> DEFINE Downs == {1 .. n : n \in T}
<1>1. Downs \subseteq FiniteSubsetsOf(Nat) /\ Downs # {}
    <2>1. \A n \in T : IsFiniteSet(1 .. n) /\ 1 .. n \in SUBSET Nat
        BY FS_Interval
    <2> QED
        BY <2>1 DEF FiniteSubsetsOf
<1>2. PICK low \in Downs : \A d \in Downs : <<d, low>> \notin StrictSubsetOrdering(Nat)
    <2> HIDE DEF Downs
    <2> QED
        BY <1>1, FS_StrictSubsetOrderingWellFounded, WFMin
<1>3. PICK n \in T : low = 1 .. n
    OBVIOUS
<1>4. ASSUME NEW m \in T, m < n PROVE FALSE
    <2>1. 1 .. m \in Downs /\ n \in 1 .. n /\ n \notin 1 .. m
        BY <1>4
    <2>2. 1 .. m \subseteq 1 .. n /\ 1 .. m \subseteq Nat /\ 1 .. n \subseteq Nat
        BY <1>4
    <2> QED
        BY <1>2, <1>3, <2>1, <2>2 DEF StrictSubsetOrdering
<1> QED
    BY <1>4

\* The least of a set of naturals.
LEMMA MinIs ==
    ASSUME NEW T \in SUBSET Nat, T # {}
    PROVE  Min(T) \in T /\ \A n \in T : Min(T) <= n
<1>1. PICK m \in T : \A n \in T : m <= n
    BY LeastNatural
<1> QED
    BY <1>1 DEF Min

\* The greatest of a bounded set of naturals.
LEMMA MaxIs ==
    ASSUME NEW k \in Nat, NEW T \in SUBSET (1 .. k), T # {}
    PROVE  Max(T) \in T /\ \A n \in T : n <= Max(T)
<1> DEFINE U == {k - n : n \in T}
<1>1. \A n \in T : n \in 1 .. k /\ k - n \in Nat
    OBVIOUS
<1>2. U \in SUBSET Nat /\ U # {}
    BY <1>1
<1>3. PICK u \in U : \A v \in U : u <= v
    <2> HIDE DEF U
    <2> QED
        BY <1>2, LeastNatural
<1>4. PICK m \in T : u = k - m
    OBVIOUS
<1>5. \A n \in T : n <= m
    <2> TAKE n \in T
    <2>1. u <= k - n
        BY <1>3
    <2> QED
        BY <1>1, <1>4, <2>1
<1> QED
    BY <1>5 DEF Max

\* What concatenation makes of two sequences.
LEMMA JoinedIs ==
    ASSUME NEW S, NEW q \in Seq(S), NEW r \in Seq(S)
    PROVE  /\ q \o r \in Seq(S)
           /\ Len(q \o r) = Len(q) + Len(r)
           /\ \A i \in 1 .. Len(q) + Len(r) :
                (q \o r)[i] = IF i <= Len(q) THEN q[i] ELSE r[i - Len(q)]
    OBVIOUS

\* What InsertAt makes of a sequence.
LEMMA InsertAtIs ==
    ASSUME NEW S, NEW q \in Seq(S), NEW e \in S, NEW p \in 1 .. Len(q) + 1
    PROVE  /\ InsertAt(q, p, e) \in Seq(S)
           /\ Len(InsertAt(q, p, e)) = Len(q) + 1
           /\ \A i \in 1 .. Len(q) + 1 :
                InsertAt(q, p, e)[i] = IF i < p THEN q[i] ELSE IF i = p THEN e ELSE q[i - 1]
<1>1. PICK a : a = SubSeq(q, 1, p - 1)
    OBVIOUS
<1>2. PICK b : b = SubSeq(q, p, Len(q))
    OBVIOUS
<1>3. PICK c : c = a \o <<e>>
    OBVIOUS
<1>4. PICK t : t = c \o b
    OBVIOUS
<1>5. a \in Seq(S) /\ Len(a) = p - 1 /\ \A i \in 1 .. p - 1 : a[i] = q[i]
    BY <1>1
<1>6. /\ b \in Seq(S) /\ Len(b) = Len(q) - p + 1
      /\ \A i \in 1 .. Len(q) - p + 1 : b[i] = q[p + i - 1]
    BY <1>2
<1>7. /\ c \in Seq(S) /\ Len(c) = p
      /\ \A i \in 1 .. p : c[i] = IF i < p THEN q[i] ELSE e
    BY <1>3, <1>5
<1>8. /\ t \in Seq(S) /\ Len(t) = Len(q) + 1
      /\ \A i \in 1 .. Len(q) + 1 : t[i] = IF i <= p THEN c[i] ELSE b[i - p]
    <2>1. /\ t \in Seq(S) /\ Len(t) = Len(c) + Len(b)
          /\ \A i \in 1 .. Len(c) + Len(b) :
                t[i] = IF i <= Len(c) THEN c[i] ELSE b[i - Len(c)]
        BY <1>4, <1>6, <1>7, JoinedIs
    <2>2. Len(c) = p /\ Len(c) + Len(b) = Len(q) + 1
        BY <1>6, <1>7
    <2> QED
        BY <2>1, <2>2
<1>9. \A i \in 1 .. Len(q) + 1 : t[i] = IF i < p THEN q[i] ELSE IF i = p THEN e ELSE q[i - 1]
    <2> TAKE i \in 1 .. Len(q) + 1
    <2>1. CASE i <= p
        BY <2>1, <1>7, <1>8
    <2>2. CASE i > p
        <3>1. i - p \in 1 .. Len(q) - p + 1 /\ p + (i - p) - 1 = i - 1
            BY <2>2
        <3>2. b[i - p] = q[p + (i - p) - 1]
            BY <3>1, <1>6
        <3>3. t[i] = b[i - p]
            BY <2>2, <1>8
        <3> QED
            BY <2>2, <3>1, <3>2, <3>3
    <2> QED
        BY <2>1, <2>2
<1>10. InsertAt(q, p, e) = t
    BY <1>1, <1>2, <1>3, <1>4 DEF InsertAt
<1> QED
    BY <1>8, <1>9, <1>10

\* What RemoveAt makes of a sequence.
LEMMA RemoveAtIs ==
    ASSUME NEW S, NEW q \in Seq(S), NEW p \in 1 .. Len(q)
    PROVE  /\ RemoveAt(q, p) \in Seq(S)
           /\ Len(RemoveAt(q, p)) = Len(q) - 1
           /\ \A i \in 1 .. Len(q) - 1 :
                RemoveAt(q, p)[i] = IF i < p THEN q[i] ELSE q[i + 1]
<1>1. PICK a : a = SubSeq(q, 1, p - 1)
    OBVIOUS
<1>2. PICK b : b = SubSeq(q, p + 1, Len(q))
    OBVIOUS
<1>3. PICK t : t = a \o b
    OBVIOUS
<1>4. a \in Seq(S) /\ Len(a) = p - 1 /\ \A i \in 1 .. p - 1 : a[i] = q[i]
    BY <1>1
<1>5. /\ b \in Seq(S) /\ Len(b) = Len(q) - p
      /\ \A i \in 1 .. Len(q) - p : b[i] = q[p + i]
    BY <1>2
<1>6. /\ t \in Seq(S) /\ Len(t) = Len(q) - 1
      /\ \A i \in 1 .. Len(q) - 1 : t[i] = IF i <= p - 1 THEN a[i] ELSE b[i - (p - 1)]
    <2>1. /\ t \in Seq(S) /\ Len(t) = Len(a) + Len(b)
          /\ \A i \in 1 .. Len(a) + Len(b) :
                t[i] = IF i <= Len(a) THEN a[i] ELSE b[i - Len(a)]
        BY <1>3, <1>4, <1>5, JoinedIs
    <2>2. Len(a) = p - 1 /\ Len(a) + Len(b) = Len(q) - 1
        BY <1>4, <1>5
    <2> QED
        BY <2>1, <2>2
<1>7. \A i \in 1 .. Len(q) - 1 : t[i] = IF i < p THEN q[i] ELSE q[i + 1]
    <2> TAKE i \in 1 .. Len(q) - 1
    <2>1. CASE i < p
        BY <2>1, <1>4, <1>6
    <2>2. CASE i >= p
        <3>1. i - (p - 1) \in 1 .. Len(q) - p /\ p + (i - (p - 1)) = i + 1
            BY <2>2
        <3>2. b[i - (p - 1)] = q[p + (i - (p - 1))]
            BY <3>1, <1>5
        <3>3. t[i] = b[i - (p - 1)]
            BY <2>2, <1>6
        <3> QED
            BY <2>2, <3>1, <3>2, <3>3
    <2> QED
        BY <2>1, <2>2
<1>8. RemoveAt(q, p) = t
    BY <1>1, <1>2, <1>3 DEF RemoveAt
<1> QED
    BY <1>6, <1>7, <1>8

\* The sequence of a finite set has each of its elements.
LEMMA SetToSeqIs ==
    ASSUME NEW S, IsFiniteSet(S)
    PROVE  /\ Cardinality(S) \in Nat
           /\ SetToSeq(S) \in [1 .. Cardinality(S) -> S]
           /\ \A e \in S : \E i \in 1 .. Cardinality(S) : SetToSeq(S)[i] = e
<1>1. Cardinality(S) \in Nat
    BY FS_CardinalityType
<1> DEFINE n == Cardinality(S)
<1>2. \E f \in [1 .. n -> S] : IsInjective(f)
    BY FS_CardinalityType DEF ExistsBijection, Bijection, Injection, IsInjective
<1>3. SetToSeq(S) \in [1 .. n -> S] /\ IsInjective(SetToSeq(S))
    BY <1>2 DEF SetToSeq
<1>4. SetToSeq(S) \in Injection(1 .. n, S)
    BY <1>3 DEF Injection
<1>5. IsFiniteSet(1 .. n) /\ Cardinality(1 .. n) = n
    BY <1>1, FS_Interval
<1>6. SetToSeq(S) \in Surjection(1 .. n, S)
    BY <1>4, <1>5, FS_Injection
<1> QED
    BY <1>1, <1>3, <1>6 DEF Surjection

-----------------------------------------------------------------------------
(* The list of a CoordinateSystem.                                           *)
\* It holds each of the entities S once.
Holds(list, S) ==
    /\ list \in Seq(S)
    /\ \A e \in S : \E i \in 1 .. Len(list) : list[i] = e
    /\ \A i, j \in 1 .. Len(list) : list[i] = list[j] => i = j

\* Their X do not decrease.
Ascends(list, at) ==
    \A i, j \in 1 .. Len(list) : i < j => X(at, list[i]) <= X(at, list[j])

IsAxis(list, at, S) == Holds(list, S) /\ Ascends(list, at)

LEMMA HoldsExactly ==
    ASSUME NEW S, NEW list, Holds(list, S)
    PROVE  ToSet(list) = S
    BY DEF Holds, ToSet

\* Only the positions of its own entities matter to a list.
LEMMA AscendsStill ==
    ASSUME NEW S, NEW list \in Seq(S), NEW at, NEW now,
           Ascends(list, at), \A f \in S : now[f] = at[f]
    PROVE  Ascends(list, now)
<1>1. \A i \in 1 .. Len(list) : list[i] \in S
    OBVIOUS
<1> QED
    BY <1>1 DEF Ascends, X

\* The place of an entity in a list that holds it.
Index(list, e) == Min({i \in 1 .. Len(list) : list[i] = e})

LEMMA IndexIs ==
    ASSUME NEW S, NEW e \in S, NEW list, Holds(list, S)
    PROVE  Index(list, e) \in 1 .. Len(list) /\ list[Index(list, e)] = e
<1> DEFINE I == {i \in 1 .. Len(list) : list[i] = e}
<1>1. Len(list) \in Nat
    BY DEF Holds
<1>2. I \in SUBSET Nat /\ I # {}
    BY <1>1 DEF Holds
<1>3. Min(I) \in I
    BY <1>2, MinIs
<1> QED
    BY <1>3 DEF Index

\* unlink: without the one at k.
LEMMA RemoveAtHolds ==
    ASSUME NEW S, NEW list, Holds(list, S), NEW k \in 1 .. Len(list)
    PROVE  /\ Holds(RemoveAt(list, k), S \ {list[k]})
           /\ Len(RemoveAt(list, k)) = Len(list) - 1
<1>1. list \in Seq(S) /\ Len(list) \in Nat
    BY DEF Holds
<1>2. PICK r : r = RemoveAt(list, k)
    OBVIOUS
<1>3. /\ r \in Seq(S) /\ Len(r) = Len(list) - 1
      /\ \A i \in 1 .. Len(list) - 1 : r[i] = IF i < k THEN list[i] ELSE list[i + 1]
    BY <1>1, <1>2, RemoveAtIs
<1> DEFINE Old(n) == IF n < k THEN n ELSE n + 1
<1>4. ASSUME NEW i \in 1 .. Len(r)
      PROVE  Old(i) \in 1 .. Len(list) /\ r[i] = list[Old(i)] /\ Old(i) # k
    BY <1>1, <1>3
<1>5. \A i, j \in 1 .. Len(r) : Old(i) = Old(j) => i = j
    BY <1>3
<1> HIDE DEF Old
<1>6. \A i \in 1 .. Len(r) : r[i] # list[k] /\ r[i] \in S
    <2> TAKE i \in 1 .. Len(r)
    <2>1. Old(i) \in 1 .. Len(list) /\ r[i] = list[Old(i)] /\ Old(i) # k
        BY <1>4
    <2>2. list[Old(i)] # list[k]
        BY <2>1 DEF Holds
    <2> QED
        BY <2>1, <2>2, <1>1
<1>7. r \in Seq(S \ {list[k]})
    BY <1>3, <1>6
<1>8. \A e \in S \ {list[k]} : \E i \in 1 .. Len(r) : r[i] = e
    <2> TAKE e \in S \ {list[k]}
    <2>1. PICK i \in 1 .. Len(list) : list[i] = e
        BY DEF Holds
    <2>2. CASE i < k
        <3>1. i \in 1 .. Len(r) /\ r[i] = e
            BY <2>1, <2>2, <1>1, <1>3
        <3> QED
            BY <3>1
    <2>3. CASE i > k
        <3>1. i - 1 \in 1 .. Len(r) /\ ~ (i - 1 < k) /\ (i - 1) + 1 = i
            BY <2>3, <1>1, <1>3
        <3>2. r[i - 1] = e
            BY <3>1, <2>1, <1>1, <1>3
        <3> QED
            BY <3>1, <3>2
    <2>4. i # k
        BY <2>1
    <2> QED
        BY <2>2, <2>3, <2>4
<1>9. ASSUME NEW i \in 1 .. Len(r), NEW j \in 1 .. Len(r), r[i] = r[j]
      PROVE  i = j
    <2>1. /\ Old(i) \in 1 .. Len(list) /\ r[i] = list[Old(i)]
          /\ Old(j) \in 1 .. Len(list) /\ r[j] = list[Old(j)]
        BY <1>4
    <2>2. Old(i) = Old(j)
        BY <2>1, <1>9 DEF Holds
    <2> QED
        BY <2>2, <1>5
<1> QED
    BY <1>2, <1>3, <1>7, <1>8, <1>9 DEF Holds

\* The others are in the order they were in.
LEMMA RemoveAtAscends ==
    ASSUME NEW S, NEW list \in Seq(S), NEW at, NEW k \in 1 .. Len(list), Ascends(list, at)
    PROVE  Ascends(RemoveAt(list, k), at)
<1>1. PICK r : r = RemoveAt(list, k)
    OBVIOUS
<1>2. /\ r \in Seq(S) /\ Len(r) = Len(list) - 1
      /\ \A i \in 1 .. Len(list) - 1 : r[i] = IF i < k THEN list[i] ELSE list[i + 1]
    BY <1>1, RemoveAtIs
<1>3. ASSUME NEW i \in 1 .. Len(r), NEW j \in 1 .. Len(r), i < j
      PROVE  X(at, r[i]) <= X(at, r[j])
    <2> DEFINE Old(n) == IF n < k THEN n ELSE n + 1
    <2>1. \A n \in 1 .. Len(r) : Old(n) \in 1 .. Len(list) /\ r[n] = list[Old(n)]
        BY <1>2
    <2>2. Old(i) < Old(j)
        BY <1>3
    <2> HIDE DEF Old
    <2> QED
        BY <2>1, <2>2 DEF Ascends
<1> QED
    BY <1>1, <1>3 DEF Ascends

\* An entity that is put in is held too.
LEMMA InsertAtHolds ==
    ASSUME NEW S, NEW list, Holds(list, S), NEW e, e \notin S, NEW p \in 1 .. Len(list) + 1
    PROVE  Holds(InsertAt(list, p, e), S \cup {e})
<1> DEFINE T == S \cup {e}
<1>1. list \in Seq(T) /\ e \in T /\ Len(list) \in Nat /\ \A i \in 1 .. Len(list) : list[i] # e
    BY DEF Holds
<1>2. PICK r : r = InsertAt(list, p, e)
    OBVIOUS
<1>3. /\ r \in Seq(T) /\ Len(r) = Len(list) + 1
      /\ \A i \in 1 .. Len(list) + 1 :
            r[i] = IF i < p THEN list[i] ELSE IF i = p THEN e ELSE list[i - 1]
    <2> HIDE DEF T
    <2>1. p \in 1 .. Len(list) + 1 /\ list \in Seq(T) /\ e \in T
        BY <1>1
    <2>2. /\ InsertAt(list, p, e) \in Seq(T) /\ Len(InsertAt(list, p, e)) = Len(list) + 1
          /\ \A i \in 1 .. Len(list) + 1 :
                InsertAt(list, p, e)[i]
                    = IF i < p THEN list[i] ELSE IF i = p THEN e ELSE list[i - 1]
        BY <2>1, InsertAtIs
    <2> QED
        BY <2>2, <1>2
<1>4. ASSUME NEW f \in T
      PROVE  \E i \in 1 .. Len(r) : r[i] = f
    <2>1. CASE f = e
        <3>1. p \in 1 .. Len(r) /\ r[p] = e
            BY <1>1, <1>3
        <3> QED
            BY <2>1, <3>1
    <2>2. CASE f # e
        <3>1. PICK i \in 1 .. Len(list) : list[i] = f
            BY <2>2 DEF Holds
        <3>2. CASE i < p
            <4>1. i \in 1 .. Len(r) /\ r[i] = f
                BY <3>1, <3>2, <1>1, <1>3
            <4> QED
                BY <4>1
        <3>3. CASE i >= p
            <4>1. /\ i + 1 \in 1 .. Len(r) /\ ~ (i + 1 < p) /\ i + 1 # p
                  /\ (i + 1) - 1 = i
                BY <3>3, <1>1, <1>3
            <4>2. r[i + 1] = f
                BY <4>1, <3>1, <1>1, <1>3
            <4> QED
                BY <4>1, <4>2
        <3> QED
            BY <3>2, <3>3
    <2> QED
        BY <2>1, <2>2
<1>5. ASSUME NEW i \in 1 .. Len(r), NEW j \in 1 .. Len(r), r[i] = r[j]
      PROVE  i = j
    <2>1. \A n \in 1 .. Len(r) : n # p => r[n] # e
        BY <1>1, <1>3
    <2>2. r[p] = e
        BY <1>1, <1>3
    <2>3. CASE i = p \/ j = p
        BY <2>1, <2>2, <2>3, <1>5
    <2>4. CASE i # p /\ j # p
        <3> DEFINE Old(n) == IF n < p THEN n ELSE n - 1
        <3>1. /\ Old(i) \in 1 .. Len(list) /\ r[i] = list[Old(i)]
              /\ Old(j) \in 1 .. Len(list) /\ r[j] = list[Old(j)]
            BY <2>4, <1>1, <1>3
        <3>2. Old(i) = Old(j)
            <4> HIDE DEF Old
            <4> QED
                BY <3>1, <1>5 DEF Holds
        <3> QED
            BY <2>4, <3>2
    <2> QED
        BY <2>3, <2>4
<1> QED
    BY <1>2, <1>3, <1>4, <1>5 DEF Holds

\* The order is kept if nobody before it is larger, and nobody after smaller.
LEMMA InsertAtAscends ==
    ASSUME NEW S, NEW list \in Seq(S), NEW at, NEW e \in S, NEW p \in 1 .. Len(list) + 1,
           Ascends(list, at),
           \A i \in 1 .. Len(list) : i < p => X(at, list[i]) <= X(at, e),
           \A i \in 1 .. Len(list) : i >= p => X(at, e) <= X(at, list[i]),
           X(at, e) \in Int
    PROVE  Ascends(InsertAt(list, p, e), at)
<1>1. Len(list) \in Nat
    OBVIOUS
<1>2. PICK r : r = InsertAt(list, p, e)
    OBVIOUS
<1>3. /\ r \in Seq(S) /\ Len(r) = Len(list) + 1
      /\ \A i \in 1 .. Len(list) + 1 :
            r[i] = IF i < p THEN list[i] ELSE IF i = p THEN e ELSE list[i - 1]
    <2>1. \A n \in 1 .. Len(list) + 1 :
            /\ InsertAt(list, n, e) \in Seq(S)
            /\ Len(InsertAt(list, n, e)) = Len(list) + 1
            /\ \A i \in 1 .. Len(list) + 1 :
                    InsertAt(list, n, e)[i] =
                        IF i < n THEN list[i] ELSE IF i = n THEN e ELSE list[i - 1]
        BY InsertAtIs
    <2> QED
        BY <2>1, <1>2
<1>4. ASSUME NEW i \in 1 .. Len(r), NEW j \in 1 .. Len(r), i < j
      PROVE  X(at, r[i]) <= X(at, r[j])
    <2> DEFINE Old(n) == IF n < p THEN n ELSE n - 1
    <2>1. \A n \in 1 .. Len(r) : n # p => Old(n) \in 1 .. Len(list) /\ r[n] = list[Old(n)]
        BY <1>1, <1>3
    <2>2. r[p] = e
        BY <1>1, <1>3
    <2>3. CASE i = p
        <3>1. j # p /\ Old(j) >= p
            BY <2>3, <1>4
        <3> HIDE DEF Old
        <3> QED
            BY <2>1, <2>2, <2>3, <3>1
    <2>4. CASE j = p
        <3>1. i # p /\ Old(i) < p
            BY <2>4, <1>4
        <3> HIDE DEF Old
        <3> QED
            BY <2>1, <2>2, <2>4, <3>1
    <2>5. CASE i # p /\ j # p
        <3>1. Old(i) < Old(j)
            BY <2>5, <1>4
        <3> HIDE DEF Old
        <3> QED
            BY <2>1, <2>5, <3>1 DEF Ascends
    <2> QED
        BY <2>3, <2>4, <2>5
<1> QED
    BY <1>2, <1>4 DEF Ascends

-----------------------------------------------------------------------------
(* What the operations of CoordinateSystem do to such a list.                *)
\* insert: where insertSortedX puts an entity, the order is kept.
LEMMA InsertedIs ==
    ASSUME NEW S \in SUBSET Entities, NEW e \in Entities \ S, NEW at \in Positions,
           NEW list, IsAxis(list, at, S)
    PROVE  IsAxis(Inserted(list, at, e), at, S \cup {e})
<1> DEFINE I == {n \in 1 .. Len(list) : X(at, list[n]) >= X(at, e)}
           p == IF I = {} THEN Len(list) + 1 ELSE Min(I)
<1>1. list \in Seq(S) /\ Len(list) \in Nat /\ Holds(list, S) /\ Ascends(list, at)
    BY DEF IsAxis, Holds
<1>2. I \in SUBSET Nat /\ I \subseteq 1 .. Len(list)
    BY <1>1
<1>3. I # {} => Min(I) \in I /\ \A n \in I : Min(I) <= n
    BY <1>2, MinIs
<1>4. \A f \in Entities : X(at, f) \in Int
    BY DEF X, Positions, Places
<1>5. \A n \in 1 .. Len(list) : X(at, list[n]) \in Int
    BY <1>1, <1>4
<1>6. Inserted(list, at, e) = InsertAt(list, p, e)
    BY <1>2, <1>3 DEF Inserted, SelectInSeq
<1>7. p \in 1 .. Len(list) + 1
    BY <1>1, <1>2, <1>3
<1>8. ASSUME NEW n \in 1 .. Len(list), n < p
      PROVE  X(at, list[n]) <= X(at, e)
    <2>1. n \notin I
        BY <1>2, <1>3, <1>8
    <2> QED
        BY <2>1, <1>4, <1>5
<1>9. ASSUME NEW n \in 1 .. Len(list), n >= p
      PROVE  X(at, e) <= X(at, list[n])
    <2>1. I # {} /\ p \in I /\ p \in 1 .. Len(list)
        BY <1>1, <1>2, <1>3, <1>9
    <2>2. X(at, e) <= X(at, list[p])
        BY <2>1, <1>4, <1>5
    <2>3. p < n => X(at, list[p]) <= X(at, list[n])
        BY <2>1, <1>1 DEF Ascends
    <2>4. X(at, list[n]) \in Int /\ X(at, list[p]) \in Int /\ X(at, e) \in Int /\ p \in Int
        BY <2>1, <1>4, <1>5
    <2> HIDE DEF p, I
    <2> QED
        BY <2>2, <2>3, <2>4, <1>9
<1> HIDE DEF p
<1>10. Holds(InsertAt(list, p, e), S \cup {e})
    BY <1>1, <1>7, InsertAtHolds
<1>11. list \in Seq(Entities) /\ e \in Entities /\ X(at, e) \in Int
    BY <1>1, <1>4
<1>12. Ascends(InsertAt(list, p, e), at)
    BY <1>1, <1>7, <1>8, <1>9, <1>11, InsertAtAscends
<1> QED
    BY <1>6, <1>10, <1>12 DEF IsAxis

\* remove: without an entity, the others are in the order they were in.
LEMMA RemovedIs ==
    ASSUME NEW S \in SUBSET Entities, NEW e \in S, NEW at, NEW list, IsAxis(list, at, S)
    PROVE  IsAxis(RemoveFirst(list, e), at, S \ {e})
<1>1. PICK k : k = Index(list, e)
    OBVIOUS
<1>2. Holds(list, S) /\ Ascends(list, at) /\ list \in Seq(S)
    BY DEF IsAxis, Holds
<1>3. k \in 1 .. Len(list) /\ list[k] = e
    BY <1>1, <1>2, IndexIs
<1>4. RemoveFirst(list, e) = RemoveAt(list, k)
    BY <1>1, <1>3 DEF RemoveFirst, SelectInSeq, Index
<1>5. Holds(RemoveAt(list, k), S \ {e})
    BY <1>2, <1>3, RemoveAtHolds
<1>6. Ascends(RemoveAt(list, k), at)
    BY <1>2, <1>3, RemoveAtAscends
<1> QED
    BY <1>4, <1>5, <1>6 DEF IsAxis

\* update and reposition: wherever an entity has moved, the order is restored.
LEMMA RepositionedIs ==
    ASSUME NEW S \in SUBSET Entities, NEW e \in S, NEW at, NEW now \in Positions,
           \A f \in S \ {e} : now[f] = at[f],
           NEW list, IsAxis(list, at, S)
    PROVE  IsAxis(Repositioned(list, now, e), now, S)
<1>1. PICK k : k = Index(list, e)
    OBVIOUS
<1>2. Holds(list, S) /\ Ascends(list, at) /\ list \in Seq(S) /\ Len(list) \in Nat
    BY DEF IsAxis, Holds
<1>3. k \in 1 .. Len(list) /\ list[k] = e
    BY <1>1, <1>2, IndexIs
<1>4. PICK r : r = RemoveAt(list, k)
    OBVIOUS
<1>5. Holds(r, S \ {e}) /\ r \in Seq(S \ {e}) /\ Len(r) = Len(list) - 1
    <2>1. Holds(r, S \ {e}) /\ Len(r) = Len(list) - 1
        BY <1>2, <1>3, <1>4, RemoveAtHolds
    <2> QED
        BY <2>1 DEF Holds
<1>6. Ascends(r, now)
    <2>1. Ascends(r, at)
        BY <1>2, <1>3, <1>4, RemoveAtAscends
    <2> QED
        BY <2>1, <1>5, AscendsStill
<1> DEFINE I == {n \in 1 .. k - 1 : X(now, r[n]) <= X(now, e)}
           i == IF I = {} THEN 0 ELSE Max(I)
           J == {n \in k .. Len(r) : X(now, r[n]) >= X(now, e)}
           end == IF J = {} THEN Len(r) + 1 ELSE Min(J)
           p == IF i < k - 1 THEN i + 1 ELSE end
<1>7. I # {} => Max(I) \in I /\ \A n \in I : n <= Max(I)
    <2>1. k - 1 \in Nat /\ I \in SUBSET (1 .. k - 1)
        BY <1>3
    <2> HIDE DEF I
    <2> QED
        BY <2>1, MaxIs
<1>8. J # {} => Min(J) \in J /\ \A n \in J : Min(J) <= n
    <2>1. J \in SUBSET Nat
        BY <1>3
    <2> HIDE DEF J
    <2> QED
        BY <2>1, MinIs
<1>9. Repositioned(list, now, e) = InsertAt(r, p, e)
    <2>1. SelectLastInSubSeq(r, 1, k - 1, LAMBDA f : X(now, f) <= X(now, e)) = i
        BY DEF SelectLastInSubSeq
    <2>2. PICK j : j = SelectInSubSeq(r, k, Len(r), LAMBDA f : X(now, f) >= X(now, e))
        OBVIOUS
    <2>3. j = IF J = {} THEN 0 ELSE Min(J)
        BY <2>2 DEF SelectInSubSeq
    <2>4. end = IF j = 0 THEN Len(r) + 1 ELSE j
        BY <2>3, <1>3, <1>8
    <2>5. SelectInSeq(list, LAMBDA f : f = e) = k
        BY <1>1, <1>3 DEF SelectInSeq, Index
    <2> HIDE DEF I, i, J, end
    <2> QED
        BY <2>1, <2>2, <2>4, <2>5, <1>4 DEF Repositioned
<1>10. \A f \in Entities : X(now, f) \in Int
    BY DEF X, Positions, Places
<1>11. \A n \in 1 .. Len(r) : X(now, r[n]) \in Int
    BY <1>5, <1>10
<1>12. /\ i \in 0 .. k - 1 /\ end \in k .. Len(r) + 1
       /\ p \in 1 .. Len(r) + 1
    BY <1>2, <1>3, <1>5, <1>7, <1>8
<1>13. ASSUME NEW n \in 1 .. Len(r), n < p
       PROVE  X(now, r[n]) <= X(now, e)
    <2>1. CASE n <= i
        <3>1. i \in I /\ i \in 1 .. Len(r) /\ X(now, r[i]) <= X(now, e)
            BY <2>1, <1>2, <1>3, <1>5, <1>7
        <3>2. n < i => X(now, r[n]) <= X(now, r[i])
            BY <3>1, <1>6 DEF Ascends
        <3> HIDE DEF i, I
        <3>3. X(now, r[n]) \in Int /\ X(now, r[i]) \in Int /\ X(now, e) \in Int
            BY <3>1, <1>10, <1>11
        <3> QED
            BY <2>1, <3>1, <3>2, <3>3, <1>12
    <2>2. CASE n > i
        <3>1. ~ (i < k - 1)
            <4> HIDE DEF i, end
            <4> QED
                BY <2>2, <1>3, <1>12, <1>13
        <3>2. i = k - 1 /\ n >= k /\ n < end
            <4> HIDE DEF i, end
            <4> QED
                BY <2>2, <3>1, <1>3, <1>12, <1>13
        <3>3. n \notin J
            BY <3>2, <1>5, <1>8
        <3>4. ~ (X(now, r[n]) >= X(now, e))
            BY <3>2, <3>3
        <3> QED
            BY <3>4, <1>10, <1>11
    <2> QED
        BY <2>1, <2>2, <1>12
<1>14. ASSUME NEW n \in 1 .. Len(r), n >= p
       PROVE  X(now, e) <= X(now, r[n])
    <2>1. CASE i < k - 1
        <3>1. i + 1 \in 1 .. Len(r) /\ i + 1 <= n /\ i + 1 \in 1 .. k - 1
            <4> HIDE DEF i, end
            <4>1. k \in Int /\ n \in Int /\ Len(r) \in Int /\ k - 1 <= Len(r)
                BY <1>3, <1>5, <1>2
            <4> QED
                BY <4>1, <2>1, <1>12, <1>14
        <3>2. i + 1 \notin I
            <4>1. CASE I = {}
                BY <4>1
            <4>2. CASE I # {}
                <5>1. i = Max(I) /\ \A m \in I : m <= i
                    BY <4>2, <1>7
                <5> HIDE DEF I, i
                <5> QED
                    BY <5>1, <1>12
            <4> QED
                BY <4>1, <4>2
        <3>3. X(now, e) <= X(now, r[i + 1])
            BY <3>1, <3>2, <1>10, <1>11
        <3>4. i + 1 < n => X(now, r[i + 1]) <= X(now, r[n])
            BY <3>1, <1>6 DEF Ascends
        <3> HIDE DEF i
        <3>5. X(now, r[n]) \in Int /\ X(now, r[i + 1]) \in Int /\ X(now, e) \in Int
            BY <3>1, <1>10, <1>11
        <3> QED
            BY <3>1, <3>3, <3>4, <3>5, <1>12
    <2>2. CASE ~ (i < k - 1)
        <3>1. J # {} /\ end \in J /\ end <= n
            BY <2>2, <1>5, <1>8, <1>12, <1>14
        <3>2. end \in 1 .. Len(r) /\ X(now, e) <= X(now, r[end])
            <4>1. end \in 1 .. Len(r) /\ X(now, r[end]) >= X(now, e)
                <5> HIDE DEF end
                <5> QED
                    BY <3>1, <1>3
            <4> HIDE DEF end
            <4> QED
                BY <4>1, <1>10, <1>11
        <3>3. end < n => X(now, r[end]) <= X(now, r[n])
            BY <3>2, <1>6 DEF Ascends
        <3> HIDE DEF end
        <3>4. X(now, r[n]) \in Int /\ X(now, r[end]) \in Int /\ X(now, e) \in Int
            BY <3>2, <1>10, <1>11
        <3> QED
            BY <3>1, <3>2, <3>3, <3>4
    <2> QED
        BY <2>1, <2>2
<1> HIDE DEF p
<1>15. Holds(InsertAt(r, p, e), S)
    <2>1. Holds(InsertAt(r, p, e), (S \ {e}) \cup {e})
        BY <1>5, <1>12, InsertAtHolds
    <2>2. (S \ {e}) \cup {e} = S
        OBVIOUS
    <2> QED
        BY <2>1, <2>2
<1>16. r \in Seq(Entities) /\ e \in Entities /\ X(now, e) \in Int
    BY <1>5, <1>10
<1>17. Ascends(InsertAt(r, p, e), now)
    BY <1>6, <1>12, <1>13, <1>14, <1>16, InsertAtAscends
<1> QED
    BY <1>9, <1>15, <1>17 DEF IsAxis

\* Who is near is near in X.
LEMMA NearInX ==
    ASSUME NEW a \in Int, NEW b \in Int, NEW r \in Nat,
           Square(a) + Square(b) <= Square(r)
    PROVE  a <= r /\ - r <= a
<1>1. \A n \in Int : Square(n) \in Int /\ Square(n) >= 0
    BY DEF Square
<1>2. Square(a) <= Square(r)
    BY <1>1
<1>3. ASSUME NEW n \in Nat, n > r
      PROVE  Square(n) > Square(r)
    BY <1>3 DEF Square
<1>4. Square(- a) = Square(a)
    BY DEF Square
<1>5. ~ (a > r)
    BY <1>1, <1>2, <1>3
<1>6. ~ (- a > r)
    BY <1>1, <1>2, <1>3, <1>4
<1> QED
    BY <1>5, <1>6

\* entitiesInRange: the walk over a part of the list finds all who are near.
LEMMA InRangeIs ==
    ASSUME NEW S \in SUBSET Entities, NEW at \in Positions, NEW origin \in Places,
           NEW r \in Nat, NEW list, IsAxis(list, at, S)
    PROVE  InRange(list, at, origin, r) = {e \in S : Distance(at[e], origin) <= Square(r)}
<1>1. /\ list \in Seq(S) /\ Len(list) \in Nat /\ Ascends(list, at)
      /\ \A e \in S : \E n \in 1 .. Len(list) : list[n] = e
    BY DEF IsAxis, Holds
<1> DEFINE I == {n \in 1 .. Len(list) : X(at, list[n]) >= origin[1] - r}
           from == IF I = {} THEN 0 ELSE Min(I)
           J == {n \in from .. Len(list) : X(at, list[n]) > origin[1] + r}
           last == IF J = {} THEN Len(list) ELSE Min(J) - 1
           Near(e) == Distance(at[e], origin) <= Square(r)
<1>2. origin[1] \in Int /\ origin[2] \in Int /\ r \in Int
    BY DEF Places
<1>3. \A e \in S : at[e][1] \in Int /\ at[e][2] \in Int /\ X(at, e) = at[e][1]
    BY DEF X, Positions, Places
<1>4. ASSUME NEW n \in 1 .. Len(list)
      PROVE  list[n] \in S /\ X(at, list[n]) \in Int
    <2>1. list[n] \in S
        BY <1>1
    <2> QED
        BY <2>1, <1>3
<1>5. /\ from \in 0 .. Len(list)
      /\ \A n \in 1 .. Len(list) :
            X(at, list[n]) >= origin[1] - r => from # 0 /\ from <= n
    <2>1. I \in SUBSET Nat
        BY <1>1
    <2>2. I # {} => Min(I) \in I /\ \A n \in I : Min(I) <= n
        <3> HIDE DEF I
        <3> QED
            BY <2>1, MinIs
    <2>3. CASE I = {}
        BY <2>3, <1>1
    <2>4. CASE I # {}
        <3>1. from = Min(I) /\ from \in 1 .. Len(list)
            BY <2>2, <2>4
        <3>2. \A n \in 1 .. Len(list) : X(at, list[n]) >= origin[1] - r => from <= n
            BY <2>2, <2>4, <3>1
        <3>3. from # 0 /\ from \in 0 .. Len(list)
            <4> HIDE DEF from
            <4> QED
                BY <3>1
        <3> HIDE DEF from
        <3> QED
            BY <3>2, <3>3
    <2> QED
        BY <2>3, <2>4
<1>6. SelectInSeq(list, LAMBDA f : X(at, f) >= origin[1] - r) = from
    BY DEF SelectInSeq
<1> HIDE DEF I, from
<1>7. J # {} => Min(J) \in J /\ \A n \in J : Min(J) <= n
    <2>1. J \in SUBSET Nat
        BY <1>1, <1>5
    <2> HIDE DEF J
    <2> QED
        BY <2>1, MinIs
<1>8. ASSUME from # 0
      PROVE  /\ last \in from - 1 .. Len(list)
             /\ J # {} => /\ last + 1 \in 1 .. Len(list)
                          /\ X(at, list[last + 1]) > origin[1] + r
    <2>1. from \in 1 .. Len(list)
        BY <1>5, <1>8
    <2>2. CASE J = {}
        <3>1. last = Len(list)
            BY <2>2
        <3> HIDE DEF last, J
        <3>2. Len(list) \in from - 1 .. Len(list)
            BY <2>1
        <3> QED
            BY <2>2, <3>1, <3>2
    <2>3. CASE J # {}
        <3>1. PICK m \in from .. Len(list) : m = Min(J) /\ X(at, list[m]) > origin[1] + r
            BY <2>3, <1>7
        <3>2. last = m - 1
            BY <3>1, <2>3
        <3>3. m \in 1 .. Len(list) /\ last + 1 = m
            BY <2>1, <3>1, <3>2
        <3> HIDE DEF last, J
        <3> QED
            BY <2>1, <3>1, <3>2, <3>3
    <2> QED
        BY <2>2, <2>3
<1>9. InRange(list, at, origin, r) =
        IF from = 0 THEN {} ELSE {e \in ToSet(SubSeq(list, from, last)) : Near(e)}
    <2>1. PICK j : j = SelectInSubSeq(list, from, Len(list), LAMBDA f : X(at, f) > origin[1] + r)
        OBVIOUS
    <2>2. j = IF J = {} THEN 0 ELSE Min(J)
        BY <2>1 DEF SelectInSubSeq
    <2>3. from # 0 => last = IF j = 0 THEN Len(list) ELSE j - 1
        <3>1. CASE J = {}
            BY <3>1, <2>2
        <3>2. CASE J # {}
            <4>1. Min(J) \in from .. Len(list) /\ j = Min(J) /\ last = Min(J) - 1
                BY <3>2, <2>2, <1>7
            <4> HIDE DEF J, last
            <4> QED
                BY <4>1, <1>5
        <3> QED
            BY <3>1, <3>2
    <2> HIDE DEF J, last
    <2> QED
        BY <1>6, <2>1, <2>3 DEF InRange
<1>10. ASSUME NEW n \in 1 .. Len(list), Near(list[n])
       PROVE  from # 0 /\ from <= n /\ n <= last
    <2>1. list[n] \in S
        BY <1>4
    <2>2. PICK p \in Int \X Int : p = at[list[n]]
        BY <2>1 DEF Positions, Places
    <2>3. p[1] \in Int /\ p[2] \in Int /\ X(at, list[n]) = p[1]
        BY <2>2, <2>1, <1>3
    <2>4. p[1] - origin[1] <= r /\ - r <= p[1] - origin[1]
        <3>1. p[1] - origin[1] \in Int /\ p[2] - origin[2] \in Int
            BY <2>3, <1>2
        <3>2. Square(p[1] - origin[1]) + Square(p[2] - origin[2]) <= Square(r)
            BY <2>2, <1>10 DEF Distance
        <3> QED
            BY <3>1, <3>2, NearInX
    <2>5. X(at, list[n]) >= origin[1] - r /\ ~ (X(at, list[n]) > origin[1] + r)
        BY <2>3, <2>4, <1>2
    <2>6. from # 0 /\ from <= n
        BY <2>5, <1>5
    <2>7. CASE J = {}
        BY <2>6, <2>7, <1>1
    <2>8. CASE J # {}
        <3>1. PICK m \in 1 .. Len(list) : m = last + 1 /\ X(at, list[m]) > origin[1] + r
            BY <2>6, <2>8, <1>8
        <3>2. m < n => X(at, list[m]) <= X(at, list[n])
            BY <1>1 DEF Ascends
        <3>3. X(at, list[m]) \in Int /\ X(at, list[n]) \in Int /\ last \in Int
            BY <1>4, <1>8, <2>6
        <3>4. m # n
            BY <2>5, <3>1
        <3> HIDE DEF last
        <3> QED
            BY <2>5, <2>6, <3>1, <3>2, <3>3, <3>4, <1>2
    <2> QED
        BY <2>7, <2>8
<1>11. ASSUME from # 0
       PROVE  /\ ToSet(SubSeq(list, from, last)) \subseteq S
              /\ \A n \in from .. last : list[n] \in ToSet(SubSeq(list, from, last))
    <2>1. from \in 1 .. Len(list) /\ last \in from - 1 .. Len(list)
        BY <1>5, <1>8, <1>11
    <2> HIDE DEF last
    <2>2. PICK q : q = SubSeq(list, from, last)
        OBVIOUS
    <2>3. /\ q \in Seq(S)
          /\ Len(q) = last - from + 1
          /\ \A n \in 1 .. last - from + 1 : q[n] = list[from + n - 1]
        <3>1. /\ from \in Int /\ last \in Int /\ 1 <= from /\ from <= last + 1
              /\ last <= Len(list)
            BY <2>1
        <3>2. CASE from <= last
            <4>1. from \in 1 .. Len(list) /\ last \in from .. Len(list)
                BY <3>1, <3>2
            <4>2. list \in Seq(S)
                BY <1>1
            <4>3. \A u, v \in 1 .. Len(list) : u <= v =>
                    /\ SubSeq(list, u, v) \in Seq(S)
                    /\ Len(SubSeq(list, u, v)) = v - u + 1
                    /\ \A n \in 1 .. v - u + 1 : SubSeq(list, u, v)[n] = list[u + n - 1]
                BY <4>2
            <4> QED
                BY <4>1, <4>3, <2>2
        <3>3. CASE from > last
            BY <3>1, <3>3, <2>2, <1>1
        <3> QED
            BY <3>1, <3>2, <3>3
    <2>4. ToSet(q) \subseteq S
        BY <2>3 DEF ToSet
    <2>5. ASSUME NEW n \in from .. last
          PROVE  list[n] \in ToSet(q)
        <3>1. /\ n - from + 1 \in 1 .. last - from + 1 /\ from + (n - from + 1) - 1 = n
              /\ n - from + 1 \in 1 .. Len(q)
            BY <2>1, <2>3
        <3>2. q[n - from + 1] = list[n]
            BY <3>1, <2>3
        <3> QED
            BY <3>1, <3>2, <2>3 DEF ToSet
    <2> QED
        BY <2>2, <2>4, <2>5
<1>12. ASSUME NEW e \in S, Near(e)
       PROVE  e \in InRange(list, at, origin, r)
    <2>1. PICK n \in 1 .. Len(list) : list[n] = e
        BY <1>1
    <2>2. from # 0 /\ from <= n /\ n <= last
        BY <2>1, <1>10, <1>12
    <2>3. from \in Int /\ last \in Int
        BY <2>2, <1>5, <1>8
    <2> HIDE DEF last, Near
    <2>4. e \in ToSet(SubSeq(list, from, last))
        BY <2>1, <2>2, <2>3, <1>11
    <2> QED
        BY <2>2, <2>4, <1>9, <1>12
<1>13. ASSUME NEW e \in InRange(list, at, origin, r)
       PROVE  e \in S /\ Near(e)
    <2> HIDE DEF last, Near
    <2> QED
        BY <1>9, <1>11
<1> QED
    BY <1>12, <1>13

-----------------------------------------------------------------------------
(* The entities that move in one tick.                                       *)
\* The first m of them have moved.
Start == [at |-> position, axis |-> axis]
IsRun(f, order, to, m) ==
    /\ DOMAIN f = 0 .. m /\ f[0] = Start
    /\ \A n \in 1 .. m : f[n] = Updated(f[n - 1], order[n], to[order[n]])

LEMMA RunExists ==
    ASSUME NEW order, NEW to
    PROVE  \A m \in Nat : \E f : IsRun(f, order, to, m)
<1> DEFINE T == {m \in Nat : ~ \E f : IsRun(f, order, to, m)}
<1>1. SUFFICES ASSUME T # {} PROVE FALSE
    OBVIOUS
<1>2. PICK m \in T : \A k \in T : m <= k
    <2>1. T \in SUBSET Nat
        OBVIOUS
    <2> HIDE DEF T
    <2> QED
        BY <2>1, <1>1, LeastNatural
<1>3. m # 0
    <2>1. IsRun([n \in 0 .. 0 |-> Start], order, to, 0)
        BY DEF IsRun
    <2> QED
        BY <2>1
<1>4. m - 1 \in Nat /\ m - 1 \notin T
    BY <1>2, <1>3
<1>5. PICK f : IsRun(f, order, to, m - 1)
    BY <1>4
<1> DEFINE g == [n \in 0 .. m |-> IF n < m THEN f[n]
                                 ELSE Updated(f[m - 1], order[m], to[order[m]])]
<1>6. IsRun(g, order, to, m)
    <2>1. DOMAIN g = 0 .. m /\ g[0] = Start
        BY <1>3, <1>5 DEF IsRun
    <2>2. ASSUME NEW n \in 1 .. m
          PROVE  g[n] = Updated(g[n - 1], order[n], to[order[n]])
        <3>1. g[n - 1] = f[n - 1]
            OBVIOUS
        <3>2. CASE n < m
            BY <3>1, <3>2, <1>5 DEF IsRun
        <3>3. CASE n = m
            BY <3>1, <3>3
        <3> QED
            BY <3>2, <3>3
    <2> QED
        BY <2>1, <2>2 DEF IsRun
<1> QED
    BY <1>6

\* Steps is such a run.
LEMMA StepsRun ==
    ASSUME NEW order, Len(order) \in Nat, NEW to
    PROVE  IsRun(Steps(order, to), order, to, Len(order))
<1> DEFINE Body(f) == [n \in 0 .. Len(order) |->
                        IF n = 0 THEN [at |-> position, axis |-> axis]
                        ELSE Updated(f[n - 1], order[n], to[order[n]])]
<1>1. PICK f : IsRun(f, order, to, Len(order))
    BY RunExists
<1> DEFINE g == [n \in 0 .. Len(order) |-> f[n]]
<1>2. g = Body(g)
    BY <1>1 DEF IsRun, Start
<1>3. Steps(order, to) = CHOOSE h : h = Body(h)
    BY DEF Steps
<1> HIDE DEF Body, g
<1>4. Steps(order, to) = Body(Steps(order, to))
    BY <1>2, <1>3
<1> QED
    BY <1>4 DEF Body, IsRun, Start

-----------------------------------------------------------------------------
(* All lists of the CellApp.                                                 *)
Members(s) == {e \in Entities : space[e] = s}
AreAxes(b) ==
    /\ b.at \in [Entities -> Points] /\ b.axis \in [Spaces -> Seq(Entities)]
    /\ \A s \in Spaces : IsAxis(b.axis[s], b.at, Members(s))

LEMMA PointsArePlaces ==
    [Entities -> Points] \subseteq Positions
    BY SpacesAssumption DEF Positions, Places

\* A member of a space is not in the list of another one.
LEMMA StillAnAxis ==
    ASSUME NEW S \in SUBSET Entities, NEW at, NEW now, NEW list, IsAxis(list, at, S),
           \A f \in S : now[f] = at[f]
    PROVE  IsAxis(list, now, S)
<1>1. list \in Seq(S) /\ Ascends(list, at)
    BY DEF IsAxis, Holds
<1>2. Ascends(list, now)
    BY <1>1, AscendsStill
<1> QED
    BY <1>2 DEF IsAxis

\* One entity moves, and all lists are in order again.
LEMMA UpdatedIs ==
    ASSUME NEW b, AreAxes(b), NEW e \in Entities, space[e] \in Spaces, NEW p \in Points
    PROVE  /\ AreAxes(Updated(b, e, p))
           /\ Updated(b, e, p).at = [b.at EXCEPT ![e] = p]
<1> DEFINE now == [b.at EXCEPT ![e] = p]
           home == space[e]
           after == [b.axis EXCEPT ![home] = Repositioned(b.axis[home], now, e)]
<1>1. b.at \in [Entities -> Points] /\ b.axis \in [Spaces -> Seq(Entities)]
    BY DEF AreAxes
<1>2. now \in [Entities -> Points] /\ now \in Positions /\ \A f \in Entities \ {e} : now[f] = b.at[f]
    BY <1>1, PointsArePlaces
<1>3. Updated(b, e, p) = [at |-> now, axis |-> after]
    BY DEF Updated
<1>4. IsAxis(Repositioned(b.axis[home], now, e), now, Members(home))
    <2>1. /\ IsAxis(b.axis[home], b.at, Members(home)) /\ e \in Members(home)
          /\ Members(home) \in SUBSET Entities
        BY DEF AreAxes, Members
    <2>2. \A f \in Members(home) \ {e} : now[f] = b.at[f]
        BY <1>2, <2>1
    <2> HIDE DEF now, home
    <2> QED
        BY <2>1, <2>2, <1>2, RepositionedIs
<1>5. after[home] = Repositioned(b.axis[home], now, e)
    BY <1>1
<1>6. ASSUME NEW s \in Spaces
      PROVE  IsAxis(after[s], now, Members(s))
    <2>1. CASE s = home
        BY <2>1, <1>4, <1>5
    <2>2. CASE s # home
        <3>1. after[s] = b.axis[s]
            BY <2>2, <1>1
        <3>2. IsAxis(b.axis[s], b.at, Members(s))
            BY DEF AreAxes
        <3>3. Members(s) \in SUBSET Entities /\ e \notin Members(s)
            BY <2>2 DEF Members
        <3>4. \A f \in Members(s) : now[f] = b.at[f]
            BY <3>3, <1>2
        <3> HIDE DEF now, after
        <3>5. IsAxis(b.axis[s], now, Members(s))
            BY <3>2, <3>3, <3>4, StillAnAxis
        <3> QED
            BY <3>1, <3>5
    <2> QED
        BY <2>1, <2>2
<1>7. after \in [Spaces -> Seq(Entities)]
    <2>1. Members(home) \in SUBSET Entities
        BY DEF Members
    <2>2. Repositioned(b.axis[home], now, e) \in Seq(Members(home))
        BY <1>4 DEF IsAxis, Holds
    <2>3. Repositioned(b.axis[home], now, e) \in Seq(Entities)
        BY <2>1, <2>2
    <2> QED
        BY <2>3, <1>1
<1>8. Updated(b, e, p).at = now /\ Updated(b, e, p).axis = after
    <2> HIDE DEF now, after
    <2> QED
        BY <1>3
<1>9. AreAxes(Updated(b, e, p))
    <2> HIDE DEF now, after
    <2> QED
        BY <1>2, <1>6, <1>7, <1>8 DEF AreAxes
<1> QED
    BY <1>8, <1>9

\* applyVelocity: all who move have moved, nobody else has, and all lists are in
\* order again.
LEMMA MovedIs ==
    ASSUME AreAxes(Start), NEW movers \in SUBSET Entities,
           \A e \in movers : space[e] \in Spaces,
           NEW to \in [movers -> Points]
    PROVE  /\ AreAxes(Moved(movers, to))
           /\ \A e \in Entities :
                Moved(movers, to).at[e] = IF e \in movers THEN to[e] ELSE position[e]
<1> DEFINE k == Cardinality(movers)
           order == SetToSeq(movers)
           f == Steps(order, to)
           P(n) == /\ AreAxes(f[n])
                   /\ \A e \in Entities : f[n].at[e] =
                        IF \E i \in 1 .. n : order[i] = e THEN to[e] ELSE position[e]
           T == {n \in Nat : n <= k /\ ~ P(n)}
<1>1. IsFiniteSet(movers)
    <2>1. IsFiniteSet(Entities)
        BY SpacesAssumption, FS_Union DEF Entities
    <2> QED
        BY <2>1, FS_Subset
<1>2. /\ k \in Nat /\ order \in [1 .. k -> movers]
      /\ \A e \in movers : \E i \in 1 .. k : order[i] = e
    BY <1>1, SetToSeqIs
<1>3. Len(order) = k
    BY <1>2
<1>4. IsRun(f, order, to, k)
    BY <1>2, <1>3, StepsRun
<1> HIDE DEF k, order, f
<1>5. P(0)
    <2>1. f[0] = Start
        BY <1>4 DEF IsRun
    <2>2. \A e \in Entities : ~ \E i \in 1 .. 0 : order[i] = e
        OBVIOUS
    <2> QED
        BY <2>1, <2>2 DEF Start
<1>6. ASSUME NEW n \in Nat, n # 0, n <= k, P(n - 1)
      PROVE  P(n)
    <2>1. PICK e : e = order[n]
        OBVIOUS
    <2>2. n \in 1 .. k
        BY <1>2, <1>6
    <2>3. e \in movers /\ e \in Entities /\ space[e] \in Spaces /\ to[e] \in Points
        BY <2>1, <2>2, <1>2
    <2>4. f[n] = Updated(f[n - 1], e, to[e])
        BY <2>1, <2>2, <1>4 DEF IsRun
    <2>5. AreAxes(f[n - 1])
        BY <1>6
    <2>6. AreAxes(f[n]) /\ f[n].at = [f[n - 1].at EXCEPT ![e] = to[e]]
        BY <2>3, <2>4, <2>5, UpdatedIs
    <2>7. DOMAIN f[n - 1].at = Entities
        BY <2>5 DEF AreAxes
    <2>8. ASSUME NEW d \in Entities
          PROVE  f[n].at[d] = IF \E i \in 1 .. n : order[i] = d THEN to[d] ELSE position[d]
        <3>1. CASE d = e
            <4>1. \E i \in 1 .. n : order[i] = d
                BY <2>1, <2>2, <3>1
            <4> QED
                BY <4>1, <3>1, <2>6, <2>7
        <3>2. CASE d # e
            <4>1. f[n].at[d] = f[n - 1].at[d]
                BY <3>2, <2>6, <2>7
            <4>2. (\E i \in 1 .. n : order[i] = d) <=> \E i \in 1 .. n - 1 : order[i] = d
                BY <3>2, <2>1, <2>2
            <4>3. f[n - 1].at[d] =
                    IF \E i \in 1 .. n - 1 : order[i] = d THEN to[d] ELSE position[d]
                BY <1>6
            <4> QED
                BY <4>1, <4>2, <4>3
        <3> QED
            BY <3>1, <3>2
    <2> QED
        BY <2>6, <2>8
<1>7. T = {}
    <2> SUFFICES ASSUME T # {} PROVE FALSE
        OBVIOUS
    <2>1. PICK n \in T : \A m \in T : n <= m
        <3>1. T \in SUBSET Nat
            OBVIOUS
        <3> HIDE DEF T
        <3> QED
            BY <3>1, LeastNatural
    <2>2. n \in Nat /\ n <= k /\ ~ P(n)
        BY <2>1
    <2> HIDE DEF P
    <2>3. n # 0
        BY <2>2, <1>5
    <2>4. n - 1 \in Nat /\ n - 1 <= k /\ ~ (n <= n - 1)
        BY <2>2, <2>3, <1>2
    <2>5. P(n - 1)
        BY <2>1, <2>4
    <2> QED
        BY <2>2, <2>3, <2>5, <1>6
<1>8. P(k)
    <2> HIDE DEF P
    <2> QED
        BY <1>2, <1>7
<1>9. Moved(movers, to) = f[k]
    BY DEF Moved, f, k, order
<1>10. \A e \in Entities : (\E i \in 1 .. k : order[i] = e) <=> e \in movers
    BY <1>2
<1> QED
    BY <1>8, <1>9, <1>10

-----------------------------------------------------------------------------
(* The invariant.                                                            *)
Typed ==
    /\ phase \in {"Network", "Script"} /\ ops \in 0 .. MaxOps
    /\ spaces \subseteq Spaces /\ space \in [Entities -> Spaces \cup {Nowhere}]
    /\ held \subseteq Npcs /\ born \subseteq Avatars
    /\ witness \in [Avatars -> Witnesses \cup {Nowhere}]
    /\ back \subseteq Avatars \X Entities

\* Who is in a space has been created, and who watches is in one.
Present ==
    /\ \A e \in Entities : space[e] # Nowhere => e \in held \cup born
    /\ \A o \in Avatars : Sees(o) => space[o] # Nowhere

\* A trigger does not look at its own entity; its witness has reported as entered,
\* and not as left, who is inside, in its space, and has not been away.
Reported(o) ==
    /\ o \notin witness[o].inside
    /\ witness[o].entries =
            {e \in witness[o].inside : space[e] = space[o] /\ <<o, e>> \notin back}

\* Who came back unnoticed is still inside.
Unnoticed == \A b \in back : Sees(b[1]) /\ b[2] \in witness[b[1]].inside

\* Who is inside when the triggers have looked.
Seen(o) ==
    {e \in Entities \ {o} :
        space[e] = space[o] /\ Distance(position[e], position[o]) <= Square(witness[o].range)}
Looked == phase = "Script" /\ ops = 0 => \A o \in Avatars : Sees(o) => witness[o].inside = Seen(o)

WitnessesAreSound == (\A o \in Avatars : Sees(o) => Reported(o)) /\ Unnoticed /\ Looked

Inv == Typed /\ Present /\ AreAxes(Start) /\ WitnessesAreSound

-----------------------------------------------------------------------------
(* What the operations of Witness and RangeTrigger do.                       *)
\* What is put into the event queue is an event for each of them.
LEMMA EventsAre ==
    ASSUME NEW es \in SUBSET Entities, NEW kind \in {"enter", "leave"}
    PROVE  /\ SetToSeq({Event(kind, e) : e \in es}) \in Seq(Events)
           /\ ToSet(SetToSeq({Event(kind, e) : e \in es})) = {Event(kind, e) : e \in es}
<1> DEFINE T == {Event(kind, e) : e \in es}
           f == [e \in es |-> Event(kind, e)]
<1>1. IsFiniteSet(es)
    <2>1. IsFiniteSet(Entities)
        BY SpacesAssumption, FS_Union DEF Entities
    <2> QED
        BY <2>1, FS_Subset
<1>2. f \in Surjection(es, T)
    BY DEF Surjection
<1>3. IsFiniteSet(T)
    <2> HIDE DEF f, T
    <2> QED
        BY <1>1, <1>2, FS_Surjection
<1>4. T \subseteq Events
    BY DEF Event, Events
<1> HIDE DEF T
<1>5. /\ Cardinality(T) \in Nat /\ SetToSeq(T) \in [1 .. Cardinality(T) -> T]
      /\ \A v \in T : \E i \in 1 .. Cardinality(T) : SetToSeq(T)[i] = v
    BY <1>3, SetToSeqIs
<1>6. SetToSeq(T) \in Seq(T)
    BY <1>5
<1>7. SetToSeq(T) \in Seq(Events)
    BY <1>4, <1>6
<1>8. ToSet(SetToSeq(T)) = T
    BY <1>5 DEF ToSet
<1> QED
    BY <1>7, <1>8 DEF T

\* onEnterView and onLeaveView.
LEMMA EnteredIs ==
    ASSUME NEW w \in Witnesses, NEW es \in SUBSET Entities
    PROVE  /\ Entered(w, es) \in Witnesses
           /\ Entered(w, es).entries = w.entries \cup es
           /\ Entered(w, es).events = w.events \o SetToSeq({Event("enter", e) : e \in es})
           /\ Entered(w, es).inside = w.inside /\ Entered(w, es).range = w.range
<1>1. PICK q \in Seq(Events) : q = SetToSeq({Event("enter", e) : e \in es})
    BY EventsAre
<1>2. PICK v : v = [w EXCEPT !.entries = w.entries \cup es]
    OBVIOUS
<1>3. Entered(w, es) = [v EXCEPT !.events = w.events \o q]
    BY <1>1, <1>2 DEF Entered
<1>4. /\ v \in Witnesses /\ v.entries = w.entries \cup es
      /\ v.inside = w.inside /\ v.range = w.range
    BY <1>2 DEF Witnesses
<1>5. w.events \o q \in Seq(Events)
    BY DEF Witnesses
<1> QED
    BY <1>1, <1>3, <1>4, <1>5 DEF Witnesses

LEMMA LeftIs ==
    ASSUME NEW w \in Witnesses, NEW es \in SUBSET Entities
    PROVE  /\ Left(w, es) \in Witnesses
           /\ Left(w, es).entries = w.entries \ es
           /\ Left(w, es).events = w.events \o SetToSeq({Event("leave", e) : e \in es})
           /\ Left(w, es).inside = w.inside /\ Left(w, es).range = w.range
<1>1. PICK q \in Seq(Events) : q = SetToSeq({Event("leave", e) : e \in es})
    BY EventsAre
<1>2. PICK v : v = [w EXCEPT !.entries = w.entries \ es]
    OBVIOUS
<1>3. Left(w, es) = [v EXCEPT !.events = w.events \o q]
    BY <1>1, <1>2 DEF Left
<1>4. /\ v \in Witnesses /\ v.entries = w.entries \ es
      /\ v.inside = w.inside /\ v.range = w.range
    BY <1>2 DEF Witnesses
<1>5. w.events \o q \in Seq(Events)
    BY DEF Witnesses
<1> QED
    BY <1>1, <1>3, <1>4, <1>5 DEF Witnesses

\* refresh: who is near is inside; of the entities of this space, those inside
\* before that are not near leave.
Close(S, at, o, radius) == {e \in S : Distance(at[e], at[o]) <= Square(radius)} \ {o}
Remain(w, near, S) == (w.entries \cup (near \ w.inside)) \ ((w.inside \ near) \cap S)

LEMMA RefreshedIs ==
    ASSUME NEW S \in SUBSET Entities, NEW at \in Positions, NEW list, IsAxis(list, at, S),
           NEW w \in Witnesses, NEW o \in Avatars
    PROVE  /\ Refreshed(w, o, list, at) \in Witnesses
           /\ Refreshed(w, o, list, at).range = w.range
           /\ Refreshed(w, o, list, at).inside = Close(S, at, o, w.range)
           /\ Refreshed(w, o, list, at).entries = Remain(w, Close(S, at, o, w.range), S)
           /\ \E new, gone \in SUBSET Entities :
                /\ Refreshed(w, o, list, at).entries = Left(Entered(w, new), gone).entries
                /\ Refreshed(w, o, list, at).events = Left(Entered(w, new), gone).events
<1>1. PICK near : near = Close(S, at, o, w.range)
    OBVIOUS
<1>2. near \subseteq Entities
    BY <1>1 DEF Close
<1>3. InRange(list, at, at[o], w.range) \ {o} = near
    <2>1. at[o] \in Places /\ w.range \in Nat
        BY SpacesAssumption DEF Positions, Witnesses, Entities
    <2>2. InRange(list, at, at[o], w.range) = {e \in S : Distance(at[e], at[o]) <= Square(w.range)}
        BY <2>1, InRangeIs
    <2> QED
        BY <2>2, <1>1 DEF Close
<1>4. ToSet(list) = S
    BY HoldsExactly DEF IsAxis
<1>5. PICK new : new = near \ w.inside
    OBVIOUS
<1>6. PICK gone : gone = (w.inside \ near) \cap S
    OBVIOUS
<1>7. PICK v : v = Entered(w, new)
    OBVIOUS
<1>8. PICK u : u = Left(v, gone)
    OBVIOUS
<1>9. v \in Witnesses /\ v.entries = w.entries \cup new /\ v.range = w.range
    BY <1>2, <1>5, <1>7, EnteredIs
<1>10. u \in Witnesses /\ u.entries = v.entries \ gone /\ u.range = v.range
    <2>1. gone \in SUBSET Entities
        BY <1>6
    <2> QED
        BY <2>1, <1>8, <1>9, LeftIs
<1>11. Refreshed(w, o, list, at) = [u EXCEPT !.inside = near]
    BY <1>3, <1>4, <1>5, <1>6, <1>7, <1>8 DEF Refreshed
<1>12. /\ [u EXCEPT !.inside = near] \in Witnesses /\ [u EXCEPT !.inside = near].inside = near
       /\ [u EXCEPT !.inside = near].range = u.range
       /\ [u EXCEPT !.inside = near].entries = u.entries
       /\ [u EXCEPT !.inside = near].events = u.events
    BY <1>2, <1>10 DEF Witnesses
<1>13. PICK r : r = Refreshed(w, o, list, at)
    OBVIOUS
<1>14. /\ r \in Witnesses /\ r.range = w.range /\ r.inside = near
       /\ r.entries = Remain(w, near, S)
    BY <1>5, <1>6, <1>9, <1>10, <1>11, <1>12, <1>13 DEF Remain
<1>15. \E a, b \in SUBSET Entities :
            r.entries = Left(Entered(w, a), b).entries /\ r.events = Left(Entered(w, a), b).events
    <2>1. new \in SUBSET Entities /\ gone \in SUBSET Entities /\ u = Left(Entered(w, new), gone)
        BY <1>2, <1>5, <1>6, <1>7, <1>8
    <2>2. r.entries = u.entries /\ r.events = u.events
        BY <1>11, <1>12, <1>13
    <2> QED
        BY <2>1, <2>2
<1> QED
    BY <1>1, <1>13, <1>14, <1>15

-----------------------------------------------------------------------------
(* The lists after a step.                                                   *)
\* They are lists in order if each is.
LEMMA AxesNext ==
    ASSUME position' \in [Entities -> Points], axis' = [s \in Spaces |-> axis'[s]],
           \A s \in Spaces : IsAxis(axis'[s], position', {e \in Entities : space'[e] = s})
    PROVE  AreAxes(Start)'
<1>1. ASSUME NEW s \in Spaces
      PROVE  axis'[s] \in Seq(Entities)
    <2>1. PICK M : M = {e \in Entities : space'[e] = s}
        OBVIOUS
    <2>2. axis'[s] \in Seq(M) /\ M \subseteq Entities
        BY <2>1 DEF IsAxis, Holds
    <2> QED
        BY <2>2
<1>2. axis' \in [Spaces -> Seq(Entities)]
    BY <1>1
<1> QED
    BY <1>2 DEF AreAxes, Start, Members

\* An entity that is given another position is taken out of its list, and put
\* into another one; the rest stay in order.
LEMMA AnotherPosition ==
    ASSUME AreAxes(Start), NEW e \in Entities, NEW at \in [Entities -> Points],
           \A f \in Entities \ {e} : at[f] = position[f], NEW s \in Spaces
    PROVE  /\ e \in Members(s) => IsAxis(RemoveFirst(axis[s], e), at, Members(s) \ {e})
           /\ e \notin Members(s) =>
                /\ IsAxis(axis[s], at, Members(s))
                /\ IsAxis(Inserted(axis[s], at, e), at, Members(s) \cup {e})
<1>1. IsAxis(axis[s], position, Members(s)) /\ Members(s) \in SUBSET Entities
    BY DEF AreAxes, Start, Members
<1>2. ASSUME e \in Members(s)
      PROVE  IsAxis(RemoveFirst(axis[s], e), at, Members(s) \ {e})
    <2>1. IsAxis(RemoveFirst(axis[s], e), position, Members(s) \ {e})
        BY <1>1, <1>2, RemovedIs
    <2>2. /\ Members(s) \ {e} \in SUBSET Entities
          /\ \A f \in Members(s) \ {e} : at[f] = position[f]
        BY <1>1
    <2> QED
        BY <2>1, <2>2, StillAnAxis
<1>3. ASSUME e \notin Members(s)
      PROVE  /\ IsAxis(axis[s], at, Members(s))
             /\ IsAxis(Inserted(axis[s], at, e), at, Members(s) \cup {e})
    <2>1. \A f \in Members(s) : at[f] = position[f]
        BY <1>1, <1>3
    <2>2. IsAxis(axis[s], at, Members(s))
        BY <1>1, <2>1, StillAnAxis
    <2>3. at \in Positions /\ e \in Entities \ Members(s)
        BY <1>3, PointsArePlaces
    <2> QED
        BY <1>1, <2>2, <2>3, InsertedIs
<1> QED
    BY <1>2, <1>3

\* addEntity
LEMMA AddedAxes ==
    ASSUME Typed, AreAxes(Start), NEW e \in Entities, space[e] = Nowhere,
           NEW s \in Spaces, NEW p \in Points, Added(e, s, p)
    PROVE  AreAxes(Start)'
<1> DEFINE at == [position EXCEPT ![e] = p]
<1>1. /\ position \in [Entities -> Points] /\ axis \in [Spaces -> Seq(Entities)]
      /\ space \in [Entities -> Spaces \cup {Nowhere}]
    BY DEF AreAxes, Start, Typed
<1>2. /\ space' = [space EXCEPT ![e] = s] /\ position' = at
      /\ axis' = [axis EXCEPT ![s] = Inserted(axis[s], at, e)]
    BY DEF Added
<1>3. at \in [Entities -> Points] /\ \A f \in Entities \ {e} : at[f] = position[f]
    BY <1>1
<1>4. ASSUME NEW t \in Spaces
      PROVE  IsAxis(axis'[t], at, {f \in Entities : space'[f] = t})
    <2>1. e \notin Members(t)
        BY SpacesAssumption DEF Members
    <2> HIDE DEF at
    <2>2. IsAxis(axis[t], at, Members(t)) /\ IsAxis(Inserted(axis[t], at, e), at, Members(t) \cup {e})
        BY <2>1, <1>3, AnotherPosition
    <2>3. CASE t = s
        <3>1. axis'[t] = Inserted(axis[t], at, e)
            BY <1>1, <1>2, <2>3
        <3>2. {f \in Entities : space'[f] = t} = Members(t) \cup {e}
            BY <1>1, <1>2, <2>3 DEF Members
        <3> QED
            BY <2>2, <3>1, <3>2
    <2>4. CASE t # s
        <3>1. axis'[t] = axis[t]
            BY <1>1, <1>2, <2>4
        <3>2. {f \in Entities : space'[f] = t} = Members(t)
            BY <1>1, <1>2, <2>1, <2>4 DEF Members
        <3> QED
            BY <2>2, <3>1, <3>2
    <2> QED
        BY <2>3, <2>4
<1>5. axis' = [t \in Spaces |-> axis'[t]]
    BY <1>1, <1>2
<1> HIDE DEF at
<1> QED
    BY <1>2, <1>3, <1>4, <1>5, AxesNext

\* removeEntity
LEMMA RemovedAxes ==
    ASSUME Typed, AreAxes(Start), NEW e \in Entities, Removed(e), position' = position
    PROVE  AreAxes(Start)'
<1>1. /\ position \in [Entities -> Points] /\ axis \in [Spaces -> Seq(Entities)]
      /\ space \in [Entities -> Spaces \cup {Nowhere}]
    BY DEF AreAxes, Start, Typed
<1>2. CASE space[e] = Nowhere
    BY <1>2 DEF Removed, AreAxes, Start, Members
<1>3. CASE space[e] # Nowhere
    <2>1. /\ space' = [space EXCEPT ![e] = Nowhere]
          /\ axis' = [axis EXCEPT ![space[e]] = RemoveFirst(axis[space[e]], e)]
        BY <1>3 DEF Removed
    <2>2. ASSUME NEW t \in Spaces
          PROVE  IsAxis(axis'[t], position, {f \in Entities : space'[f] = t})
        <3>1. /\ e \in Members(t) => IsAxis(RemoveFirst(axis[t], e), position, Members(t) \ {e})
              /\ e \notin Members(t) => IsAxis(axis[t], position, Members(t))
            BY <1>1, AnotherPosition
        <3>2. {f \in Entities : space'[f] = t} = Members(t) \ {e}
            BY <1>1, <2>1, SpacesAssumption DEF Members
        <3>3. CASE t = space[e]
            <4>1. axis'[t] = RemoveFirst(axis[t], e) /\ e \in Members(t)
                BY <1>1, <2>1, <3>3 DEF Members
            <4> QED
                BY <3>1, <3>2, <4>1
        <3>4. CASE t # space[e]
            <4>1. axis'[t] = axis[t] /\ e \notin Members(t)
                BY <1>1, <2>1, <3>4 DEF Members
            <4>2. Members(t) \ {e} = Members(t)
                BY <4>1
            <4> QED
                BY <3>1, <3>2, <4>1, <4>2
        <3> QED
            BY <3>3, <3>4
    <2>3. axis' = [t \in Spaces |-> axis'[t]]
        BY <1>1, <2>1
    <2> QED
        BY <1>1, <2>2, <2>3, AxesNext
<1> QED
    BY <1>2, <1>3

\* teleportEntity
LEMMA TeleportAxes ==
    ASSUME Typed, AreAxes(Start), NEW e \in Entities, NEW s \in Spaces, NEW p \in Points,
           TeleportEntity(e, s, p)
    PROVE  AreAxes(Start)'
<1> DEFINE at == [position EXCEPT ![e] = p]
<1>1. /\ position \in [Entities -> Points] /\ axis \in [Spaces -> Seq(Entities)]
      /\ space \in [Entities -> Spaces \cup {Nowhere}]
    BY DEF AreAxes, Start, Typed
<1>2. space[e] \in Spaces /\ space[e] # s
    BY <1>1 DEF TeleportEntity
<1>3. /\ space' = [space EXCEPT ![e] = s] /\ position' = at
      /\ axis' = [axis EXCEPT ![space[e]] = RemoveFirst(axis[space[e]], e),
                              ![s] = Inserted(axis[s], at, e)]
    BY <1>1, <1>2 DEF TeleportEntity
<1>4. at \in [Entities -> Points] /\ \A f \in Entities \ {e} : at[f] = position[f]
    BY <1>1
<1>5. ASSUME NEW t \in Spaces
      PROVE  IsAxis(axis'[t], at, {f \in Entities : space'[f] = t})
    <2> HIDE DEF at
    <2>1. /\ e \in Members(t) => IsAxis(RemoveFirst(axis[t], e), at, Members(t) \ {e})
          /\ e \notin Members(t) => /\ IsAxis(axis[t], at, Members(t))
                                   /\ IsAxis(Inserted(axis[t], at, e), at, Members(t) \cup {e})
        BY <1>4, AnotherPosition
    <2>2. CASE t = s
        <3>1. axis'[t] = Inserted(axis[t], at, e) /\ e \notin Members(t)
            BY <1>1, <1>2, <1>3, <2>2 DEF Members
        <3>2. {f \in Entities : space'[f] = t} = Members(t) \cup {e}
            BY <1>1, <1>3, <2>2 DEF Members
        <3> QED
            BY <2>1, <3>1, <3>2
    <2>3. CASE t = space[e]
        <3>1. axis'[t] = RemoveFirst(axis[t], e) /\ e \in Members(t)
            BY <1>1, <1>2, <1>3, <2>3 DEF Members
        <3>2. {f \in Entities : space'[f] = t} = Members(t) \ {e}
            BY <1>1, <1>2, <1>3, <2>3 DEF Members
        <3> QED
            BY <2>1, <3>1, <3>2
    <2>4. CASE t # s /\ t # space[e]
        <3>1. axis'[t] = axis[t] /\ e \notin Members(t)
            BY <1>1, <1>2, <1>3, <2>4 DEF Members
        <3>2. {f \in Entities : space'[f] = t} = Members(t)
            BY <1>1, <1>3, <2>4 DEF Members
        <3> QED
            BY <2>1, <3>1, <3>2
    <2> QED
        BY <2>2, <2>3, <2>4
<1>6. axis' = [t \in Spaces |-> axis'[t]]
    BY <1>1, <1>3
<1> HIDE DEF at
<1> QED
    BY <1>3, <1>4, <1>5, <1>6, AxesNext

\* destroySpace
LEMMA DestroyedAxes ==
    ASSUME Typed, AreAxes(Start), NEW s \in Spaces, DestroySpace(s)
    PROVE  AreAxes(Start)' /\ ToSet(axis[s]) = Members(s)
<1>1. /\ position \in [Entities -> Points] /\ axis \in [Spaces -> Seq(Entities)]
      /\ space \in [Entities -> Spaces \cup {Nowhere}]
    BY DEF AreAxes, Start, Typed
<1>2. ToSet(axis[s]) = Members(s)
    BY HoldsExactly DEF AreAxes, Start, IsAxis
<1>3. /\ position' = position /\ axis' = [axis EXCEPT ![s] = <<>>]
      /\ space' = [e \in Entities |-> IF e \in Members(s) THEN Nowhere ELSE space[e]]
    BY <1>2 DEF DestroySpace
<1>4. ASSUME NEW t \in Spaces
      PROVE  IsAxis(axis'[t], position, {f \in Entities : space'[f] = t})
    <2>1. CASE t = s
        <3>1. axis'[t] = <<>>
            BY <1>1, <1>3, <2>1
        <3>2. {f \in Entities : space'[f] = t} = {}
            BY <1>3, <2>1, SpacesAssumption DEF Members
        <3>3. IsAxis(<<>>, position, {})
            BY DEF IsAxis, Holds, Ascends
        <3> QED
            BY <3>1, <3>2, <3>3
    <2>2. CASE t # s
        <3>1. axis'[t] = axis[t]
            BY <1>1, <1>3, <2>2
        <3>2. {f \in Entities : space'[f] = t} = Members(t)
            BY <1>3, <2>2, SpacesAssumption DEF Members
        <3>3. IsAxis(axis[t], position, Members(t))
            BY DEF AreAxes, Start
        <3> QED
            BY <3>1, <3>2, <3>3
    <2> QED
        BY <2>1, <2>2
<1>5. axis' = [t \in Spaces |-> axis'[t]]
    BY <1>1, <1>3
<1>6. AreAxes(Start)'
    BY <1>1, <1>3, <1>4, <1>5, AxesNext
<1> QED
    BY <1>2, <1>6

-----------------------------------------------------------------------------
(* What witnesses have reported after a step.                                *)
\* An entity goes from one place to another, or comes from nowhere, or goes there:
\* the witnesses of the place it left are told; those of the place it came to have
\* it still inside, unnoticed, if they had.
LEMMA AnotherPlace ==
    ASSUME Typed, Present, WitnessesAreSound,
           NEW e \in Entities, NEW x \in Spaces \cup {Nowhere}, x # space[e],
           space' = [space EXCEPT ![e] = x], witness' = Without(e),
           back' = Forgotten(e) \cup Returned(e, x)
    PROVE  /\ space' \in [Entities -> Spaces \cup {Nowhere}]
           /\ witness' \in [Avatars -> Witnesses \cup {Nowhere}]
           /\ back' \subseteq Avatars \X Entities
           /\ \A o \in Avatars : Sees(o)' => Reported(o)' /\ space'[o] # Nowhere
           /\ Unnoticed'
<1>1. /\ space \in [Entities -> Spaces \cup {Nowhere}] /\ Avatars \subseteq Entities
      /\ witness \in [Avatars -> Witnesses \cup {Nowhere}]
      /\ back \subseteq Avatars \X Entities
    BY DEF Typed, Entities
<1>2. ASSUME NEW o \in Avatars, o # e, Sees(o)
      PROVE  /\ witness[o] \in Witnesses /\ witness'[o] \in Witnesses /\ Sees(o)'
             /\ witness'[o].inside = witness[o].inside
             /\ witness'[o].entries = IF space[o] = space[e] THEN witness[o].entries \ {e}
                                     ELSE witness[o].entries
    <2>1. witness[o] \in Witnesses
        BY <1>1, <1>2 DEF Sees
    <2>2. witness'[o] = IF space[o] = space[e] THEN Left(witness[o], {e}) ELSE witness[o]
        BY <1>2 DEF Without
    <2>3. /\ Left(witness[o], {e}) \in Witnesses
          /\ Left(witness[o], {e}).entries = witness[o].entries \ {e}
          /\ Left(witness[o], {e}).inside = witness[o].inside
        <3>1. PICK w \in Witnesses, es \in SUBSET Entities : w = witness[o] /\ es = {e}
            BY <2>1
        <3>2. /\ Left(w, es) \in Witnesses /\ Left(w, es).entries = w.entries \ es
              /\ Left(w, es).inside = w.inside
            BY LeftIs
        <3> QED
            BY <3>1, <3>2
    <2>4. witness'[o] \in Witnesses
        BY <2>1, <2>2, <2>3
    <2>5. Sees(o)'
        BY <2>4, WitnessAssumption DEF Sees
    <2> QED
        BY <2>1, <2>2, <2>3, <2>4, <2>5
<1>3. ASSUME NEW o \in Avatars, o = e \/ ~ Sees(o)
      PROVE  witness'[o] = Nowhere /\ ~ Sees(o)'
    <2>1. witness'[o] = Nowhere
        BY <1>3 DEF Without, Sees
    <2> QED
        BY <2>1 DEF Sees
<1>4. witness' \in [Avatars -> Witnesses \cup {Nowhere}]
    <2>1. witness' = [o \in Avatars |-> witness'[o]]
        BY DEF Without
    <2> QED
        BY <2>1, <1>2, <1>3
<1>5. Returned(e, x) \subseteq Avatars \X Entities /\ Forgotten(e) \subseteq Avatars \X Entities
    BY <1>1 DEF Returned, Forgotten
<1>6. ASSUME NEW o \in Avatars, Sees(o)'
      PROVE  Reported(o)' /\ space'[o] # Nowhere
    <2>1. o # e /\ Sees(o)
        BY <1>3, <1>6
    <2>2. space'[o] = space[o] /\ space[o] # Nowhere
        BY <2>1, <1>1 DEF Present
    <2>3. Reported(o)
        BY <2>1 DEF WitnessesAreSound
    <2>4. ASSUME NEW f \in Entities, f # e
          PROVE  space'[f] = space[f] /\ (<<o, f>> \in back' <=> <<o, f>> \in back)
        <3>1. <<o, f>> \notin Returned(e, x)
            BY <2>4 DEF Returned
        <3>2. <<o, f>> \in Forgotten(e) <=> <<o, f>> \in back
            BY <2>1 DEF Forgotten
        <3> QED
            BY <3>1, <3>2, <2>4, <1>1
    <2>5. space'[e] = x
        BY <1>1
    <2>6. /\ witness'[o].inside = witness[o].inside /\ witness[o].inside \subseteq Entities
          /\ witness'[o].entries = IF space[o] = space[e] THEN witness[o].entries \ {e}
                                  ELSE witness[o].entries
        BY <2>1, <1>2 DEF Witnesses
    <2>7. e \in witness'[o].entries <=>
            e \in witness'[o].inside /\ x = space[o] /\ <<o, e>> \notin back'
        <3>1. e \notin witness'[o].entries
            BY <2>3, <2>6 DEF Reported
        <3>2. CASE x = space[o] /\ e \in witness[o].inside
            <4>1. <<o, e>> \in Returned(e, x)
                BY <2>1, <3>2 DEF Returned
            <4> QED
                BY <3>1, <4>1
        <3> QED
            BY <3>1, <3>2, <2>6
    <2>8. ASSUME NEW f \in Entities, f # e
          PROVE  f \in witness'[o].entries <=>
                    f \in witness'[o].inside /\ space'[f] = space'[o] /\ <<o, f>> \notin back'
        <3>1. f \in witness'[o].entries <=> f \in witness[o].entries
            BY <2>6, <2>8
        <3>2. f \in witness[o].entries <=>
                f \in witness[o].inside /\ space[f] = space[o] /\ <<o, f>> \notin back
            BY <2>3 DEF Reported
        <3> QED
            BY <3>1, <3>2, <2>2, <2>4, <2>6, <2>8
    <2>9. witness'[o].entries =
            {f \in witness'[o].inside : space'[f] = space'[o] /\ <<o, f>> \notin back'}
        <3>1. witness'[o].entries \subseteq Entities
            BY <2>1, <1>2 DEF Witnesses
        <3> QED
            BY <3>1, <2>2, <2>5, <2>6, <2>7, <2>8
    <2> QED
        BY <2>2, <2>3, <2>6, <2>9 DEF Reported
<1>7. ASSUME NEW b \in back'
      PROVE  Sees(b[1])' /\ b[2] \in witness'[b[1]].inside
    <2>1. /\ b[1] \in Avatars /\ b[1] # e /\ Sees(b[1])
          /\ b[2] \in witness[b[1]].inside
        <3>1. CASE b \in Forgotten(e)
            BY <3>1, <1>1 DEF Forgotten, WitnessesAreSound, Unnoticed
        <3>2. CASE b \in Returned(e, x)
            BY <3>2 DEF Returned
        <3> QED
            BY <3>1, <3>2
    <2> QED
        BY <2>1, <1>2
<1>8. space' \in [Entities -> Spaces \cup {Nowhere}]
    BY <1>1
<1> QED
    BY <1>4, <1>5, <1>6, <1>7, <1>8 DEF Unnoticed

\* An entity that comes from nowhere is in nobody's view, and has no witness.
LEMMA ComesFromNowhere ==
    ASSUME Typed, Present, WitnessesAreSound, NEW e \in Entities, space[e] = Nowhere
    PROVE  Without(e) = witness /\ Forgotten(e) = back
<1>1. /\ witness \in [Avatars -> Witnesses \cup {Nowhere}]
      /\ back \subseteq Avatars \X Entities
    BY DEF Typed
<1>2. ASSUME NEW o \in Avatars
      PROVE  Without(e)[o] = witness[o]
    BY DEF Without, Present, Sees
<1>3. Without(e) = witness
    <2>1. Without(e) = [o \in Avatars |-> Without(e)[o]]
        BY DEF Without
    <2> QED
        BY <2>1, <1>1, <1>2
<1>4. ASSUME NEW b \in back
      PROVE  b[1] # e
    BY <1>1 DEF WitnessesAreSound, Unnoticed, Present
<1> QED
    BY <1>3, <1>4 DEF Forgotten

\* removeEntity
LEMMA RemovedViews ==
    ASSUME Typed, Present, WitnessesAreSound, NEW e \in Entities, Removed(e)
    PROVE  /\ space' \in [Entities -> Spaces \cup {Nowhere}] /\ space'[e] = Nowhere
           /\ \A f \in Entities \ {e} : space'[f] = space[f]
           /\ witness' \in [Avatars -> Witnesses \cup {Nowhere}]
           /\ back' \subseteq Avatars \X Entities
           /\ \A o \in Avatars : Sees(o)' => Reported(o)' /\ space'[o] # Nowhere
           /\ Unnoticed'
<1>1. space \in [Entities -> Spaces \cup {Nowhere}]
    BY DEF Typed
<1>2. CASE space[e] = Nowhere
    BY <1>2 DEF Removed, Typed, Present, WitnessesAreSound, Sees, Reported, Unnoticed
<1>3. CASE space[e] # Nowhere
    <2>1. /\ space' = [space EXCEPT ![e] = Nowhere] /\ witness' = Without(e)
          /\ back' = Forgotten(e)
        BY <1>3 DEF Removed
    <2>2. Returned(e, Nowhere) = {}
        BY DEF Returned, Present
    <2>3. back' = Forgotten(e) \cup Returned(e, Nowhere)
        BY <2>1, <2>2
    <2>4. Nowhere \in Spaces \cup {Nowhere} /\ Nowhere # space[e]
        BY <1>3
    <2>5. /\ space' \in [Entities -> Spaces \cup {Nowhere}]
          /\ witness' \in [Avatars -> Witnesses \cup {Nowhere}]
          /\ back' \subseteq Avatars \X Entities
          /\ \A o \in Avatars : Sees(o)' => Reported(o)' /\ space'[o] # Nowhere
          /\ Unnoticed'
        BY <2>1, <2>3, <2>4, AnotherPlace
    <2> QED
        BY <2>1, <2>5, <1>1
<1> QED
    BY <1>2, <1>3

\* addEntity
LEMMA AddedViews ==
    ASSUME Typed, Present, WitnessesAreSound, NEW e \in Entities, space[e] = Nowhere,
           NEW s \in Spaces, NEW p, Added(e, s, p), UNCHANGED witness
    PROVE  /\ space' \in [Entities -> Spaces \cup {Nowhere}]
           /\ \A f \in Entities \ {e} : space'[f] = space[f]
           /\ witness' \in [Avatars -> Witnesses \cup {Nowhere}]
           /\ back' \subseteq Avatars \X Entities
           /\ \A o \in Avatars : Sees(o)' => Reported(o)' /\ space'[o] # Nowhere
           /\ Unnoticed'
<1>1. Without(e) = witness /\ Forgotten(e) = back
    BY ComesFromNowhere
<1>2. /\ space' = [space EXCEPT ![e] = s] /\ witness' = Without(e)
      /\ back' = Forgotten(e) \cup Returned(e, s)
    BY <1>1 DEF Added
<1>3. s \in Spaces \cup {Nowhere} /\ s # space[e]
    BY SpacesAssumption
<1>4. /\ space' \in [Entities -> Spaces \cup {Nowhere}]
      /\ witness' \in [Avatars -> Witnesses \cup {Nowhere}]
      /\ back' \subseteq Avatars \X Entities
      /\ \A o \in Avatars : Sees(o)' => Reported(o)' /\ space'[o] # Nowhere
      /\ Unnoticed'
    BY <1>2, <1>3, AnotherPlace
<1>5. \A f \in Entities \ {e} : space'[f] = space[f]
    BY <1>2 DEF Typed
<1> QED
    BY <1>4, <1>5

\* destroySpace
LEMMA DestroyedViews ==
    ASSUME Typed, Present, WitnessesAreSound, NEW s \in Spaces, DestroySpace(s),
           ToSet(axis[s]) = Members(s)
    PROVE  /\ space' \in [Entities -> Spaces \cup {Nowhere}]
           /\ \A f \in Entities : space'[f] \in {space[f], Nowhere}
           /\ witness' \in [Avatars -> Witnesses \cup {Nowhere}]
           /\ back' \subseteq Avatars \X Entities
           /\ \A o \in Avatars : Sees(o)' => Reported(o)' /\ space'[o] # Nowhere
           /\ Unnoticed'
<1>1. /\ space \in [Entities -> Spaces \cup {Nowhere}] /\ Avatars \subseteq Entities
      /\ witness \in [Avatars -> Witnesses \cup {Nowhere}]
      /\ back \subseteq Avatars \X Entities
    BY DEF Typed, Entities
<1>2. /\ space' = [e \in Entities |-> IF e \in Members(s) THEN Nowhere ELSE space[e]]
      /\ witness' = [o \in Avatars |-> IF o \in Members(s) THEN Nowhere ELSE witness[o]]
      /\ back' = {b \in back : b[1] \notin Members(s)}
    BY DEF DestroySpace
<1>3. ASSUME NEW o \in Avatars, Sees(o)'
      PROVE  Reported(o)' /\ space'[o] # Nowhere
    <2>1. /\ o \notin Members(s) /\ witness'[o] = witness[o] /\ space'[o] = space[o]
          /\ Sees(o)
        BY <1>1, <1>2, <1>3 DEF Sees
    <2>2. space[o] # s /\ space[o] # Nowhere
        BY <2>1, <1>1 DEF Members, Present
    <2>3. Reported(o)
        BY <2>1 DEF WitnessesAreSound
    <2>4. witness[o].inside \subseteq Entities
        BY <2>1, <1>1 DEF Sees, Witnesses
    <2>5. ASSUME NEW f \in Entities
          PROVE  /\ space'[f] = space'[o] <=> space[f] = space[o]
                 /\ <<o, f>> \in back' <=> <<o, f>> \in back
        BY <1>2, <2>1, <2>2 DEF Members
    <2> QED
        BY <2>1, <2>2, <2>3, <2>4, <2>5 DEF Reported
<1>4. ASSUME NEW b \in back'
      PROVE  Sees(b[1])' /\ b[2] \in witness'[b[1]].inside
    BY <1>1, <1>2 DEF WitnessesAreSound, Unnoticed, Sees
<1> QED
    BY <1>1, <1>2, <1>3, <1>4 DEF Unnoticed

\* A trigger that looks: the witness reports exactly who is near, but for those who
\* came back unnoticed.
LEMMA LooksRight ==
    ASSUME NEW at \in Positions, NEW o \in Avatars, NEW list, IsAxis(list, at, Members(space[o])),
           NEW w \in Witnesses, o \notin w.inside,
           w.entries = {e \in w.inside : space[e] = space[o] /\ <<o, e>> \notin back},
           \A e : <<o, e>> \in back => e \in w.inside
    PROVE  LET r == Refreshed(w, o, list, at)
           IN /\ r \in Witnesses /\ o \notin r.inside /\ r.range = w.range
              /\ r.inside = {e \in Entities \ {o} :
                    space[e] = space[o] /\ Distance(at[e], at[o]) <= Square(r.range)}
              /\ r.entries = {e \in r.inside : space[e] = space[o] /\ <<o, e>> \notin back}
<1>1. PICK S \in SUBSET Entities : S = Members(space[o])
    BY DEF Members
<1>2. PICK near : near = Close(S, at, o, w.range)
    OBVIOUS
<1>3. PICK r : r = Refreshed(w, o, list, at)
    OBVIOUS
<1>4. /\ r \in Witnesses /\ r.inside = near /\ r.range = w.range
      /\ r.entries = (w.entries \cup (near \ w.inside)) \ ((w.inside \ near) \cap S)
    <2>1. IsAxis(list, at, S)
        BY <1>1
    <2>2. r \in Witnesses /\ r.range = w.range /\ r.inside = near /\ r.entries = Remain(w, near, S)
        BY <2>1, <1>2, <1>3, RefreshedIs
    <2> QED
        BY <2>2 DEF Remain
<1>5. near = {e \in Entities \ {o} :
                space[e] = space[o] /\ Distance(at[e], at[o]) <= Square(w.range)}
    BY <1>1, <1>2 DEF Members, Close
<1>6. w.inside \subseteq Entities /\ near \subseteq S
    BY <1>2 DEF Witnesses, Close
<1>7. r.entries = {e \in near : space[e] = space[o] /\ <<o, e>> \notin back}
    BY <1>1, <1>4, <1>6 DEF Members
<1> QED
    BY <1>3, <1>4, <1>5, <1>7

\* What LooksRight needs of a witness.
LEMMA HasLooked ==
    ASSUME Typed, WitnessesAreSound, NEW o \in Avatars, Sees(o)
    PROVE  /\ witness[o] \in Witnesses /\ o \notin witness[o].inside
           /\ witness[o].entries =
                {e \in witness[o].inside : space[e] = space[o] /\ <<o, e>> \notin back}
           /\ \A e : <<o, e>> \in back => e \in witness[o].inside
<1>1. witness[o] \in Witnesses
    BY DEF Typed, Sees
<1>2. Reported(o)
    BY DEF WitnessesAreSound
<1>3. ASSUME NEW e, <<o, e>> \in back
      PROVE  e \in witness[o].inside
    BY <1>3 DEF WitnessesAreSound, Unnoticed
<1> QED
    BY <1>1, <1>2, <1>3 DEF Reported

-----------------------------------------------------------------------------
(* The steps.                                                                *)
LEMMA OperatesIs ==
    ASSUME Typed, NEW phases, Operates(phases)
    PROVE  phase' = phase /\ ops' \in 0 .. MaxOps /\ Looked'
<1>1. MaxOps \in Nat
    BY SpacesAssumption
<1>2. phase' = phase /\ ops' \in 0 .. MaxOps /\ ops' # 0
    BY <1>1 DEF Operates, Typed
<1> QED
    BY <1>2 DEF Looked

\* Nothing about places and views changes.
LEMMA NothingMoves ==
    ASSUME Inv, UNCHANGED <<placeVars, witness, back>>,
           phase' \in {"Network", "Script"}, ops' \in 0 .. MaxOps, Looked'
    PROVE  Inv'
<1>1. Typed'
    BY DEF Inv, Typed, placeVars
<1>2. Present'
    BY DEF Inv, Present, placeVars, Sees
<1>3. AreAxes(Start)'
    BY DEF Inv, AreAxes, Start, Members, placeVars
<1>4. \A o \in Avatars : Sees(o)' => Reported(o)'
    BY DEF Inv, WitnessesAreSound, Sees, Reported, placeVars
<1>5. Unnoticed'
    BY DEF Inv, WitnessesAreSound, Unnoticed, Sees
<1> QED
    BY <1>1, <1>2, <1>3, <1>4, <1>5 DEF Inv, WitnessesAreSound

LEMMA InvInit ==
    Init => Inv
<1> SUFFICES ASSUME Init PROVE Inv
    OBVIOUS
<1>1. Typed
    BY SpacesAssumption DEF Init, Typed
<1>2. Present
    BY DEF Init, Present, Sees
<1>3. AreAxes(Start)
    <2>1. position \in [Entities -> Points] /\ axis \in [Spaces -> Seq(Entities)]
        BY SpacesAssumption DEF Init
    <2>2. ASSUME NEW s \in Spaces
          PROVE  IsAxis(axis[s], position, Members(s))
        <3>1. axis[s] = <<>> /\ Members(s) = {}
            BY SpacesAssumption DEF Init, Members
        <3>2. IsAxis(<<>>, position, {})
            BY DEF IsAxis, Holds, Ascends
        <3> QED
            BY <3>1, <3>2
    <2> QED
        BY <2>1, <2>2 DEF AreAxes, Start
<1>4. WitnessesAreSound
    BY DEF Init, WitnessesAreSound, Sees, Unnoticed, Looked
<1> QED
    BY <1>1, <1>2, <1>3, <1>4 DEF Inv

LEMMA AddedKeeps ==
    ASSUME Inv, NEW phases, Operates(phases), NEW e \in Entities, space[e] = Nowhere,
           NEW s \in Spaces, NEW p \in Points, Added(e, s, p), UNCHANGED witness,
           spaces' \subseteq Spaces, held' \subseteq Npcs, born' \subseteq Avatars,
           held \cup born \subseteq held' \cup born', e \in held' \cup born'
    PROVE  Inv'
<1>1. Typed /\ Present /\ WitnessesAreSound /\ AreAxes(Start)
    BY DEF Inv
<1>2. AreAxes(Start)'
    BY <1>1, AddedAxes
<1>3. /\ space' \in [Entities -> Spaces \cup {Nowhere}]
      /\ \A f \in Entities \ {e} : space'[f] = space[f]
      /\ witness' \in [Avatars -> Witnesses \cup {Nowhere}]
      /\ back' \subseteq Avatars \X Entities
      /\ \A o \in Avatars : Sees(o)' => Reported(o)' /\ space'[o] # Nowhere
      /\ Unnoticed'
    BY <1>1, AddedViews
<1>4. phase' = phase /\ ops' \in 0 .. MaxOps /\ Looked'
    BY <1>1, OperatesIs
<1>5. Typed'
    BY <1>1, <1>3, <1>4 DEF Typed
<1>6. Present'
    BY <1>1, <1>3 DEF Present
<1>7. WitnessesAreSound'
    BY <1>3, <1>4 DEF WitnessesAreSound
<1> QED
    BY <1>2, <1>5, <1>6, <1>7 DEF Inv

LEMMA CreateCellKeeps ==
    ASSUME Inv, NEW e \in Entities, NEW s \in Spaces, NEW p \in Points, CreateCell(e, s, p)
    PROVE  Inv'
<1>1. /\ Operates({"Network"}) /\ Added(e, s, p) /\ UNCHANGED witness
      /\ spaces' = spaces \cup {s} /\ born' = born \cup {e} /\ held' = held
      /\ e \in Avatars /\ e \notin born
    BY DEF CreateCell, Opened
<1>2. /\ spaces' \subseteq Spaces /\ held' \subseteq Npcs /\ born' \subseteq Avatars
      /\ held \cup born \subseteq held' \cup born' /\ e \in held' \cup born'
    BY <1>1 DEF Inv, Typed
<1>3. space[e] = Nowhere
    BY <1>1, SpacesAssumption DEF Inv, Typed, Present
<1> QED
    BY <1>1, <1>2, <1>3, AddedKeeps

LEMMA CreateEntityKeeps ==
    ASSUME Inv, NEW e \in Entities, NEW p \in Points, CreateEntity(e, p)
    PROVE  Inv'
<1>1. /\ Operates({"Network", "Script"}) /\ Added(e, Default, p) /\ UNCHANGED witness
      /\ spaces' = spaces /\ born' = born /\ held' = held \cup {e}
      /\ e \in Npcs /\ e \notin held
    BY DEF CreateEntity
<1>2. /\ spaces' \subseteq Spaces /\ held' \subseteq Npcs /\ born' \subseteq Avatars
      /\ held \cup born \subseteq held' \cup born' /\ e \in held' \cup born'
    BY <1>1 DEF Inv, Typed
<1>3. space[e] = Nowhere /\ Default \in Spaces
    BY <1>1, SpacesAssumption DEF Inv, Typed, Present
<1> QED
    BY <1>1, <1>2, <1>3, AddedKeeps

LEMMA RemovedKeeps ==
    ASSUME Inv, NEW phases, Operates(phases), NEW e \in Entities, Removed(e),
           UNCHANGED <<spaces, position, born>>, held' \subseteq held, held \ {e} \subseteq held'
    PROVE  Inv'
<1>1. Typed /\ Present /\ WitnessesAreSound /\ AreAxes(Start)
    BY DEF Inv
<1>2. AreAxes(Start)'
    BY <1>1, RemovedAxes
<1>3. /\ space' \in [Entities -> Spaces \cup {Nowhere}] /\ space'[e] = Nowhere
      /\ \A f \in Entities \ {e} : space'[f] = space[f]
      /\ witness' \in [Avatars -> Witnesses \cup {Nowhere}]
      /\ back' \subseteq Avatars \X Entities
      /\ \A o \in Avatars : Sees(o)' => Reported(o)' /\ space'[o] # Nowhere
      /\ Unnoticed'
    BY <1>1, RemovedViews
<1>4. phase' = phase /\ ops' \in 0 .. MaxOps /\ Looked'
    BY <1>1, OperatesIs
<1>5. Typed'
    BY <1>1, <1>3, <1>4 DEF Typed
<1>6. Present'
    BY <1>1, <1>3 DEF Present
<1>7. WitnessesAreSound'
    BY <1>3, <1>4 DEF WitnessesAreSound
<1> QED
    BY <1>2, <1>5, <1>6, <1>7 DEF Inv

LEMMA DestroyKeeps ==
    ASSUME Inv, NEW e \in Entities, DestroyCell(e) \/ DestroyEntity(e)
    PROVE  Inv'
<1>1. CASE DestroyCell(e)
    <2>1. /\ Operates({"Network"}) /\ Removed(e)
          /\ UNCHANGED <<spaces, position, born>> /\ held' \subseteq held /\ held \ {e} \subseteq held'
        BY <1>1 DEF DestroyCell
    <2> QED
        BY <2>1, RemovedKeeps
<1>2. CASE DestroyEntity(e)
    <2>1. /\ Operates({"Network", "Script"}) /\ Removed(e)
          /\ UNCHANGED <<spaces, position, born>> /\ held' \subseteq held /\ held \ {e} \subseteq held'
        BY <1>2 DEF DestroyEntity
    <2> QED
        BY <2>1, RemovedKeeps
<1> QED
    BY <1>1, <1>2

\* A request to teleport an entity that is not there, or there already, makes
\* the space and nothing else.
IdleRequest(e, s) ==
    /\ Operates({"Network"}) /\ spaces' = Opened(s)
    /\ UNCHANGED <<space, position, axis, held, born, witness, staged, wire, known, historyVars>>

LEMMA RequestKeeps ==
    ASSUME Inv, NEW e \in Entities, NEW s \in Spaces, IdleRequest(e, s)
    PROVE  Inv'
<1>1. Typed /\ Present /\ WitnessesAreSound /\ AreAxes(Start)
    BY DEF Inv
<1>2. /\ spaces' = spaces \cup {s} /\ Operates({"Network"})
      /\ UNCHANGED <<space, position, axis, held, born, witness, back>>
    BY DEF IdleRequest, Opened, historyVars
<1>3. phase' = phase /\ ops' \in 0 .. MaxOps /\ Looked'
    BY <1>1, <1>2, OperatesIs
<1>4. Typed'
    BY <1>1, <1>2, <1>3 DEF Typed
<1>5. Present'
    BY <1>1, <1>2 DEF Present, Sees
<1>6. WitnessesAreSound'
    BY <1>1, <1>2, <1>3 DEF WitnessesAreSound, Reported, Unnoticed, Sees
<1>7. AreAxes(Start)'
    BY <1>1, <1>2 DEF AreAxes, Start, Members
<1> QED
    BY <1>4, <1>5, <1>6, <1>7 DEF Inv

LEMMA TeleportKeeps ==
    ASSUME Inv, NEW e \in Entities, NEW s \in Spaces, NEW p \in Points,
           HandleTeleport(e, s, p) \/ ScriptTeleport(e, s, p)
    PROVE  Inv'
<1>10. CASE IdleRequest(e, s)
    BY <1>10, RequestKeeps
<1>11. SUFFICES ASSUME ~ IdleRequest(e, s) PROVE Inv'
    BY <1>10
<1>1. /\ TeleportEntity(e, s, p)
      /\ Operates({"Network"}) \/ Operates({"Script"})
      /\ spaces' \subseteq spaces \cup {s}
    BY <1>11 DEF HandleTeleport, ScriptTeleport, Opened, IdleRequest
<1>2. Typed /\ Present /\ WitnessesAreSound /\ AreAxes(Start)
    BY DEF Inv
<1>3. AreAxes(Start)'
    BY <1>1, <1>2, TeleportAxes
<1>4. /\ space' = [space EXCEPT ![e] = s] /\ witness' = Without(e)
      /\ back' = Forgotten(e) \cup Returned(e, s) /\ UNCHANGED <<held, born>>
      /\ space[e] # Nowhere /\ s # space[e]
    BY <1>1 DEF TeleportEntity
<1>5. /\ space' \in [Entities -> Spaces \cup {Nowhere}]
      /\ witness' \in [Avatars -> Witnesses \cup {Nowhere}]
      /\ back' \subseteq Avatars \X Entities
      /\ \A o \in Avatars : Sees(o)' => Reported(o)' /\ space'[o] # Nowhere
      /\ Unnoticed'
    <2>1. s \in Spaces \cup {Nowhere} /\ s # space[e]
        BY <1>4
    <2>2. /\ space' = [space EXCEPT ![e] = s] /\ witness' = Without(e)
          /\ back' = Forgotten(e) \cup Returned(e, s)
        BY <1>4
    <2> QED
        BY <1>2, <2>1, <2>2, AnotherPlace
<1>6. phase' = phase /\ ops' \in 0 .. MaxOps /\ Looked'
    BY <1>1, <1>2, OperatesIs
<1>7. Typed'
    BY <1>1, <1>2, <1>4, <1>5, <1>6 DEF Typed
<1>8. Present'
    BY <1>2, <1>4, <1>5 DEF Present, Typed
<1>9. WitnessesAreSound'
    BY <1>5, <1>6 DEF WitnessesAreSound
<1> QED
    BY <1>3, <1>7, <1>8, <1>9 DEF Inv

LEMMA DestroySpaceKeeps ==
    ASSUME Inv, NEW s \in Spaces, DestroySpace(s)
    PROVE  Inv'
<1>1. Typed /\ Present /\ WitnessesAreSound /\ AreAxes(Start)
    BY DEF Inv
<1>2. AreAxes(Start)' /\ ToSet(axis[s]) = Members(s)
    BY <1>1, DestroyedAxes
<1>3. /\ space' \in [Entities -> Spaces \cup {Nowhere}]
      /\ \A f \in Entities : space'[f] \in {space[f], Nowhere}
      /\ witness' \in [Avatars -> Witnesses \cup {Nowhere}]
      /\ back' \subseteq Avatars \X Entities
      /\ \A o \in Avatars : Sees(o)' => Reported(o)' /\ space'[o] # Nowhere
      /\ Unnoticed'
    BY <1>1, <1>2, DestroyedViews
<1>4. phase' = phase /\ ops' \in 0 .. MaxOps /\ Looked'
    BY <1>1, OperatesIs DEF DestroySpace
<1>5. spaces' = spaces \ {s} /\ UNCHANGED <<held, born>>
    BY DEF DestroySpace
<1>6. Typed'
    BY <1>1, <1>3, <1>4, <1>5 DEF Typed
<1>7. Present'
    BY <1>1, <1>3, <1>5 DEF Present
<1>8. WitnessesAreSound'
    BY <1>3, <1>4 DEF WitnessesAreSound
<1> QED
    BY <1>2, <1>6, <1>7, <1>8 DEF Inv

LEMMA WatchKeeps ==
    ASSUME Inv, NEW o \in Avatars, NEW range \in Ranges, Watch(o, range)
    PROVE  Inv'
<1>1. Typed /\ Present /\ WitnessesAreSound /\ AreAxes(Start)
    BY DEF Inv
<1>2. PICK w : w = IF Sees(o) THEN [witness[o] EXCEPT !.range = range] ELSE NewWitness(range)
    OBVIOUS
<1>3. PICK r : r = Refreshed(w, o, axis[space[o]], position)
    OBVIOUS
<1>4. /\ witness' = [witness EXCEPT ![o] = r] /\ UNCHANGED placeVars
      /\ back' = {b \in back : b[1] = o => b[2] \in r.inside}
      /\ Operates({"Network", "Script"}) /\ space[o] # Nowhere
    BY <1>2, <1>3 DEF Watch
<1>5. /\ w \in Witnesses /\ o \notin w.inside
      /\ w.entries = {e \in w.inside : space[e] = space[o] /\ <<o, e>> \notin back}
      /\ \A e : <<o, e>> \in back => e \in w.inside
    <2>1. CASE Sees(o)
        <3>1. /\ witness[o] \in Witnesses /\ o \notin witness[o].inside
              /\ witness[o].entries =
                    {e \in witness[o].inside : space[e] = space[o] /\ <<o, e>> \notin back}
              /\ \A e : <<o, e>> \in back => e \in witness[o].inside
            BY <1>1, <2>1, HasLooked
        <3>2. /\ w \in Witnesses /\ w.inside = witness[o].inside
              /\ w.entries = witness[o].entries
            BY <1>2, <2>1, <3>1 DEF Witnesses
        <3> QED
            BY <3>1, <3>2
    <2>2. CASE ~ Sees(o)
        <3>1. w = NewWitness(range)
            BY <1>2, <2>2
        <3>2. w \in Witnesses /\ w.inside = {} /\ w.entries = {}
            BY <3>1 DEF NewWitness, Witnesses
        <3>3. \A e : <<o, e>> \notin back
            BY <1>1, <2>2 DEF WitnessesAreSound, Unnoticed
        <3> QED
            BY <3>2, <3>3
    <2> QED
        BY <2>1, <2>2
<1>6. /\ r \in Witnesses /\ o \notin r.inside
      /\ r.entries = {e \in r.inside : space[e] = space[o] /\ <<o, e>> \notin back}
    <2>1. IsAxis(axis[space[o]], position, Members(space[o])) /\ position \in Positions
        <3>1. space[o] \in Spaces
            BY <1>1, <1>4 DEF Typed, Entities
        <3> QED
            BY <3>1, <1>1, PointsArePlaces DEF AreAxes, Start
    <2> QED
        BY <1>3, <1>5, <2>1, LooksRight
<1>7. witness \in [Avatars -> Witnesses \cup {Nowhere}] /\ back \subseteq Avatars \X Entities
    BY <1>1 DEF Typed
<1>8. /\ witness'[o] = r /\ Sees(o)'
      /\ \A a \in Avatars \ {o} : witness'[a] = witness[a] /\ (Sees(a)' <=> Sees(a))
    BY <1>4, <1>6, <1>7, WitnessAssumption DEF Sees
<1>9. phase' = phase /\ ops' \in 0 .. MaxOps /\ Looked'
    BY <1>1, <1>4, OperatesIs
<1>10. Typed'
    BY <1>1, <1>4, <1>6, <1>9 DEF Typed, placeVars
<1>11. Present'
    BY <1>1, <1>4, <1>8 DEF Present, placeVars
<1>12. AreAxes(Start)'
    BY <1>1, <1>4 DEF AreAxes, Start, Members, placeVars
<1>13. ASSUME NEW a \in Avatars, Sees(a)'
       PROVE  Reported(a)'
    <2>1. space' = space
        BY <1>4 DEF placeVars
    <2>2. CASE a = o
        <3>1. \A e \in r.inside : <<o, e>> \in back' <=> <<o, e>> \in back
            BY <1>4
        <3> QED
            BY <2>1, <2>2, <3>1, <1>6, <1>8 DEF Reported
    <2>3. CASE a # o
        <3>1. \A e : <<a, e>> \in back' <=> <<a, e>> \in back
            BY <2>3, <1>4
        <3>2. witness'[a] = witness[a] /\ Reported(a)
            BY <2>3, <1>1, <1>8, <1>13 DEF WitnessesAreSound
        <3> QED
            BY <2>1, <3>1, <3>2 DEF Reported
    <2> QED
        BY <2>2, <2>3
<1>14. ASSUME NEW b \in back'
       PROVE  Sees(b[1])' /\ b[2] \in witness'[b[1]].inside
    <2>1. b \in back /\ b[1] \in Avatars /\ Sees(b[1]) /\ b[2] \in witness[b[1]].inside
        BY <1>1, <1>4, <1>7 DEF WitnessesAreSound, Unnoticed
    <2>2. b[1] = o => b[2] \in r.inside
        BY <1>4
    <2> QED
        BY <2>1, <2>2, <1>8
<1>15. WitnessesAreSound'
    BY <1>9, <1>13, <1>14 DEF WitnessesAreSound, Unnoticed
<1> QED
    BY <1>10, <1>11, <1>12, <1>15 DEF Inv

LEMMA EntityPhaseKeeps ==
    ASSUME Inv, NEW movers \in SUBSET Entities, NEW to \in [movers -> Points],
           EntityPhase(movers, to)
    PROVE  Inv'
<1>1. Typed /\ Present /\ WitnessesAreSound /\ AreAxes(Start)
    BY DEF Inv
<1>2. PICK now : now = Moved(movers, to)
    OBVIOUS
<1>3. /\ position' = now.at /\ axis' = now.axis /\ phase' = "Script" /\ ops' = 0
      /\ witness' = [o \in Avatars |->
            IF Sees(o) THEN Refreshed(witness[o], o, now.axis[space[o]], now.at) ELSE Nowhere]
      /\ back' = {b \in back : b[2] \in witness'[b[1]].inside}
      /\ UNCHANGED <<spaces, space, held, born>>
      /\ \A e \in movers : space[e] # Nowhere
    BY <1>2 DEF EntityPhase
<1>4. AreAxes(now)
    <2>1. \A e \in movers : space[e] \in Spaces
        BY <1>1, <1>3 DEF Typed
    <2> QED
        BY <1>1, <1>2, <2>1, MovedIs
<1>5. ASSUME NEW o \in Avatars, Sees(o)
      PROVE  /\ witness'[o] \in Witnesses /\ Sees(o)' /\ o \notin witness'[o].inside
             /\ witness'[o].inside = {e \in Entities \ {o} :
                    /\ space[e] = space[o]
                    /\ Distance(now.at[e], now.at[o]) <= Square(witness'[o].range)}
             /\ witness'[o].entries =
                    {e \in witness'[o].inside : space[e] = space[o] /\ <<o, e>> \notin back}
    <2>1. PICK w : w = witness[o]
        OBVIOUS
    <2>2. PICK r : r = Refreshed(w, o, now.axis[space[o]], now.at)
        OBVIOUS
    <2>3. witness'[o] = r
        BY <1>3, <1>5, <2>1, <2>2
    <2>4. /\ w \in Witnesses /\ o \notin w.inside
          /\ w.entries = {e \in w.inside : space[e] = space[o] /\ <<o, e>> \notin back}
          /\ \A e : <<o, e>> \in back => e \in w.inside
        BY <1>1, <1>5, <2>1, HasLooked
    <2>5. IsAxis(now.axis[space[o]], now.at, Members(space[o])) /\ now.at \in Positions
        <3>1. space[o] \in Spaces
            BY <1>1, <1>5 DEF Typed, Entities, Present
        <3> QED
            BY <3>1, <1>4, PointsArePlaces DEF AreAxes
    <2>6. /\ r \in Witnesses /\ o \notin r.inside
          /\ r.inside = {e \in Entities \ {o} :
                space[e] = space[o] /\ Distance(now.at[e], now.at[o]) <= Square(r.range)}
          /\ r.entries = {e \in r.inside : space[e] = space[o] /\ <<o, e>> \notin back}
        BY <2>2, <2>4, <2>5, LooksRight
    <2>7. Sees(o)'
        BY <2>3, <2>6, WitnessAssumption DEF Sees
    <2> QED
        BY <2>3, <2>6, <2>7
<1>6. ASSUME NEW o \in Avatars, Sees(o)'
      PROVE  Sees(o)
    BY <1>3, <1>6 DEF Sees
<1>7. witness' \in [Avatars -> Witnesses \cup {Nowhere}]
    <2>1. \A o \in Avatars : witness'[o] \in Witnesses \cup {Nowhere}
        BY <1>3, <1>5
    <2>2. witness' = [o \in Avatars |-> witness'[o]]
        BY <1>3
    <2> QED
        BY <2>1, <2>2
<1>8. Typed'
    BY <1>1, <1>3, <1>7, SpacesAssumption DEF Typed
<1>9. Present'
    BY <1>1, <1>3, <1>6 DEF Present
<1>10. AreAxes(Start)'
    BY <1>3, <1>4 DEF AreAxes, Start, Members
<1>11. ASSUME NEW o \in Avatars, Sees(o)'
       PROVE  Reported(o)' /\ witness'[o].inside = Seen(o)'
    <2>1. Sees(o)
        BY <1>6, <1>11
    <2>2. \A e \in witness'[o].inside : <<o, e>> \in back' <=> <<o, e>> \in back
        BY <1>3
    <2>3. Reported(o)'
        BY <1>3, <1>5, <2>1, <2>2 DEF Reported
    <2>4. witness'[o].inside = Seen(o)'
        BY <1>3, <1>5, <2>1 DEF Seen
    <2> QED
        BY <2>3, <2>4
<1>12. ASSUME NEW b \in back'
       PROVE  Sees(b[1])' /\ b[2] \in witness'[b[1]].inside
    <2>1. b \in back /\ b[1] \in Avatars /\ Sees(b[1])
        BY <1>1, <1>3 DEF WitnessesAreSound, Unnoticed, Typed
    <2> QED
        BY <2>1, <1>3, <1>5
<1>13. WitnessesAreSound'
    BY <1>11, <1>12 DEF WitnessesAreSound, Unnoticed, Looked
<1> QED
    BY <1>8, <1>9, <1>10, <1>13 DEF Inv

LEMMA SyncAndFlushKeeps ==
    ASSUME Inv, SyncAndFlush
    PROVE  Inv'
<1>1. Typed /\ Present /\ WitnessesAreSound /\ AreAxes(Start)
    BY DEF Inv
<1>2. /\ phase' = "Network" /\ ops' = 0 /\ UNCHANGED <<spaces, space, position, axis, held, born, back>>
      /\ witness' = [o \in Avatars |-> IF Sees(o) THEN [witness[o] EXCEPT !.events = <<>>]
                                      ELSE Nowhere]
    BY DEF SyncAndFlush, placeVars
<1>3. ASSUME NEW o \in Avatars, Sees(o)
      PROVE  /\ witness'[o] \in Witnesses /\ Sees(o)' /\ witness'[o].inside = witness[o].inside
             /\ witness'[o].entries = witness[o].entries
    <2>1. witness[o] \in Witnesses
        BY <1>1, <1>3 DEF Typed, Sees
    <2>2. witness'[o] = [witness[o] EXCEPT !.events = <<>>]
        BY <1>2, <1>3
    <2>3. /\ witness'[o] \in Witnesses /\ witness'[o].inside = witness[o].inside
          /\ witness'[o].entries = witness[o].entries
        <3>1. PICK w \in Witnesses : w = witness[o]
            BY <2>1
        <3>2. PICK none : none \in Seq(Events) /\ none = <<>>
            <4>1. <<>> \in Seq(Events)
                OBVIOUS
            <4> QED
                BY <4>1
        <3>3. witness'[o] = [w EXCEPT !.events = none]
            BY <2>2, <3>1, <3>2
        <3>4. /\ [w EXCEPT !.events = none] \in Witnesses
              /\ [w EXCEPT !.events = none].inside = w.inside
              /\ [w EXCEPT !.events = none].entries = w.entries
            BY <3>2 DEF Witnesses
        <3> QED
            BY <3>1, <3>3, <3>4
    <2> QED
        BY <2>3, WitnessAssumption DEF Sees
<1>4. ASSUME NEW o \in Avatars, Sees(o)'
      PROVE  Sees(o)
    BY <1>2, <1>4 DEF Sees
<1>5. witness' \in [Avatars -> Witnesses \cup {Nowhere}]
    <2>1. \A o \in Avatars : witness'[o] \in Witnesses \cup {Nowhere}
        BY <1>2, <1>3
    <2>2. witness' = [o \in Avatars |-> witness'[o]]
        BY <1>2
    <2> QED
        BY <2>1, <2>2
<1>6. Typed'
    BY <1>1, <1>2, <1>5, SpacesAssumption DEF Typed
<1>7. Present'
    BY <1>1, <1>2, <1>4 DEF Present
<1>8. AreAxes(Start)'
    BY <1>1, <1>2 DEF AreAxes, Start, Members
<1>9. ASSUME NEW o \in Avatars, Sees(o)'
      PROVE  Reported(o)'
    BY <1>1, <1>2, <1>3, <1>4, <1>9 DEF WitnessesAreSound, Reported
<1>10. ASSUME NEW b \in back'
       PROVE  Sees(b[1])' /\ b[2] \in witness'[b[1]].inside
    <2>1. b[1] \in Avatars /\ Sees(b[1]) /\ b[2] \in witness[b[1]].inside
        BY <1>1, <1>2 DEF WitnessesAreSound, Unnoticed, Typed
    <2> QED
        BY <2>1, <1>3
<1>11. WitnessesAreSound'
    BY <1>2, <1>9, <1>10 DEF WitnessesAreSound, Unnoticed, Looked
<1> QED
    BY <1>6, <1>7, <1>8, <1>11 DEF Inv

\* Relay, and steps that change nothing.
LEMMA RelayKeeps ==
    ASSUME Inv, (\E o \in Avatars : Relay(o)) \/ UNCHANGED vars
    PROVE  Inv'
<1>1. UNCHANGED <<phase, ops, placeVars, witness, back>>
    BY DEF Relay, vars, historyVars
<1>2. phase' \in {"Network", "Script"} /\ ops' \in 0 .. MaxOps
    BY <1>1 DEF Inv, Typed
<1>3. Looked'
    BY <1>1 DEF Inv, WitnessesAreSound, Looked, Seen, Sees, placeVars
<1> QED
    BY <1>1, <1>2, <1>3, NothingMoves

LEMMA InvNext ==
    Inv /\ [Next]_vars => Inv'
<1> SUFFICES ASSUME Inv, [Next]_vars PROVE Inv'
    OBVIOUS
<1>1. CASE \E e \in Entities, p \in Points, s \in Spaces : CreateCell(e, s, p)
    BY <1>1, CreateCellKeeps
<1>2. CASE \E e \in Entities, p \in Points, s \in Spaces :
            HandleTeleport(e, s, p) \/ ScriptTeleport(e, s, p)
    BY <1>2, TeleportKeeps
<1>3. CASE \E e \in Entities, p \in Points : CreateEntity(e, p)
    BY <1>3, CreateEntityKeeps
<1>4. CASE \E e \in Entities : DestroyCell(e) \/ DestroyEntity(e)
    BY <1>4, DestroyKeeps
<1>5. CASE \E s \in Spaces : DestroySpace(s)
    BY <1>5, DestroySpaceKeeps
<1>6. CASE \E o \in Avatars, r \in Ranges : Watch(o, r)
    BY <1>6, WatchKeeps
<1>7. CASE (\E o \in Avatars : Relay(o)) \/ UNCHANGED vars
    BY <1>7, RelayKeeps
<1>8. CASE \E movers \in SUBSET Entities : \E to \in [movers -> Points] : EntityPhase(movers, to)
    BY <1>8, EntityPhaseKeeps
<1>9. CASE SyncAndFlush
    BY <1>9, SyncAndFlushKeeps
<1> QED
    BY <1>1, <1>2, <1>3, <1>4, <1>5, <1>6, <1>7, <1>8, <1>9 DEF Next

-----------------------------------------------------------------------------
(* What a client knows when it has heard some messages.                      *)
\* A list, of whatever is in it.
IsList(q) == q \in Seq(ToSet(q))

LEMMA SequenceIsList ==
    ASSUME NEW S, NEW q \in Seq(S)
    PROVE  IsList(q) /\ Len(q) \in Nat /\ DOMAIN q = 1 .. Len(q)
<1>1. Len(q) \in Nat /\ q \in [1 .. Len(q) -> S]
    OBVIOUS
<1>2. q \in [1 .. Len(q) -> ToSet(q)]
    BY <1>1 DEF ToSet
<1> HIDE DEF IsList
<1> QED
    BY <1>1, <1>2 DEF IsList

LEMMA ListJoined ==
    ASSUME NEW q, NEW r, IsList(q), IsList(r)
    PROVE  /\ IsList(q \o r) /\ Len(q) \in Nat /\ Len(r) \in Nat
           /\ Len(q \o r) = Len(q) + Len(r)
           /\ \A i \in 1 .. Len(q) : (q \o r)[i] = q[i]
           /\ \A i \in 1 .. Len(r) : (q \o r)[Len(q) + i] = r[i]
<1> DEFINE S == ToSet(q) \cup ToSet(r)
<1>1. q \in Seq(S) /\ r \in Seq(S)
    <2>1. /\ \A T : q \in Seq(T) => q \in Seq(T \cup ToSet(r))
          /\ \A T : r \in Seq(T) => r \in Seq(ToSet(q) \cup T)
        OBVIOUS
    <2> QED
        BY <2>1 DEF IsList
<1> HIDE DEF S
<1>2. PICK t : t = q \o r
    OBVIOUS
<1>3. /\ t \in Seq(S) /\ Len(t) = Len(q) + Len(r) /\ Len(q) \in Nat /\ Len(r) \in Nat
      /\ \A i \in 1 .. Len(q) + Len(r) : t[i] = IF i <= Len(q) THEN q[i] ELSE r[i - Len(q)]
    BY <1>1, <1>2, JoinedIs
<1>4. IsList(t)
    BY <1>3, SequenceIsList
<1>5. \A i \in 1 .. Len(q) : t[i] = q[i]
    BY <1>3
<1>6. ASSUME NEW i \in 1 .. Len(r)
      PROVE  t[Len(q) + i] = r[i]
    <2>1. Len(q) + i \in 1 .. Len(q) + Len(r) /\ ~ (Len(q) + i <= Len(q))
          /\ (Len(q) + i) - Len(q) = i
        BY <1>3
    <2> QED
        BY <1>3, <2>1
<1> QED
    BY <1>2, <1>3, <1>4, <1>5, <1>6

\* The first m of the messages have been heard.
Hears(f, messages, m) == \A n \in 1 .. m : f[n] = Told(f[n - 1], messages[n])
IsHearing(f, view, messages, m) ==
    DOMAIN f = 0 .. m /\ f[0] = view /\ Hears(f, messages, m)

LEMMA HearingExists ==
    ASSUME NEW view, NEW messages
    PROVE  \A m \in Nat : \E f : IsHearing(f, view, messages, m)
<1> DEFINE T == {m \in Nat : ~ \E f : IsHearing(f, view, messages, m)}
<1>1. SUFFICES ASSUME T # {} PROVE FALSE
    OBVIOUS
<1>2. PICK m \in T : \A k \in T : m <= k
    <2>1. T \in SUBSET Nat
        OBVIOUS
    <2> HIDE DEF T
    <2> QED
        BY <2>1, <1>1, LeastNatural
<1>3. m # 0
    <2>1. IsHearing([n \in 0 .. 0 |-> view], view, messages, 0)
        BY DEF IsHearing, Hears
    <2> QED
        BY <2>1
<1>4. m - 1 \in Nat /\ m - 1 \notin T
    BY <1>2, <1>3
<1>5. PICK f : IsHearing(f, view, messages, m - 1)
    BY <1>4
<1> DEFINE g == [n \in 0 .. m |-> IF n < m THEN f[n] ELSE Told(f[m - 1], messages[m])]
<1>6. IsHearing(g, view, messages, m)
    <2>1. DOMAIN g = 0 .. m /\ g[0] = view
        BY <1>3, <1>5 DEF IsHearing, Hears
    <2>2. ASSUME NEW n \in 1 .. m
          PROVE  g[n] = Told(g[n - 1], messages[n])
        <3>1. g[n - 1] = f[n - 1]
            OBVIOUS
        <3>2. CASE n < m
            BY <3>1, <3>2, <1>5 DEF IsHearing, Hears
        <3>3. CASE n = m
            BY <3>1, <3>3
        <3> QED
            BY <3>2, <3>3
    <2> QED
        BY <2>1, <2>2 DEF IsHearing, Hears
<1> QED
    BY <1>6

LEMMA HearingIs ==
    ASSUME NEW view, NEW messages, Len(messages) \in Nat
    PROVE  IsHearing(Hearing(view, messages), view, messages, Len(messages))
<1> DEFINE Body(f) == [n \in 0 .. Len(messages) |->
                        IF n = 0 THEN view ELSE Told(f[n - 1], messages[n])]
<1>1. PICK f : IsHearing(f, view, messages, Len(messages))
    BY HearingExists
<1> DEFINE g == [n \in 0 .. Len(messages) |-> f[n]]
<1>2. g = Body(g)
    BY <1>1 DEF IsHearing, Hears
<1>3. Hearing(view, messages) = CHOOSE h : h = Body(h)
    BY DEF Hearing
<1> HIDE DEF Body, g
<1>4. Hearing(view, messages) = Body(Hearing(view, messages))
    BY <1>2, <1>3
<1> QED
    BY <1>4 DEF Body, IsHearing, Hears

\* Who starts with the same and is told the same knows the same.
LEMMA HearingsAgree ==
    ASSUME NEW m \in Nat, NEW f, NEW g, NEW q, f[0] = g[0], Hears(f, q, m), Hears(g, q, m)
    PROVE  \A n \in 0 .. m : f[n] = g[n]
<1> DEFINE T == {n \in 0 .. m : f[n] # g[n]}
<1>1. SUFFICES ASSUME T # {} PROVE FALSE
    OBVIOUS
<1>2. PICK n \in T : \A k \in T : n <= k
    <2>1. T \in SUBSET Nat
        OBVIOUS
    <2> HIDE DEF T
    <2> QED
        BY <2>1, <1>1, LeastNatural
<1>3. n \in 1 .. m /\ n - 1 \in 0 .. m /\ ~ (n <= n - 1)
    BY <1>2
<1>4. f[n - 1] = g[n - 1]
    BY <1>2, <1>3
<1> QED
    BY <1>2, <1>3, <1>4 DEF Hears

LEMMA HeardIs ==
    ASSUME NEW view, NEW messages, NEW f, Len(messages) \in Nat,
           f[0] = view, Hears(f, messages, Len(messages))
    PROVE  Heard(view, messages) = f[Len(messages)]
<1>1. PICK m \in Nat : m = Len(messages)
    OBVIOUS
<1>2. PICK g : g = Hearing(view, messages)
    OBVIOUS
<1>3. IsHearing(g, view, messages, m)
    BY <1>1, <1>2, HearingIs
<1>4. f[0] = g[0] /\ Hears(f, messages, m) /\ Hears(g, messages, m)
    BY <1>1, <1>3 DEF IsHearing
<1>5. \A n \in 0 .. m : f[n] = g[n]
    BY <1>4, HearingsAgree
<1> QED
    BY <1>1, <1>2, <1>5 DEF Heard

LEMMA HeardNothing ==
    ASSUME NEW view
    PROVE  Heard(view, <<>>) = view
<1>1. Len(<<>>) = 0
    OBVIOUS
<1>2. IsHearing(Hearing(view, <<>>), view, <<>>, 0)
    BY <1>1, HearingIs
<1> QED
    BY <1>1, <1>2 DEF IsHearing, Hears, Heard

LEMMA HeardJoined ==
    ASSUME NEW view, NEW q, NEW r, IsList(q), IsList(r)
    PROVE  Heard(view, q \o r) = Heard(Heard(view, q), r)
<1>1. PICK t : t = q \o r
    OBVIOUS
<1>2. /\ Len(q) \in Nat /\ Len(r) \in Nat /\ Len(t) = Len(q) + Len(r)
      /\ \A i \in 1 .. Len(q) : t[i] = q[i]
      /\ \A i \in 1 .. Len(r) : t[Len(q) + i] = r[i]
    BY <1>1, ListJoined
<1>3. PICK f : f = Hearing(view, t)
    OBVIOUS
<1>4. f[0] = view /\ \A n \in 1 .. Len(q) + Len(r) : f[n] = Told(f[n - 1], t[n])
    <2>1. Len(t) \in Nat
        BY <1>2
    <2>2. IsHearing(f, view, t, Len(t))
        BY <2>1, <1>3, HearingIs
    <2> QED
        BY <2>2, <1>2 DEF IsHearing, Hears
<1>5. Heard(view, q) = f[Len(q)]
    <2>1. Hears(f, q, Len(q))
        BY <1>2, <1>4 DEF Hears
    <2> QED
        BY <1>2, <1>4, <2>1, HeardIs
<1> DEFINE g == [n \in 0 .. Len(r) |-> f[Len(q) + n]]
<1>6. Heard(f[Len(q)], r) = g[Len(r)]
    <2>1. g[0] = f[Len(q)]
        BY <1>2
    <2>2. ASSUME NEW n \in 1 .. Len(r)
          PROVE  g[n] = Told(g[n - 1], r[n])
        <3>1. g[n] = f[Len(q) + n] /\ g[n - 1] = f[Len(q) + (n - 1)]
            BY <1>2
        <3>2. Len(q) + n \in 1 .. Len(q) + Len(r) /\ Len(q) + (n - 1) = (Len(q) + n) - 1
            BY <1>2
        <3>3. f[Len(q) + n] = Told(f[(Len(q) + n) - 1], t[Len(q) + n])
            BY <1>4, <3>2
        <3>4. t[Len(q) + n] = r[n]
            BY <1>2
        <3> HIDE DEF g
        <3> QED
            BY <3>1, <3>2, <3>3, <3>4
    <2> HIDE DEF g
    <2>3. Hears(g, r, Len(r))
        BY <2>2 DEF Hears
    <2> QED
        BY <1>2, <2>1, <2>3, HeardIs
<1>7. Heard(view, t) = f[Len(q) + Len(r)]
    BY <1>2, <1>3 DEF Heard
<1>8. g[Len(r)] = f[Len(q) + Len(r)]
    BY <1>2
<1> QED
    BY <1>1, <1>5, <1>6, <1>7, <1>8

LEMMA HeardOne ==
    ASSUME NEW view, NEW m
    PROVE  Heard(view, <<m>>) = Told(view, m) /\ IsList(<<m>>)
<1>1. <<m>> \in Seq({m}) /\ Len(<<m>>) = 1 /\ <<m>>[1] = m
    OBVIOUS
<1>2. IsHearing(Hearing(view, <<m>>), view, <<m>>, 1)
    BY <1>1, HearingIs
<1>3. PICK q : q = <<m>>
    OBVIOUS
<1>4. Hearing(view, q)[1] = Told(view, m)
    BY <1>1, <1>2, <1>3 DEF IsHearing, Hears
<1>5. IsList(q)
    BY <1>1, <1>3, SequenceIsList
<1> QED
    BY <1>1, <1>3, <1>4, <1>5 DEF Heard

LEMMA HeardTail ==
    ASSUME NEW view, NEW q, IsList(q), q # <<>>
    PROVE  Heard(Told(view, Head(q)), Tail(q)) = Heard(view, q) /\ IsList(Tail(q))
<1>1. PICK S : q \in Seq(S)
    BY DEF IsList
<1>2. Tail(q) \in Seq(S) /\ <<Head(q)>> \in Seq(S) /\ q = <<Head(q)>> \o Tail(q)
    BY <1>1
<1>3. IsList(Tail(q)) /\ IsList(<<Head(q)>>)
    BY <1>2, SequenceIsList
<1>4. PICK h : h = <<Head(q)>>
    OBVIOUS
<1>5. PICK r : r = Tail(q)
    OBVIOUS
<1>6. Heard(view, h \o r) = Heard(Heard(view, h), r)
    BY <1>3, <1>4, <1>5, HeardJoined
<1>7. Heard(view, h) = Told(view, Head(q))
    BY <1>4, HeardOne
<1> QED
    BY <1>2, <1>3, <1>4, <1>5, <1>6, <1>7

-----------------------------------------------------------------------------
(* What the event queue of a witness says about an entity.                   *)
\* The kind of the last event about it.
Mentions(events, e) == {i \in 1 .. Len(events) : events[i].who = e}
Says(events, e) ==
    IF Mentions(events, e) = {} THEN "nothing" ELSE events[Max(Mentions(events, e))].kind

LEMMA SaysNothing ==
    ASSUME NEW events, NEW e, \A i \in 1 .. Len(events) : events[i].who # e
    PROVE  Says(events, e) = "nothing"
BY DEF Says, Mentions

LEMMA SaysLast ==
    ASSUME NEW events \in Seq(Events), NEW e, NEW i \in 1 .. Len(events), events[i].who = e,
           \A j \in 1 .. Len(events) : events[j].who = e => j <= i
    PROVE  Says(events, e) = events[i].kind
<1>1. Len(events) \in Nat /\ Mentions(events, e) \in SUBSET (1 .. Len(events))
    BY DEF Mentions
<1>2. i \in Mentions(events, e) /\ \A j \in Mentions(events, e) : j <= i
    BY DEF Mentions
<1>3. /\ Max(Mentions(events, e)) \in Mentions(events, e)
      /\ \A j \in Mentions(events, e) : j <= Max(Mentions(events, e))
    BY <1>1, <1>2, MaxIs
<1>4. Max(Mentions(events, e)) = i
    <2> PICK x : x = Max(Mentions(events, e))
        OBVIOUS
    <2>1. x \in Mentions(events, e) /\ i <= x /\ x <= i
        BY <1>2, <1>3
    <2>2. x \in Int /\ i \in Int
        BY <2>1, <1>1
    <2> QED
        BY <2>1, <2>2
<1> QED
    BY <1>2, <1>4 DEF Says

LEMMA SaysIs ==
    ASSUME NEW events \in Seq(Events), NEW e
    PROVE  \/ /\ Says(events, e) = "nothing"
              /\ \A i \in 1 .. Len(events) : events[i].who # e
           \/ \E i \in 1 .. Len(events) :
                /\ events[i].who = e /\ events[i] = Event(Says(events, e), e)
                /\ Says(events, e) \in {"enter", "leave"}
                /\ \A j \in 1 .. Len(events) : events[j].who = e => j <= i
<1>1. CASE Mentions(events, e) = {}
    BY <1>1 DEF Says, Mentions
<1>2. CASE Mentions(events, e) # {}
    <2>1. Len(events) \in Nat /\ Mentions(events, e) \in SUBSET (1 .. Len(events))
        BY DEF Mentions
    <2>2. PICK i : i = Max(Mentions(events, e))
        OBVIOUS
    <2>3. i \in Mentions(events, e) /\ \A j \in Mentions(events, e) : j <= i
        BY <1>2, <2>1, <2>2, MaxIs
    <2>4. /\ i \in 1 .. Len(events) /\ events[i].who = e
          /\ \A j \in 1 .. Len(events) : events[j].who = e => j <= i
        BY <2>3 DEF Mentions
    <2>5. Says(events, e) = events[i].kind
        BY <1>2, <2>2 DEF Says
    <2>6. events[i] \in Events
        BY <2>4
    <2>7. events[i] = Event(Says(events, e), e) /\ Says(events, e) \in {"enter", "leave"}
        BY <2>4, <2>5, <2>6 DEF Events, Event
    <2> QED
        BY <2>4, <2>7
<1> QED
    BY <1>1, <1>2

\* After some more events of one kind.
LEMMA SaysMore ==
    ASSUME NEW events \in Seq(Events), NEW es \in SUBSET Entities, NEW kind \in {"enter", "leave"},
           NEW e
    PROVE  Says(events \o SetToSeq({Event(kind, f) : f \in es}), e)
                = IF e \in es THEN kind ELSE Says(events, e)
<1> DEFINE T == {Event(kind, f) : f \in es}
<1>1. PICK r : r = SetToSeq(T)
    OBVIOUS
<1>2. r \in Seq(Events) /\ ToSet(r) = T
    BY <1>1, EventsAre
<1>3. PICK t : t = events \o r
    OBVIOUS
<1>4. /\ t \in Seq(Events) /\ Len(t) = Len(events) + Len(r) /\ Len(events) \in Nat /\ Len(r) \in Nat
      /\ \A i \in 1 .. Len(events) + Len(r) :
            t[i] = IF i <= Len(events) THEN events[i] ELSE r[i - Len(events)]
    BY <1>2, <1>3, JoinedIs
<1>5. \A i \in 1 .. Len(r) : r[i].kind = kind /\ r[i].who \in es
    <2> TAKE i \in 1 .. Len(r)
    <2>1. r[i] \in T
        <3> HIDE DEF T
        <3> QED
            BY <1>2 DEF ToSet
    <2> QED
        BY <2>1 DEF Event
<1>6. CASE e \in es
    <2>1. PICK i \in 1 .. Len(r) : r[i].who = e
        <3>1. Event(kind, e) \in T
            BY <1>6
        <3>2. PICK i \in DOMAIN r : r[i] = Event(kind, e)
            <4> HIDE DEF T
            <4> QED
                BY <3>1, <1>2 DEF ToSet
        <3> QED
            BY <3>2, <1>2 DEF Event
    <2>2. Len(events) + i \in 1 .. Len(t) /\ t[Len(events) + i] = r[i]
        BY <1>4
    <2>3. PICK k \in 1 .. Len(t) : t[k].who = e /\ t[k] = Event(Says(t, e), e)
                /\ \A j \in 1 .. Len(t) : t[j].who = e => j <= k
        <3>1. t[Len(events) + i].who = e
            BY <2>1, <2>2
        <3> QED
            BY <3>1, <2>2, <1>4, SaysIs
    <2>4. Len(events) + i <= k
        BY <2>1, <2>2, <2>3
    <2>5. k - Len(events) \in 1 .. Len(r) /\ t[k] = r[k - Len(events)]
        BY <2>4, <1>4
    <2>6. Says(t, e) = kind
        BY <2>3, <2>5, <1>5 DEF Event
    <2> QED
        BY <2>6, <1>1, <1>3, <1>6
<1>7. CASE e \notin es
    <2>1. \A i \in 1 .. Len(t) : t[i].who = e => i <= Len(events) /\ t[i] = events[i]
        <3> TAKE i \in 1 .. Len(t)
        <3>1. CASE i <= Len(events)
            BY <3>1, <1>4
        <3>2. CASE i > Len(events)
            <4>1. i - Len(events) \in 1 .. Len(r) /\ t[i] = r[i - Len(events)]
                BY <3>2, <1>4
            <4> QED
                BY <4>1, <1>5, <1>7
        <3> QED
            BY <3>1, <3>2, <1>4
    <2>2. \A i \in 1 .. Len(events) : i \in 1 .. Len(t) /\ t[i] = events[i]
        BY <1>4
    <2>3. ASSUME \A i \in 1 .. Len(events) : events[i].who # e
          PROVE  Says(t, e) = "nothing"
        <3>1. ASSUME NEW i \in 1 .. Len(t), t[i].who = e
              PROVE  FALSE
            <4>1. i <= Len(events) /\ t[i] = events[i]
                BY <2>1, <3>1
            <4>2. i \in 1 .. Len(events)
                BY <4>1, <1>4
            <4> QED
                BY <2>3, <3>1, <4>1, <4>2
        <3> QED
            BY <3>1, SaysNothing
    <2>4. ASSUME NEW i \in 1 .. Len(events), events[i].who = e, events[i] = Event(Says(events, e), e),
                 \A j \in 1 .. Len(events) : events[j].who = e => j <= i
          PROVE  Says(t, e) = Says(events, e)
        <3>1. i \in 1 .. Len(t) /\ t[i].who = e /\ t[i] = events[i]
            BY <2>2, <2>4
        <3>2. \A j \in 1 .. Len(t) : t[j].who = e => j <= i
            <4> TAKE j \in 1 .. Len(t)
            <4>1. HAVE t[j].who = e
            <4>2. j <= Len(events) /\ t[j] = events[j]
                BY <2>1, <4>1
            <4>3. j \in 1 .. Len(events)
                BY <4>2, <1>4
            <4> QED
                BY <2>4, <4>1, <4>2, <4>3
        <3>3. Says(t, e) = t[i].kind
            BY <3>1, <3>2, <1>4, SaysLast
        <3> QED
            BY <3>1, <3>3, <2>4 DEF Event
    <2>5. Says(t, e) = Says(events, e)
        BY <2>3, <2>4, SaysIs
    <2> QED
        BY <2>5, <1>1, <1>3, <1>7
<1> QED
    BY <1>6, <1>7

\* What is left of a list when some go: where each of them was.
LEMMA OthersAre ==
    ASSUME NEW S, NEW list \in Seq(S), NEW gone
    PROVE  /\ Others(list, gone) \in Seq(S)
           /\ \E h :
                /\ \A k \in 1 .. Len(Others(list, gone)) :
                    h[k] \in 1 .. Len(list) /\ Others(list, gone)[k] = list[h[k]]
                /\ \A k, m \in 1 .. Len(Others(list, gone)) : h[k] <= h[m] => k <= m
                /\ \A i \in 1 .. Len(list) : list[i] \notin gone =>
                    \E k \in 1 .. Len(Others(list, gone)) : h[k] = i
<1> DEFINE left == {i \in DOMAIN list : list[i] \notin gone}
           UpTo(i) == {j \in left : j <= i}
           Rank(i) == Cardinality(UpTo(i))
           Nth(k) == CHOOSE i \in left : Rank(i) = k
           n == Cardinality(left)
           rank == [i \in left |-> Rank(i)]
           h == [k \in 1 .. n |-> Nth(k)]
<1>1. /\ left \in SUBSET (1 .. Len(list)) /\ Len(list) \in Nat
      /\ \A i \in left : i \in Int
    OBVIOUS
<1>2. IsFiniteSet(left) /\ n \in Nat /\ \A k \in 1 .. n : k \in Int
    <2> HIDE DEF left
    <2>1. IsFiniteSet(1 .. Len(list))
        BY <1>1, FS_Interval
    <2>2. IsFiniteSet(left)
        BY <1>1, <2>1, FS_Subset
    <2>3. n \in Nat
        BY <2>2, FS_CardinalityType
    <2> HIDE DEF n
    <2> QED
        BY <2>2, <2>3
<1>3. ASSUME NEW i \in left
      PROVE  /\ IsFiniteSet(UpTo(i)) /\ Rank(i) \in 1 .. n
    <2> HIDE DEF left
    <2>1. UpTo(i) \in SUBSET left /\ i \in UpTo(i)
        BY <1>1
    <2> HIDE DEF UpTo
    <2>2. IsFiniteSet(UpTo(i)) /\ Rank(i) <= n
        BY <1>2, <2>1, FS_Subset
    <2>3. Rank(i) \in Nat /\ Rank(i) # 0
        BY <2>1, <2>2, FS_CardinalityType, FS_EmptySet
    <2> HIDE DEF Rank, n
    <2> QED
        BY <1>2, <2>2, <2>3
<1>4. ASSUME NEW i \in left, NEW k \in left, i < k
      PROVE  Rank(i) < Rank(k)
    <2> HIDE DEF left
    <2>1. UpTo(i) \in SUBSET UpTo(k) /\ k \in UpTo(k) /\ k \notin UpTo(i)
        <3>1. i \in Int /\ k \in Int /\ \A j \in left : j \in Int
            BY <1>1
        <3>2. (\A j \in left : j <= i => j <= k) /\ k <= k /\ ~ (k <= i)
            BY <1>4, <3>1
        <3>3. k \in UpTo(k) /\ k \notin UpTo(i)
            BY <3>2
        <3>4. ASSUME NEW j \in UpTo(i) PROVE j \in UpTo(k)
            BY <3>2
        <3> QED
            BY <3>3, <3>4
    <2>2. IsFiniteSet(UpTo(k)) /\ Rank(i) \in 1 .. n /\ Rank(k) \in 1 .. n
        BY <1>3
    <2> HIDE DEF UpTo
    <2>3. Rank(i) <= Rank(k) /\ Rank(i) # Rank(k)
        BY <2>1, <2>2, FS_Subset
    <2> HIDE DEF Rank, n
    <2> QED
        BY <1>2, <2>2, <2>3
<1>5. \A k \in 1 .. n : \E i \in left : Rank(i) = k
    <2>1. \A i, k \in left : Rank(i) = Rank(k) => i = k
        <3> HIDE DEF Rank, left
        <3> SUFFICES ASSUME NEW i \in left, NEW k \in left, Rank(i) = Rank(k), i # k
                     PROVE  FALSE
            OBVIOUS
        <3>1. i \in Int /\ k \in Int
            BY <1>1
        <3>2. CASE i < k
            <4>1. Rank(i) \in Int /\ Rank(i) < Rank(k)
                BY <3>2, <1>2, <1>3, <1>4
            <4> QED
                BY <4>1
        <3>3. CASE k < i
            <4>1. Rank(i) \in Int /\ Rank(k) < Rank(i)
                BY <3>3, <1>2, <1>3, <1>4
            <4> QED
                BY <4>1
        <3> QED
            BY <3>1, <3>2, <3>3
    <2>2. rank \in Injection(left, 1 .. n)
        <3> HIDE DEF Rank, left, n
        <3> QED
            BY <1>3, <2>1 DEF Injection, IsInjective
    <2>3. IsFiniteSet(1 .. n) /\ Cardinality(1 .. n) = n
        BY <1>2, FS_Interval
    <2>4. rank \in Surjection(left, 1 .. n)
        <3> HIDE DEF rank
        <3> QED
            BY <2>2, <2>3, FS_Injection
    <2> HIDE DEF Rank, left, n
    <2> QED
        BY <2>4 DEF Surjection
<1>6. ASSUME NEW k \in 1 .. n
      PROVE  h[k] \in left /\ Rank(h[k]) = k
    <2> HIDE DEF Rank, left, n
    <2> QED
        BY <1>5
<1>7. Others(list, gone) = [k \in 1 .. n |-> list[h[k]]]
    <2>1. Others(list, gone) = [k \in 1 .. n |-> list[Nth(k)]]
        BY DEF Others
    <2> HIDE DEF Nth, n
    <2> QED
        BY <2>1
<1> HIDE DEF h, Rank, n
<1>8. \A k \in 1 .. n : h[k] \in 1 .. Len(list) /\ list[h[k]] \in S
    BY <1>1, <1>6
<1>9. /\ Others(list, gone) \in Seq(S) /\ Len(Others(list, gone)) = n
      /\ \A k \in 1 .. n : Others(list, gone)[k] = list[h[k]]
    <2> HIDE DEF left
    <2> QED
        BY <1>2, <1>7, <1>8
<1>10. ASSUME NEW k \in 1 .. n, NEW m \in 1 .. n, h[k] <= h[m]
       PROVE  k <= m
    <2>1. h[k] \in left /\ h[m] \in left /\ Rank(h[k]) = k /\ Rank(h[m]) = m
        BY <1>6
    <2> HIDE DEF left
    <2>2. h[k] \in Int /\ h[m] \in Int /\ k \in Int /\ m \in Int
        BY <1>1, <1>2, <2>1
    <2>3. CASE h[k] < h[m]
        BY <1>4, <2>1, <2>2, <2>3
    <2>4. CASE h[k] = h[m]
        BY <2>1, <2>2, <2>4
    <2> QED
        BY <1>10, <2>2, <2>3, <2>4
<1>11. ASSUME NEW i \in 1 .. Len(list), list[i] \notin gone
       PROVE  \E k \in 1 .. n : h[k] = i
    <2>1. i \in left
        BY <1>11
    <2> HIDE DEF left
    <2>2. Rank(i) \in 1 .. n
        BY <1>3, <2>1
    <2>3. h[Rank(i)] \in left /\ Rank(h[Rank(i)]) = Rank(i)
        BY <1>6, <2>2
    <2>4. h[Rank(i)] \in Int /\ i \in Int /\ Rank(i) \in Int
        BY <1>1, <1>2, <2>1, <2>2, <2>3
    <2>5. ~ (h[Rank(i)] < i) /\ ~ (i < h[Rank(i)])
        BY <1>4, <2>1, <2>3, <2>4
    <2>6. h[Rank(i)] = i
        BY <2>4, <2>5
    <2> QED
        BY <2>2, <2>6
<1> HIDE DEF left
<1> QED
    BY <1>8, <1>9, <1>10, <1>11

\* What is left of an event queue says the same, but of those whose events went.
LEMMA SaysOthers ==
    ASSUME NEW events \in Seq(Events), NEW gone, NEW e
    PROVE  /\ Others(events, gone) \in Seq(Events)
           /\ Event(Says(events, e), e) \notin gone =>
                Says(Others(events, gone), e) = Says(events, e)
<1>1. PICK left : left = Others(events, gone)
    OBVIOUS
<1>2. /\ left \in Seq(Events)
      /\ \E h : /\ \A k \in 1 .. Len(left) : h[k] \in 1 .. Len(events) /\ left[k] = events[h[k]]
                /\ \A k, m \in 1 .. Len(left) : h[k] <= h[m] => k <= m
                /\ \A i \in 1 .. Len(events) : events[i] \notin gone =>
                    \E k \in 1 .. Len(left) : h[k] = i
    BY <1>1, OthersAre
<1>3. PICK h : /\ \A k \in 1 .. Len(left) : h[k] \in 1 .. Len(events) /\ left[k] = events[h[k]]
               /\ \A k, m \in 1 .. Len(left) : h[k] <= h[m] => k <= m
               /\ \A i \in 1 .. Len(events) : events[i] \notin gone =>
                    \E k \in 1 .. Len(left) : h[k] = i
    BY <1>2
<1>4. ASSUME Event(Says(events, e), e) \notin gone
      PROVE  Says(left, e) = Says(events, e)
    <2>1. ASSUME \A i \in 1 .. Len(events) : events[i].who # e, Says(events, e) = "nothing"
          PROVE  Says(left, e) = Says(events, e)
        <3>1. \A k \in 1 .. Len(left) : left[k].who # e
            BY <1>3, <2>1
        <3> QED
            BY <2>1, <3>1, SaysNothing
    <2>2. ASSUME NEW i \in 1 .. Len(events), events[i].who = e,
                 events[i] = Event(Says(events, e), e),
                 \A j \in 1 .. Len(events) : events[j].who = e => j <= i
          PROVE  Says(left, e) = Says(events, e)
        <3>1. PICK k \in 1 .. Len(left) : h[k] = i
            BY <1>3, <1>4, <2>2
        <3>2. left[k] = events[i]
            BY <1>3, <3>1
        <3>3. \A m \in 1 .. Len(left) : left[m].who = e => m <= k
            BY <1>3, <2>2, <3>1
        <3>4. Says(left, e) = left[k].kind
            BY <1>2, <2>2, <3>2, <3>3, SaysLast
        <3> QED
            BY <2>2, <3>2, <3>4 DEF Event
    <2> QED
        BY <2>1, <2>2, SaysIs
<1> QED
    BY <1>1, <1>2, <1>4

-----------------------------------------------------------------------------
(* What one message changes.                                                 *)
\* How what a client knows differs before and after.
Enters(view, e, p, now) ==
    /\ DOMAIN now = DOMAIN view \cup {e} /\ now[e] = p
    /\ \A f \in DOMAIN view \ {e} : now[f] = view[f]
Leaves(view, e, now) ==
    DOMAIN now = DOMAIN view \ {e} /\ \A f \in DOMAIN now : now[f] = view[f]
Updates(view, at, now) ==
    /\ DOMAIN now = DOMAIN view \cup DOMAIN at
    /\ \A f \in DOMAIN now : now[f] = IF f \in DOMAIN at THEN at[f] ELSE view[f]

LEMMA ToldEnter ==
    ASSUME NEW view, NEW e, NEW p
    PROVE  Enters(view, e, p, Told(view, EntityEnter(e, p)))
<1>1. PICK new : new = [f \in {e} |-> p]
    OBVIOUS
<1>2. DOMAIN new = {e} /\ new[e] = p
    BY <1>1
<1>3. Told(view, EntityEnter(e, p)) = Overwritten(view, new)
    BY <1>1 DEF Told, OnEnter, EntityEnter
<1>4. Enters(view, e, p, Overwritten(view, new))
    BY <1>2 DEF Overwritten, Enters
<1> QED
    BY <1>3, <1>4

LEMMA ToldLeave ==
    ASSUME NEW view, NEW e
    PROVE  Leaves(view, e, Told(view, EntityLeave(e)))
<1>1. Told(view, EntityLeave(e)) = Restrict(view, DOMAIN view \ {e})
    BY DEF Told, OnLeave, EntityLeave
<1>2. Leaves(view, e, Restrict(view, DOMAIN view \ {e}))
    BY DEF Restrict, Leaves
<1> QED
    BY <1>1, <1>2

LEMMA ToldPlace ==
    ASSUME NEW view, NEW at
    PROVE  Updates(view, at, Told(view, PropertySync(at)))
<1>1. Told(view, PropertySync(at)) = Overwritten(view, at)
    BY DEF Told, OnPropertySync, PropertySync
<1>2. Updates(view, at, Overwritten(view, at))
    BY DEF Overwritten, Updates
<1> QED
    BY <1>1, <1>2

LEMMA ToldSpace ==
    ASSUME NEW view
    PROVE  Told(view, SpaceChange) = <<>>
BY DEF Told, OnSpaceChange, SpaceChange

-----------------------------------------------------------------------------
(* What the notices of a witness change.                                     *)
\* Notices about others change nothing about x.
LEMMA NoticesOfOthers ==
    ASSUME NEW m \in Nat, NEW n \in 0 .. m, NEW f, NEW sent, NEW x,
           \A i \in (n + 1) .. m : /\ sent[i] \in Events /\ sent[i].who # x
                                   /\ f[i] = Told(f[i - 1], Notice(sent[i]))
    PROVE  /\ x \in DOMAIN f[m] <=> x \in DOMAIN f[n]
           /\ x \in DOMAIN f[n] => f[m][x] = f[n][x]
<1> DEFINE Same(i) == /\ x \in DOMAIN f[i] <=> x \in DOMAIN f[n]
                      /\ x \in DOMAIN f[n] => f[i][x] = f[n][x]
           T == {i \in n .. m : ~ Same(i)}
<1>1. SUFFICES ASSUME T # {} PROVE FALSE
    <2> HIDE DEF Same
    <2>1. m \in n .. m
        OBVIOUS
    <2>2. T = {} => Same(m)
        BY <2>1
    <2> QED
        BY <2>2 DEF Same
<1>2. PICK i \in T : \A k \in T : i <= k
    <2>1. T \in SUBSET Nat
        OBVIOUS
    <2> HIDE DEF T
    <2> QED
        BY <2>1, <1>1, LeastNatural
<1> HIDE DEF Same
<1>3. i \in n .. m /\ ~ Same(i)
    BY <1>2
<1>4. Same(n)
    BY DEF Same
<1>5. i \in (n + 1) .. m /\ i - 1 \in n .. m /\ ~ (i <= i - 1)
    BY <1>3, <1>4
<1>6. Same(i - 1)
    BY <1>2, <1>5
<1>7. sent[i] \in Events /\ sent[i].who # x /\ f[i] = Told(f[i - 1], Notice(sent[i]))
    BY <1>5
<1>8. PICK e : e = sent[i].who
    OBVIOUS
<1>9. PICK now : now = f[i]
    OBVIOUS
<1>10. PICK view : view = f[i - 1]
    OBVIOUS
<1>11. (x \in DOMAIN now <=> x \in DOMAIN view) /\ (x \in DOMAIN view => now[x] = view[x])
    <2>1. CASE sent[i].kind = "enter"
        <3>1. Notice(sent[i]) = EntityEnter(e, position[e])
            BY <1>8, <2>1 DEF Notice
        <3>2. now = Told(view, EntityEnter(e, position[e]))
            BY <1>7, <1>9, <1>10, <3>1
        <3>3. Enters(view, e, position[e], now)
            BY <3>2, ToldEnter
        <3> QED
            BY <3>3, <1>7, <1>8 DEF Enters
    <2>2. CASE sent[i].kind # "enter"
        <3>1. Notice(sent[i]) = EntityLeave(e)
            BY <1>8, <2>2 DEF Notice
        <3>2. now = Told(view, EntityLeave(e))
            BY <1>7, <1>9, <1>10, <3>1
        <3>3. Leaves(view, e, now)
            BY <3>2, ToldLeave
        <3> QED
            BY <3>3, <1>7, <1>8 DEF Leaves
    <2> QED
        BY <2>1, <2>2
<1> QED
    BY <1>3, <1>6, <1>9, <1>10, <1>11 DEF Same

\* What a client knows of x when it has heard the notices of a witness.
LEMMA NoticesTell ==
    ASSUME NEW o, witness[o] \in Witnesses, NEW view, NEW x
    PROVE  LET said == Says(witness[o].events, x)
               now == Heard(view, Notices(o))
           IN /\ said = "nothing" => /\ x \in DOMAIN now <=> x \in DOMAIN view
                                     /\ x \in DOMAIN view => now[x] = view[x]
              /\ said = "enter" /\ space[x] # Nowhere =>
                    x \in DOMAIN now /\ now[x] = position[x]
              /\ said = "leave" => x \notin DOMAIN now
              /\ IsList(Notices(o))
<1>1. PICK events : events = witness[o].events
    OBVIOUS
<1>2. PICK unsent : unsent = {v \in ToSet(events) : v.kind = "enter" /\ space[v.who] = Nowhere}
    OBVIOUS
<1>3. PICK sent : sent = Others(events, unsent)
    OBVIOUS
<1>4. PICK told : told = [i \in DOMAIN sent |-> Notice(sent[i])]
    OBVIOUS
<1>5. Notices(o) = told
    BY <1>1, <1>2, <1>3, <1>4 DEF Notices
<1>6. events \in Seq(Events)
    BY <1>1 DEF Witnesses
<1>7. /\ sent \in Seq(Events)
      /\ Event(Says(events, x), x) \notin unsent => Says(sent, x) = Says(events, x)
    BY <1>3, <1>6, SaysOthers
<1>8. PICK m \in Nat : m = Len(sent)
    BY <1>7
<1>9. /\ DOMAIN sent = 1 .. m /\ \A i \in 1 .. m : sent[i] \in Events
      /\ told = [i \in 1 .. m |-> Notice(sent[i])]
    BY <1>4, <1>7, <1>8
<1>10. Len(told) = m /\ IsList(told)
    <2>1. told \in Seq({Notice(sent[i]) : i \in 1 .. m})
        BY <1>9
    <2>2. Len(told) = m
        BY <1>9
    <2> QED
        BY <2>1, <2>2, SequenceIsList
<1>11. PICK f : f = Hearing(view, told)
    OBVIOUS
<1>12. f[0] = view /\ \A i \in 1 .. m : f[i] = Told(f[i - 1], Notice(sent[i]))
    <2>1. IsHearing(f, view, told, m)
        BY <1>10, <1>11, HearingIs
    <2> QED
        BY <2>1, <1>9 DEF IsHearing, Hears
<1>13. Heard(view, told) = f[m]
    BY <1>10, <1>11 DEF Heard
<1>14. ASSUME Says(events, x) = "nothing"
       PROVE  /\ x \in DOMAIN f[m] <=> x \in DOMAIN view
              /\ x \in DOMAIN view => f[m][x] = view[x]
    <2>1. Event("nothing", x) \notin unsent
        BY <1>2 DEF Event
    <2>2. Says(sent, x) = "nothing"
        BY <1>7, <1>14, <2>1
    <2>3. \A i \in 1 .. m : sent[i].who # x
        BY <1>7, <1>8, <2>2, SaysIs
    <2>4. PICK n \in 0 .. m : n = 0
        OBVIOUS
    <2>5. \A i \in (n + 1) .. m : /\ sent[i] \in Events /\ sent[i].who # x
                                  /\ f[i] = Told(f[i - 1], Notice(sent[i]))
        BY <1>9, <1>12, <2>3, <2>4
    <2>6. /\ x \in DOMAIN f[m] <=> x \in DOMAIN f[n]
          /\ x \in DOMAIN f[n] => f[m][x] = f[n][x]
        BY <2>5, NoticesOfOthers
    <2> QED
        BY <2>4, <2>6, <1>12
<1>15. ASSUME NEW kind \in {"enter", "leave"}, Says(events, x) = kind,
              kind = "enter" => space[x] # Nowhere
       PROVE  IF kind = "enter" THEN x \in DOMAIN f[m] /\ f[m][x] = position[x]
              ELSE x \notin DOMAIN f[m]
    <2>1. Event(kind, x) \notin unsent
        BY <1>2, <1>15 DEF Event
    <2>2. Says(sent, x) = kind
        BY <1>7, <1>15, <2>1
    <2>3. PICK i \in 1 .. m : /\ sent[i].who = x /\ sent[i] = Event(kind, x)
                              /\ \A j \in 1 .. m : sent[j].who = x => j <= i
        BY <1>7, <1>8, <2>2, SaysIs
    <2>4. i \in 0 .. m /\ \A j \in (i + 1) .. m : /\ sent[j] \in Events /\ sent[j].who # x
                                                 /\ f[j] = Told(f[j - 1], Notice(sent[j]))
        <3>1. \A j \in (i + 1) .. m : j \in 1 .. m /\ ~ (j <= i)
            OBVIOUS
        <3> QED
            BY <1>9, <1>12, <2>3, <3>1
    <2>5. /\ x \in DOMAIN f[m] <=> x \in DOMAIN f[i]
          /\ x \in DOMAIN f[i] => f[m][x] = f[i][x]
        BY <2>4, NoticesOfOthers
    <2>6. f[i] = Told(f[i - 1], Notice(sent[i]))
        BY <1>12
    <2>7. CASE kind = "enter"
        <3>1. Notice(sent[i]) = EntityEnter(x, position[x])
            BY <2>3, <2>7 DEF Notice, Event
        <3>2. x \in DOMAIN f[i] /\ f[i][x] = position[x]
            <4>1. Enters(f[i - 1], x, position[x], f[i])
                BY <2>6, <3>1, ToldEnter
            <4> QED
                BY <4>1 DEF Enters
        <3> QED
            BY <2>5, <2>7, <3>2
    <2>8. CASE kind = "leave"
        <3>1. Notice(sent[i]) = EntityLeave(x)
            BY <2>3, <2>8 DEF Notice, Event
        <3>2. x \notin DOMAIN f[i]
            <4>1. Leaves(f[i - 1], x, f[i])
                BY <2>6, <3>1, ToldLeave
            <4> QED
                BY <4>1 DEF Leaves
        <3> QED
            BY <2>5, <2>8, <3>2
    <2> QED
        BY <2>7, <2>8
<1> QED
    BY <1>1, <1>5, <1>10, <1>13, <1>14, <1>15

-----------------------------------------------------------------------------
(* Clients are told what their witnesses see.                                *)
\* What a client knows when it has heard what is under way to it.
Knows(o) == Heard(known[o], wire[o])

\* With what the witness has to say, it knows who is in view, ...
IsTold(w, view) ==
    \A e \in Entities : e \in w.entries <=>
        \/ Says(w.events, e) = "enter"
        \/ Says(w.events, e) = "nothing" /\ e \in DOMAIN view

\* ... and of those of whom nothing is to be said, where they are.
IsPlaced(o, e, view) ==
    \/ view[e] = position[e] \/ <<space[o], e>> \in DOMAIN staged \/ <<o, e>> \in misled

IsRight(o) ==
    /\ IsTold(witness[o], Knows(o))
    /\ \A e \in witness[o].entries :
        Says(witness[o].events, e) = "nothing" => IsPlaced(o, e, Knows(o))

\* Who is in a space and has no witness has a client with an empty view.
InStep(o) ==
    /\ DOMAIN Knows(o) \subseteq Entities
    /\ Sees(o) => IsRight(o)
    /\ ~ Sees(o) /\ space[o] # Nowhere => DOMAIN Knows(o) = {}

ClientsAreTold ==
    /\ wire = [o \in Avatars |-> wire[o]] /\ known = [o \in Avatars |-> known[o]]
    /\ \A o \in Avatars : IsList(wire[o])
    /\ \A o \in Avatars \ born : known[o] = <<>> /\ wire[o] = <<>>
    /\ \A o \in Avatars \ deaf : InStep(o)

\* Whatever a witness reports, it has something to say about it.
Follows(r, w) ==
    \A e \in Entities :
        \/ Says(r.events, e) = "enter" /\ e \in r.entries
        \/ Says(r.events, e) = "leave" /\ e \notin r.entries
        \/ Says(r.events, e) = Says(w.events, e) /\ (e \in r.entries <=> e \in w.entries)

LEMMA EnteredFollows ==
    ASSUME NEW w \in Witnesses, NEW es \in SUBSET Entities
    PROVE  Entered(w, es) \in Witnesses /\ Follows(Entered(w, es), w)
<1>1. PICK r : r = Entered(w, es)
    OBVIOUS
<1>2. /\ r \in Witnesses /\ r.entries = w.entries \cup es
      /\ r.events = w.events \o SetToSeq({Event("enter", e) : e \in es})
    BY <1>1, EnteredIs
<1>3. w.events \in Seq(Events)
    BY DEF Witnesses
<1>4. \A e : Says(r.events, e) = IF e \in es THEN "enter" ELSE Says(w.events, e)
    BY <1>2, <1>3, SaysMore
<1> QED
    BY <1>1, <1>2, <1>4 DEF Follows

LEMMA LeftFollows ==
    ASSUME NEW w \in Witnesses, NEW es \in SUBSET Entities
    PROVE  /\ Left(w, es) \in Witnesses /\ Follows(Left(w, es), w)
           /\ Left(w, es).entries = w.entries \ es
<1>1. PICK r : r = Left(w, es)
    OBVIOUS
<1>2. /\ r \in Witnesses /\ r.entries = w.entries \ es
      /\ r.events = w.events \o SetToSeq({Event("leave", e) : e \in es})
    BY <1>1, LeftIs
<1>3. w.events \in Seq(Events)
    BY DEF Witnesses
<1>4. \A e : Says(r.events, e) = IF e \in es THEN "leave" ELSE Says(w.events, e)
    BY <1>2, <1>3, SaysMore
<1> QED
    BY <1>1, <1>2, <1>4 DEF Follows

LEMMA RefreshedFollows ==
    ASSUME NEW S \in SUBSET Entities, NEW at \in Positions, NEW list, IsAxis(list, at, S),
           NEW w \in Witnesses, NEW o \in Avatars
    PROVE  Refreshed(w, o, list, at) \in Witnesses /\ Follows(Refreshed(w, o, list, at), w)
<1>1. PICK r : r = Refreshed(w, o, list, at)
    OBVIOUS
<1>2. /\ r \in Witnesses
      /\ \E new, gone \in SUBSET Entities :
            /\ r.entries = Left(Entered(w, new), gone).entries
            /\ r.events = Left(Entered(w, new), gone).events
    BY <1>1, RefreshedIs
<1>3. PICK new \in SUBSET Entities, gone \in SUBSET Entities :
            /\ r.entries = Left(Entered(w, new), gone).entries
            /\ r.events = Left(Entered(w, new), gone).events
    BY <1>2
<1>4. PICK v : v = Entered(w, new)
    OBVIOUS
<1>5. PICK u : u = Left(v, gone)
    OBVIOUS
<1>6. v \in Witnesses /\ Follows(v, w)
    BY <1>4, EnteredFollows
<1>7. Follows(u, v)
    BY <1>5, <1>6, LeftFollows
<1>8. r.entries = u.entries /\ r.events = u.events
    BY <1>3, <1>4, <1>5
<1> QED
    BY <1>1, <1>2, <1>6, <1>7, <1>8 DEF Follows

\* A step that moves only who is moving in this tick, or is not in view.
LEMMA StaysInStep ==
    ASSUME Typed, NEW o \in Avatars, InStep(o), Sees(o), Sees(o)',
           Follows(witness'[o], witness[o]), witness'[o] \in Witnesses,
           known'[o] = known[o], wire'[o] = wire[o], space'[o] = space[o], UNCHANGED misled,
           \A e \in witness'[o].entries :
                /\ position'[e] # position[e] => <<space[o], e>> \in DOMAIN staged'
                /\ <<space[o], e>> \in DOMAIN staged => <<space[o], e>> \in DOMAIN staged'
    PROVE  InStep(o)'
<1>1. PICK view : view = Knows(o)
    OBVIOUS
<1>2. Knows(o)' = view
    BY <1>1 DEF Knows
<1>3. PICK r \in Witnesses : r = witness'[o]
    OBVIOUS
<1>4. PICK w : w = witness[o]
    OBVIOUS
<1>5. Follows(r, w) /\ IsTold(w, view) /\ r.entries \subseteq Entities
    BY <1>1, <1>3, <1>4 DEF InStep, IsRight, Witnesses
<1>6. IsTold(r, view)
    BY <1>5 DEF Follows, IsTold
<1>7. ASSUME NEW e \in r.entries, Says(r.events, e) = "nothing"
      PROVE  Says(w.events, e) = "nothing" /\ e \in w.entries
    BY <1>5, <1>7 DEF Follows
<1>8. ASSUME NEW e \in r.entries, Says(r.events, e) = "nothing"
      PROVE  IsPlaced(o, e, view)'
    <2>1. IsPlaced(o, e, view)
        BY <1>1, <1>4, <1>7, <1>8 DEF InStep, IsRight
    <2>2. /\ position'[e] # position[e] => <<space[o], e>> \in DOMAIN staged'
          /\ <<space[o], e>> \in DOMAIN staged => <<space[o], e>> \in DOMAIN staged'
        BY <1>3, <1>8
    <2> QED
        BY <2>1, <2>2 DEF IsPlaced
<1>9. IsRight(o)'
    BY <1>2, <1>3, <1>6, <1>8 DEF IsRight
<1> QED
    BY <1>1, <1>2, <1>9 DEF InStep

\* Who has no witness is still told nothing.
LEMMA StaysSilent ==
    ASSUME NEW o \in Avatars, InStep(o), ~ Sees(o), ~ Sees(o)',
           known'[o] = known[o], wire'[o] = wire[o], space'[o] # Nowhere => space[o] # Nowhere
    PROVE  InStep(o)'
<1>1. Knows(o)' = Knows(o)
    BY DEF Knows
<1> QED
    BY <1>1 DEF InStep

\* removeEntity and teleportEntity: the other witnesses.
LEMMA WithoutFollows ==
    ASSUME Typed, NEW e \in Entities, witness' = Without(e), NEW o \in Avatars, o # e, Sees(o)
    PROVE  /\ witness'[o] \in Witnesses /\ Sees(o)' /\ Follows(witness'[o], witness[o])
           /\ witness'[o].entries \subseteq witness[o].entries
           /\ space[o] = space[e] => e \notin witness'[o].entries
<1>1. PICK w \in Witnesses : w = witness[o]
    BY DEF Typed, Sees
<1>2. PICK es \in SUBSET Entities : es = {e}
    OBVIOUS
<1>3. witness'[o] = IF space[o] = space[e] THEN Left(w, es) ELSE w
    BY <1>1, <1>2 DEF Without
<1>4. /\ Left(w, es) \in Witnesses /\ Follows(Left(w, es), w)
      /\ Left(w, es).entries = w.entries \ es
    BY LeftFollows
<1>5. Follows(w, w)
    BY DEF Follows
<1>6. witness'[o] \in Witnesses
    BY <1>3, <1>4
<1>7. Sees(o)'
    BY <1>6, WitnessAssumption DEF Sees
<1> QED
    BY <1>1, <1>2, <1>3, <1>4, <1>5, <1>6, <1>7

\* Nobody is in the view of a witness who is not in its space.
LEMMA InViewInSpace ==
    ASSUME Typed, Present, WitnessesAreSound, NEW o \in Avatars, Sees(o)
    PROVE  \A e \in witness[o].entries : e \in Entities /\ space[e] = space[o] /\ space[e] # Nowhere
<1>1. Reported(o) /\ space[o] # Nowhere /\ witness[o] \in Witnesses
    BY DEF Typed, Present, WitnessesAreSound, Sees
<1> QED
    BY <1>1 DEF Reported, Witnesses

\* What the client invariant says beside each client being in step.
LEMMA StillTold ==
    ASSUME ClientsAreTold, UNCHANGED <<wire, known, deaf>>, born \subseteq born',
           \A o \in Avatars \ deaf : InStep(o)'
    PROVE  ClientsAreTold'
BY DEF ClientsAreTold

LEMMA AddedInStep ==
    ASSUME Inv, ClientsAreTold, NEW e \in Entities, space[e] = Nowhere,
           NEW s \in Spaces, NEW p \in Points, Added(e, s, p),
           UNCHANGED <<witness, staged, wire, known, misled, deaf>>,
           born \subseteq born', e \in Avatars => e \notin born
    PROVE  ClientsAreTold'
<1>1. Typed /\ Present /\ WitnessesAreSound
    BY DEF Inv
<1>2. /\ \A f \in Entities \ {e} : space'[f] = space[f]
      /\ \A f \in Entities \ {e} : position'[f] = position[f]
    <2>1. space \in [Entities -> Spaces \cup {Nowhere}] /\ position \in [Entities -> Points]
        BY DEF Inv, Typed, AreAxes, Start
    <2>2. space' = [space EXCEPT ![e] = s] /\ position' = [position EXCEPT ![e] = p]
        BY DEF Added
    <2> QED
        BY <2>1, <2>2
<1>3. ASSUME NEW o \in Avatars \ deaf
      PROVE  InStep(o)'
    <2>1. InStep(o) /\ o \in Avatars /\ o \in Entities /\ (Sees(o)' <=> Sees(o))
        BY DEF ClientsAreTold, Entities, Sees
    <2>2. CASE o = e
        <3>1. known'[o] = <<>> /\ wire'[o] = <<>> /\ ~ Sees(o)'
            BY <1>1, <2>1, <2>2 DEF ClientsAreTold, Present
        <3>2. Knows(o)' = <<>>
            BY <3>1, HeardNothing DEF Knows
        <3>3. DOMAIN <<>> = {}
            OBVIOUS
        <3> QED
            BY <3>1, <3>2, <3>3 DEF InStep
    <2>3. CASE o # e /\ Sees(o)
        <3>1. \A f \in witness[o].entries : f \in Entities /\ f # e
            BY <1>1, <2>1, <2>3, InViewInSpace
        <3>2. Follows(witness'[o], witness[o]) /\ witness'[o] \in Witnesses
            BY <1>1, <2>1, <2>3 DEF Follows, Typed, Sees
        <3>3. space'[o] = space[o]
            BY <1>2, <2>1, <2>3
        <3> QED
            BY <1>1, <1>2, <2>1, <2>3, <3>1, <3>2, <3>3, StaysInStep
    <2>4. CASE o # e /\ ~ Sees(o)
        BY <1>2, <2>1, <2>4, StaysSilent
    <2> QED
        BY <2>2, <2>3, <2>4
<1> QED
    BY <1>3, StillTold

LEMMA CreatedInStep ==
    ASSUME Inv, ClientsAreTold, NEW e \in Entities, NEW s \in Spaces, NEW p \in Points,
           CreateCell(e, s, p) \/ CreateEntity(e, p)
    PROVE  ClientsAreTold'
<1>1. CASE CreateCell(e, s, p)
    <2>1. /\ Added(e, s, p) /\ UNCHANGED <<witness, staged, wire, known, misled, deaf>>
          /\ born' = born \cup {e} /\ e \in Avatars /\ e \notin born
        BY <1>1 DEF CreateCell
    <2>2. space[e] = Nowhere
        BY <2>1, SpacesAssumption DEF Inv, Typed, Present
    <2>3. born \subseteq born'
        BY <2>1
    <2> QED
        BY <2>1, <2>2, <2>3, AddedInStep
<1>2. CASE CreateEntity(e, p)
    <2>1. /\ Added(e, Default, p) /\ UNCHANGED <<witness, staged, wire, known, misled, deaf>>
          /\ born' = born /\ e \in Npcs /\ e \notin held
        BY <1>2 DEF CreateEntity
    <2>2. space[e] = Nowhere /\ Default \in Spaces /\ e \notin Avatars
        BY <2>1, SpacesAssumption DEF Inv, Typed, Present
    <2>3. born \subseteq born'
        BY <2>1
    <2> QED
        BY <2>1, <2>2, <2>3, AddedInStep
<1> QED
    BY <1>1, <1>2

LEMMA DestroyedInStep ==
    ASSUME Inv, ClientsAreTold, NEW e \in Entities, DestroyCell(e) \/ DestroyEntity(e)
    PROVE  ClientsAreTold'
<1>1. Typed /\ Present /\ WitnessesAreSound
    BY DEF Inv
<1>2. /\ Removed(e) /\ UNCHANGED <<position, born, staged, wire, known, misled, deaf>>
    BY DEF DestroyCell, DestroyEntity
<1>3. CASE space[e] = Nowhere
    <2>1. UNCHANGED <<witness, space>>
        BY <1>2, <1>3 DEF Removed
    <2> QED
        BY <1>2, <2>1 DEF ClientsAreTold, InStep, IsRight, IsTold, IsPlaced, Knows, Sees
<1>4. CASE space[e] # Nowhere
    <2>1. witness' = Without(e) /\ space' = [space EXCEPT ![e] = Nowhere]
        BY <1>2, <1>4 DEF Removed
    <2>2. space'[e] = Nowhere /\ \A f \in Entities \ {e} : space'[f] = space[f]
        BY <1>1, <2>1 DEF Typed
    <2>3. ASSUME NEW o \in Avatars \ deaf
          PROVE  InStep(o)'
        <3>1. InStep(o) /\ o \in Avatars /\ o \in Entities
            BY DEF ClientsAreTold, Entities
        <3>2. CASE o = e
            <4>1. ~ Sees(o)' /\ space'[o] = Nowhere
                BY <2>1, <2>2, <3>1, <3>2 DEF Without, Sees
            <4>2. Knows(o)' = Knows(o)
                BY <1>2 DEF Knows
            <4> QED
                BY <3>1, <4>1, <4>2 DEF InStep
        <3>3. CASE o # e /\ Sees(o)
            <4>1. Sees(o)' /\ Follows(witness'[o], witness[o]) /\ witness'[o] \in Witnesses
                BY <1>1, <2>1, <3>1, <3>3, WithoutFollows
            <4>2. space'[o] = space[o]
                BY <2>2, <3>1, <3>3
            <4> QED
                BY <1>1, <1>2, <3>1, <3>3, <4>1, <4>2, StaysInStep
        <3>4. CASE o # e /\ ~ Sees(o)
            <4>1. ~ Sees(o)' /\ space'[o] = space[o]
                BY <2>1, <2>2, <3>1, <3>4 DEF Without, Sees
            <4> QED
                BY <1>2, <3>1, <3>4, <4>1, StaysSilent
        <3> QED
            BY <3>2, <3>3, <3>4
    <2> QED
        BY <1>2, <2>3, StillTold
<1> QED
    BY <1>3, <1>4

LEMMA TeleportedInStep ==
    ASSUME Inv, ClientsAreTold, NEW e \in Entities, NEW s \in Spaces, NEW p \in Points,
           HandleTeleport(e, s, p) \/ ScriptTeleport(e, s, p)
    PROVE  ClientsAreTold'
<1>12. CASE IdleRequest(e, s)
    <2>1. UNCHANGED <<space, position, born, witness, staged, wire, known, misled, deaf>>
        BY <1>12 DEF IdleRequest, historyVars
    <2> QED
        BY <2>1 DEF ClientsAreTold, InStep, IsRight, IsTold, IsPlaced, Knows, Sees
<1>13. SUFFICES ASSUME ~ IdleRequest(e, s) PROVE ClientsAreTold'
    BY <1>12
<1>1. Typed /\ Present /\ WitnessesAreSound
    BY DEF Inv
<1>2. /\ space[e] # Nowhere /\ space' = [space EXCEPT ![e] = s] /\ witness' = Without(e)
      /\ position' = [position EXCEPT ![e] = p]
      /\ \/ wire' = wire /\ deaf' = deaf /\ e \notin Avatars
         \/ wire' = [wire EXCEPT ![e] = Append(wire[e], SpaceChange)] /\ deaf' = deaf
         \/ wire' = wire /\ deaf' = deaf \cup {e}
      /\ UNCHANGED <<born, staged, known, misled>>
    <2>1. TeleportEntity(e, s, p)
        BY <1>13 DEF HandleTeleport, ScriptTeleport, IdleRequest
    <2> QED
        BY <2>1 DEF TeleportEntity, SpaceChanged
<1>3. /\ \A f \in Entities \ {e} : space'[f] = space[f]
      /\ \A f \in Entities \ {e} : position'[f] = position[f]
    <2>1. space \in [Entities -> Spaces \cup {Nowhere}] /\ position \in [Entities -> Points]
        BY DEF Inv, Typed, AreAxes, Start
    <2> QED
        BY <1>2, <2>1
<1>4. e \in Avatars => e \in born
    BY <1>1, <1>2, SpacesAssumption DEF Typed, Present
<1>5. wire = [o \in Avatars |-> wire[o]]
    BY DEF ClientsAreTold
<1>6. \A o \in Avatars : o # e => wire'[o] = wire[o]
    BY <1>2, <1>5
<1>7. ASSUME e \in Avatars, wire' = [wire EXCEPT ![e] = Append(wire[e], SpaceChange)]
      PROVE  IsList(wire'[e]) /\ Heard(known[e], wire'[e]) = <<>>
    <2>1. PICK q : q = wire[e]
        OBVIOUS
    <2>2. IsList(q)
        BY <1>7, <2>1 DEF ClientsAreTold
    <2>3. wire'[e] = Append(q, SpaceChange)
        BY <1>2, <1>5, <1>7, <2>1
    <2>4. PICK r : r = <<SpaceChange>>
        OBVIOUS
    <2>5. Append(q, SpaceChange) = q \o r
        BY <2>2, <2>4 DEF IsList
    <2>6. IsList(r) /\ Heard(Heard(known[e], q), r) = <<>>
        BY <2>4, HeardOne, ToldSpace
    <2>7. Heard(known[e], q \o r) = <<>>
        BY <2>2, <2>6, HeardJoined
    <2>8. IsList(q \o r)
        BY <2>2, <2>6, ListJoined
    <2> QED
        BY <2>3, <2>5, <2>7, <2>8
<1>14. e \in Avatars => wire' = wire \/ IsList(wire'[e])
    BY <1>7, <1>2
<1>8. ASSUME NEW o \in Avatars \ deaf'
      PROVE  InStep(o)'
    <2>1. InStep(o) /\ o \in Avatars /\ o \in Entities
        BY <1>2 DEF ClientsAreTold, Entities
    <2>2. CASE o = e
        <3>1. ~ Sees(o)'
            BY <1>2, <2>1, <2>2 DEF Without, Sees
        <3>2. Knows(o)' = <<>>
            BY <1>2, <1>7, <2>1, <2>2 DEF Knows
        <3>3. DOMAIN <<>> = {}
            OBVIOUS
        <3> QED
            BY <3>1, <3>2, <3>3 DEF InStep
    <2>3. CASE o # e /\ Sees(o)
        <3>1. /\ Sees(o)' /\ Follows(witness'[o], witness[o]) /\ witness'[o] \in Witnesses
              /\ witness'[o].entries \subseteq witness[o].entries
              /\ space[o] = space[e] => e \notin witness'[o].entries
            BY <1>1, <1>2, <2>1, <2>3, WithoutFollows
        <3>2. \A f \in witness'[o].entries : f \in Entities /\ f # e
            BY <1>1, <2>1, <2>3, <3>1, InViewInSpace
        <3>3. space'[o] = space[o] /\ wire'[o] = wire[o]
            BY <1>3, <1>6, <2>1, <2>3
        <3> QED
            BY <1>1, <1>2, <1>3, <2>1, <2>3, <3>1, <3>2, <3>3, StaysInStep
    <2>4. CASE o # e /\ ~ Sees(o)
        <3>1. ~ Sees(o)' /\ space'[o] = space[o] /\ wire'[o] = wire[o]
            BY <1>2, <1>3, <1>6, <2>1, <2>4 DEF Without, Sees
        <3> QED
            BY <1>2, <2>1, <2>4, <3>1, StaysSilent
    <2> QED
        BY <2>2, <2>3, <2>4
<1>9. wire' = [o \in Avatars |-> wire'[o]] /\ \A o \in Avatars : IsList(wire'[o])
    <2>1. wire' = [o \in Avatars |-> wire'[o]]
        BY <1>2, <1>5
    <2>2. \A o \in Avatars : IsList(wire'[o])
        <3>1. wire' = wire \/ (e \in Avatars => IsList(wire'[e]))
            BY <1>14
        <3> QED
            BY <1>6, <3>1 DEF ClientsAreTold
    <2> QED
        BY <2>1, <2>2
<1>10. \A o \in Avatars \ born : known'[o] = <<>> /\ wire'[o] = <<>>
    BY <1>2, <1>4, <1>6 DEF ClientsAreTold
<1>11. known' = [o \in Avatars |-> known'[o]] /\ born' = born
    BY <1>2 DEF ClientsAreTold
<1> QED
    BY <1>8, <1>9, <1>10, <1>11 DEF ClientsAreTold

LEMMA SpaceDestroyedInStep ==
    ASSUME Inv, ClientsAreTold, NEW s \in Spaces, DestroySpace(s)
    PROVE  ClientsAreTold'
<1>1. Typed /\ Present /\ WitnessesAreSound
    BY DEF Inv
<1>2. ToSet(axis[s]) = Members(s)
    BY DestroyedAxes DEF Inv
<1>3. /\ space' = [e \in Entities |-> IF e \in Members(s) THEN Nowhere ELSE space[e]]
      /\ witness' = [o \in Avatars |-> IF o \in Members(s) THEN Nowhere ELSE witness[o]]
      /\ staged' = Restrict(staged, {d \in DOMAIN staged : d[1] # s})
      /\ UNCHANGED <<position, born, wire, known, misled, deaf>>
    BY <1>2 DEF DestroySpace
<1>4. ASSUME NEW o \in Avatars \ deaf
      PROVE  InStep(o)'
    <2>1. InStep(o) /\ o \in Avatars /\ o \in Entities
        BY DEF ClientsAreTold, Entities
    <2>2. CASE o \in Members(s)
        <3>1. ~ Sees(o)' /\ space'[o] = Nowhere
            BY <1>3, <2>1, <2>2 DEF Sees
        <3>2. Knows(o)' = Knows(o)
            BY <1>3 DEF Knows
        <3> QED
            BY <2>1, <3>1, <3>2 DEF InStep
    <2>3. CASE o \notin Members(s) /\ Sees(o)
        <3>1. witness'[o] = witness[o] /\ space'[o] = space[o] /\ space[o] # s /\ Sees(o)'
            BY <1>3, <2>1, <2>3 DEF Members, Sees
        <3>2. Follows(witness'[o], witness[o]) /\ witness'[o] \in Witnesses
            BY <1>1, <2>1, <2>3, <3>1 DEF Follows, Typed, Sees
        <3>3. \A f : <<space[o], f>> \in DOMAIN staged => <<space[o], f>> \in DOMAIN staged'
            BY <1>3, <3>1 DEF Restrict
        <3> QED
            BY <1>1, <1>3, <2>1, <2>3, <3>1, <3>2, <3>3, StaysInStep
    <2>4. CASE o \notin Members(s) /\ ~ Sees(o)
        <3>1. ~ Sees(o)' /\ space'[o] = space[o]
            BY <1>3, <2>1, <2>4 DEF Sees
        <3> QED
            BY <1>3, <2>1, <2>4, <3>1, StaysSilent
    <2> QED
        BY <2>2, <2>3, <2>4
<1> QED
    BY <1>3, <1>4, StillTold

LEMMA WatchedInStep ==
    ASSUME Inv, ClientsAreTold, NEW o \in Avatars, NEW range \in Ranges, Watch(o, range)
    PROVE  ClientsAreTold'
<1>1. Typed /\ Present /\ WitnessesAreSound /\ AreAxes(Start)
    BY DEF Inv
<1>2. PICK w : w = IF Sees(o) THEN [witness[o] EXCEPT !.range = range] ELSE NewWitness(range)
    OBVIOUS
<1>3. PICK r : r = Refreshed(w, o, axis[space[o]], position)
    OBVIOUS
<1>4. /\ witness' = [witness EXCEPT ![o] = r] /\ space[o] # Nowhere
      /\ UNCHANGED <<space, position, born, staged, wire, known, misled, deaf>>
    BY <1>2, <1>3 DEF Watch, placeVars
<1>5. witness \in [Avatars -> Witnesses \cup {Nowhere}]
    BY <1>1 DEF Typed
<1>6. /\ w \in Witnesses
      /\ Sees(o) => w.events = witness[o].events /\ w.entries = witness[o].entries
      /\ ~ Sees(o) => w.events = <<>> /\ w.entries = {}
    <2>1. CASE Sees(o)
        <3>1. PICK v \in Witnesses : v = witness[o]
            BY <1>5, <2>1 DEF Sees
        <3>2. w = [v EXCEPT !.range = range]
            BY <1>2, <2>1, <3>1
        <3> QED
            BY <2>1, <3>1, <3>2 DEF Witnesses
    <2>2. CASE ~ Sees(o)
        <3>1. w = NewWitness(range)
            BY <1>2, <2>2
        <3> QED
            BY <2>2, <3>1 DEF NewWitness, Witnesses
    <2> QED
        BY <2>1, <2>2
<1>7. r \in Witnesses /\ Follows(r, w)
    <2>1. space[o] \in Spaces
        BY <1>1, <1>4 DEF Typed, Entities
    <2>2. IsAxis(axis[space[o]], position, Members(space[o])) /\ position \in Positions
        BY <1>1, <2>1, PointsArePlaces DEF AreAxes, Start
    <2>3. Members(space[o]) \in SUBSET Entities
        BY DEF Members
    <2> QED
        BY <1>3, <1>6, <2>2, <2>3, RefreshedFollows
<1>8. /\ witness'[o] = r /\ Sees(o)'
      /\ \A a \in Avatars \ {o} : witness'[a] = witness[a] /\ (Sees(a)' <=> Sees(a))
    BY <1>4, <1>5, <1>7, WitnessAssumption DEF Sees
<1>9. ASSUME NEW a \in Avatars \ deaf
      PROVE  InStep(a)'
    <2>1. InStep(a) /\ a \in Avatars /\ known'[a] = known[a] /\ wire'[a] = wire[a]
        BY <1>4 DEF ClientsAreTold
    <2>2. CASE a = o /\ ~ Sees(o)
        <3>1. PICK view : view = Knows(o)
            OBVIOUS
        <3>2. Knows(o)' = view /\ DOMAIN view = {}
            BY <1>4, <2>1, <2>2, <3>1 DEF Knows, InStep
        <3>3. \A e \in Entities : Says(w.events, e) = "nothing" /\ e \notin w.entries
            <4>1. Len(<<>>) = 0
                OBVIOUS
            <4>2. \A e : \A i \in 1 .. Len(<<>>) : <<>>[i].who # e
                BY <4>1
            <4> QED
                BY <1>6, <2>2, <4>2, SaysNothing
        <3>4. IsTold(r, view)
            BY <1>7, <3>2, <3>3 DEF Follows, IsTold
        <3>5. \A e \in r.entries : Says(r.events, e) # "nothing"
            BY <1>7, <3>3 DEF Follows, Witnesses
        <3>6. IsRight(o)'
            BY <1>8, <3>2, <3>4, <3>5 DEF IsRight
        <3> QED
            BY <1>8, <2>2, <3>2, <3>6 DEF InStep
    <2>3. CASE a = o /\ Sees(o)
        <3>1. Follows(witness'[o], witness[o])
            BY <1>6, <1>7, <1>8, <2>3 DEF Follows
        <3> QED
            BY <1>1, <1>4, <1>7, <1>8, <2>1, <2>3, <3>1, StaysInStep
    <2>4. CASE a # o /\ Sees(a)
        <3>1. Follows(witness'[a], witness[a]) /\ witness'[a] \in Witnesses
            BY <1>5, <1>8, <2>1, <2>4 DEF Follows, Sees
        <3> QED
            BY <1>1, <1>4, <1>8, <2>1, <2>4, <3>1, StaysInStep
    <2>5. CASE a # o /\ ~ Sees(a)
        BY <1>4, <1>8, <2>1, <2>5, StaysSilent
    <2> QED
        BY <2>2, <2>3, <2>4, <2>5
<1> QED
    BY <1>4, <1>9, StillTold

\* Who moves in the tick has its position staged.
LEMMA MovedInStep ==
    ASSUME Inv, Inv', ClientsAreTold, NEW movers \in SUBSET Entities, NEW to \in [movers -> Points],
           EntityPhase(movers, to)
    PROVE  ClientsAreTold'
<1>1. Typed /\ Present /\ WitnessesAreSound /\ AreAxes(Start)
    BY DEF Inv
<1>2. PICK now : now = Moved(movers, to)
    OBVIOUS
<1>3. PICK new : new = [d \in {<<space[e], e>> : e \in movers} |-> to[d[2]]]
    OBVIOUS
<1>4. /\ position' = now.at /\ staged' = Overwritten(staged, new)
      /\ witness' = [o \in Avatars |->
            IF Sees(o) THEN Refreshed(witness[o], o, now.axis[space[o]], now.at) ELSE Nowhere]
      /\ UNCHANGED <<space, born, wire, known, misled, deaf>>
      /\ \A e \in movers : space[e] # Nowhere
    BY <1>2, <1>3 DEF EntityPhase
<1>5. /\ AreAxes(now)
      /\ \A e \in Entities : e \notin movers => position'[e] = position[e]
    <2>1. \A e \in movers : space[e] \in Spaces
        BY <1>1, <1>4 DEF Typed
    <2>2. /\ AreAxes(now)
          /\ \A e \in Entities : now.at[e] = IF e \in movers THEN to[e] ELSE position[e]
        BY <1>1, <1>2, <2>1, MovedIs
    <2> QED
        BY <1>4, <2>2
<1>6. /\ \A e \in movers : <<space[e], e>> \in DOMAIN staged'
      /\ DOMAIN staged \subseteq DOMAIN staged'
    <2>1. DOMAIN staged' = DOMAIN staged \cup DOMAIN new
        BY <1>4 DEF Overwritten
    <2>2. \A e \in movers : <<space[e], e>> \in DOMAIN new
        BY <1>3
    <2> QED
        BY <2>1, <2>2
<1>7. ASSUME NEW o \in Avatars \ deaf
      PROVE  InStep(o)'
    <2>1. InStep(o) /\ o \in Avatars /\ o \in Entities
        BY DEF ClientsAreTold, Entities
    <2>2. CASE Sees(o)
        <3>1. PICK w \in Witnesses : w = witness[o]
            BY <1>1, <2>1, <2>2 DEF Typed, Sees
        <3>2. witness'[o] = Refreshed(w, o, now.axis[space[o]], now.at)
            BY <1>4, <2>1, <2>2, <3>1
        <3>3. IsAxis(now.axis[space[o]], now.at, Members(space[o])) /\ now.at \in Positions
            <4>1. space[o] \in Spaces
                BY <1>1, <2>1, <2>2 DEF Typed, Present
            <4> QED
                BY <1>5, <4>1, PointsArePlaces DEF AreAxes
        <3>4. Members(space[o]) \in SUBSET Entities
            BY DEF Members
        <3>5. witness'[o] \in Witnesses /\ Follows(witness'[o], w)
            BY <2>1, <3>2, <3>3, <3>4, RefreshedFollows
        <3>6. Sees(o)'
            BY <3>5, WitnessAssumption DEF Sees
        <3>7. \A e \in witness'[o].entries : e \in Entities /\ space[e] = space[o]
            <4>1. Reported(o)'
                BY <2>1, <3>6 DEF Inv, WitnessesAreSound
            <4>2. witness'[o].entries \subseteq Entities
                BY <3>5 DEF Witnesses
            <4> QED
                BY <1>4, <4>1, <4>2 DEF Reported
        <3>8. \A e \in witness'[o].entries :
                /\ position'[e] # position[e] => <<space[o], e>> \in DOMAIN staged'
                /\ <<space[o], e>> \in DOMAIN staged => <<space[o], e>> \in DOMAIN staged'
            BY <1>5, <1>6, <3>7
        <3> QED
            BY <1>1, <1>4, <2>1, <2>2, <3>1, <3>5, <3>6, <3>8, StaysInStep
    <2>3. CASE ~ Sees(o)
        <3>1. ~ Sees(o)'
            BY <1>4, <2>1, <2>3 DEF Sees
        <3> QED
            BY <1>4, <2>1, <2>3, <3>1, StaysSilent
    <2> QED
        BY <2>2, <2>3
<1> QED
    BY <1>4, <1>7, StillTold

\* What a client knows when it has heard the notices too: who is in view, and where
\* those are who have entered or have not moved.
LEMMA NoticesShow ==
    ASSUME Inv, NEW o \in Avatars, Sees(o), InStep(o), NEW view, view = Heard(Knows(o), Notices(o))
    PROVE  /\ DOMAIN view = witness[o].entries
           /\ \A e \in witness[o].entries :
                \/ view[e] = position[e]
                \/ /\ Says(witness[o].events, e) = "nothing"
                   /\ <<space[o], e>> \in DOMAIN staged \/ <<o, e>> \in misled
           /\ IsList(Notices(o)) /\ witness[o] \in Witnesses
<1>1. Typed /\ Present /\ WitnessesAreSound
    BY DEF Inv
<1>2. PICK before : before = Knows(o)
    OBVIOUS
<1>3. PICK w \in Witnesses : w = witness[o]
    BY <1>1 DEF Typed, Sees
<1>4. ASSUME NEW x
      PROVE  /\ Says(w.events, x) = "nothing" => /\ x \in DOMAIN view <=> x \in DOMAIN before
                                                 /\ x \in DOMAIN before => view[x] = before[x]
             /\ Says(w.events, x) = "enter" /\ space[x] # Nowhere =>
                    x \in DOMAIN view /\ view[x] = position[x]
             /\ Says(w.events, x) = "leave" => x \notin DOMAIN view
             /\ IsList(Notices(o))
    BY <1>2, <1>3, NoticesTell
<1>5. /\ DOMAIN before \subseteq Entities /\ IsTold(w, before) /\ w.entries \subseteq Entities
      /\ \A e \in w.entries : Says(w.events, e) = "nothing" => IsPlaced(o, e, before)
    BY <1>2, <1>3 DEF InStep, IsRight, Witnesses
<1>6. \A e \in w.entries : space[e] # Nowhere
    BY <1>1, <1>3, InViewInSpace
<1>7. w.events \in Seq(Events)
    BY DEF Witnesses
<1>8. \A x : Says(w.events, x) \in {"nothing", "enter", "leave"}
    BY <1>7, SaysIs
<1>9. \A x : x \notin Entities => Says(w.events, x) = "nothing"
    <2> SUFFICES ASSUME NEW x, x \notin Entities PROVE Says(w.events, x) = "nothing"
        OBVIOUS
    <2>1. ASSUME NEW i \in 1 .. Len(w.events)
          PROVE  w.events[i].who # x
        <3>1. w.events[i] \in Events
            BY <1>7
        <3> QED
            BY <3>1 DEF Events
    <2> QED
        BY <2>1, SaysNothing
<1>10. ASSUME NEW e \in w.entries
       PROVE  /\ e \in DOMAIN view
              /\ \/ view[e] = position[e]
                 \/ /\ Says(w.events, e) = "nothing"
                    /\ <<space[o], e>> \in DOMAIN staged \/ <<o, e>> \in misled
    <2>1. \/ Says(w.events, e) = "enter"
          \/ Says(w.events, e) = "nothing" /\ e \in DOMAIN before
        BY <1>5 DEF IsTold
    <2> QED
        BY <2>1, <1>4, <1>5, <1>6 DEF IsPlaced
<1>11. ASSUME NEW x \in DOMAIN view
       PROVE  x \in w.entries
    <2>1. Says(w.events, x) # "leave"
        BY <1>4
    <2>2. Says(w.events, x) = "nothing" => x \in DOMAIN before
        BY <1>4
    <2>3. x \in Entities
        BY <1>5, <1>9, <2>2
    <2> QED
        BY <1>5, <1>8, <2>1, <2>2, <2>3 DEF IsTold
<1>12. DOMAIN view = w.entries
    BY <1>10, <1>11
<1> QED
    BY <1>3, <1>4, <1>10, <1>12

\* What a witness has to say, and where those are who have moved.
LEMMA OutgoingShows ==
    ASSUME Inv, NEW o \in Avatars, Sees(o), InStep(o), NEW view, view = Heard(Knows(o), Outgoing(o))
    PROVE  /\ DOMAIN view = witness[o].entries
           /\ \A e \in witness[o].entries :
                \/ view[e] = position[e]
                \/ e \in Misplaced(o)
                \/ <<o, e>> \in misled /\ e \notin Shown(o)
           /\ IsList(Outgoing(o))
<1>1. PICK before : before = Heard(Knows(o), Notices(o))
    OBVIOUS
<1>2. PICK w \in Witnesses : w = witness[o]
    BY <1>1, NoticesShow
<1>3. /\ DOMAIN before = w.entries /\ IsList(Notices(o))
      /\ \A e \in w.entries :
            \/ before[e] = position[e]
            \/ /\ Says(w.events, e) = "nothing"
               /\ <<space[o], e>> \in DOMAIN staged \/ <<o, e>> \in misled
    BY <1>1, <1>2, NoticesShow
<1>4. PICK dirty : dirty = Dirty(o)
    OBVIOUS
<1>5. dirty = {e \in w.entries : <<space[o], e>> \in DOMAIN staged}
    BY <1>2, <1>4 DEF Dirty
<1>6. PICK at : at = [e \in dirty |-> staged[<<space[o], e>>]]
    OBVIOUS
<1>7. IsList(Deltas(o)) /\ Updates(before, at, Heard(before, Deltas(o)))
    <2>1. CASE dirty = {}
        <3>1. Deltas(o) = <<>>
            BY <1>4, <2>1 DEF Deltas
        <3>2. IsList(<<>>)
            BY DEF IsList, ToSet
        <3>3. Heard(before, Deltas(o)) = before
            BY <3>1, HeardNothing
        <3>4. Updates(before, at, before)
            BY <1>6, <2>1 DEF Updates
        <3> QED
            BY <3>1, <3>2, <3>3, <3>4
    <2>2. CASE dirty # {}
        <3>1. Deltas(o) = <<PropertySync(at)>>
            BY <1>4, <1>6, <2>2 DEF Deltas
        <3>2. IsList(Deltas(o)) /\ Heard(before, Deltas(o)) = Told(before, PropertySync(at))
            BY <3>1, HeardOne
        <3> QED
            BY <3>2, ToldPlace
    <2> QED
        BY <2>1, <2>2
<1>8. view = Heard(before, Deltas(o)) /\ IsList(Outgoing(o))
    <2>1. PICK q : q = Notices(o)
        OBVIOUS
    <2>2. PICK r : r = Deltas(o)
        OBVIOUS
    <2>3. Outgoing(o) = q \o r
        BY <2>1, <2>2 DEF Outgoing
    <2>4. Heard(Knows(o), q \o r) = Heard(Heard(Knows(o), q), r) /\ IsList(q \o r)
        BY <1>3, <1>7, <2>1, <2>2, HeardJoined, ListJoined
    <2> QED
        BY <1>1, <2>1, <2>2, <2>3, <2>4
<1>9. /\ DOMAIN view = w.entries
      /\ \A e \in w.entries : view[e] = IF e \in dirty THEN staged[<<space[o], e>>] ELSE before[e]
    BY <1>3, <1>5, <1>6, <1>7, <1>8 DEF Updates
<1>10. ASSUME NEW e \in w.entries
       PROVE  \/ view[e] = position[e]
              \/ e \in Misplaced(o)
              \/ <<o, e>> \in misled /\ e \notin Shown(o)
    <2>1. CASE e \in dirty
        <3>1. view[e] = staged[<<space[o], e>>]
            BY <1>9, <2>1
        <3> QED
            BY <1>4, <2>1, <3>1 DEF Misplaced
    <2>2. CASE e \notin dirty
        <3>1. view[e] = before[e] /\ <<space[o], e>> \notin DOMAIN staged
            BY <1>5, <1>9, <2>2
        <3>2. ASSUME Says(w.events, e) = "nothing"
              PROVE  e \notin Shown(o)
            <4>1. w.events \in Seq(Events)
                BY DEF Witnesses
            <4>2. \A i \in 1 .. Len(w.events) : w.events[i].who # e
                BY <3>2, <4>1, SaysIs
            <4>3. \A v \in ToSet(w.events) : v.who # e
                BY <4>1, <4>2 DEF ToSet
            <4> QED
                BY <1>2, <1>4, <2>2, <4>3 DEF Shown
        <3> QED
            BY <1>3, <3>1, <3>2
    <2> QED
        BY <2>1, <2>2
<1> QED
    BY <1>2, <1>8, <1>9, <1>10

LEMMA OutgoingIsList ==
    ASSUME Inv, NEW o \in Avatars
    PROVE  IsList(Outgoing(o)) /\ (~ Sees(o) => Outgoing(o) = <<>>)
<1>1. CASE Sees(o)
    <2>1. witness[o] \in Witnesses
        BY <1>1 DEF Inv, Typed, Sees
    <2>2. PICK q : q = Notices(o)
        OBVIOUS
    <2>3. IsList(q)
        BY <2>1, <2>2, NoticesTell
    <2>4. PICK r : r = Deltas(o)
        OBVIOUS
    <2>5. IsList(r)
        <3>1. IsList(<<>>)
            BY DEF IsList, ToSet
        <3>2. \A at : IsList(<<PropertySync(at)>>)
            BY HeardOne
        <3> QED
            BY <2>4, <3>1, <3>2 DEF Deltas
    <2>6. IsList(q \o r)
        BY <2>3, <2>5, ListJoined
    <2> QED
        BY <1>1, <2>2, <2>4, <2>6 DEF Outgoing
<1>2. CASE ~ Sees(o)
    <2>1. IsList(<<>>)
        BY DEF IsList, ToSet
    <2> QED
        BY <1>2, <2>1 DEF Outgoing
<1> QED
    BY <1>1, <1>2

LEMMA JoinedNothing ==
    ASSUME NEW q, IsList(q)
    PROVE  q \o <<>> = q
BY DEF IsList

\* flushRuntimeTransport: a client whose messages are not lost is told all.
LEMMA FlushedIs ==
    ASSUME Inv, ClientsAreTold, SyncAndFlush
    PROVE  /\ wire' = [o \in Avatars |-> wire'[o]]
           /\ \A o \in Avatars : IsList(wire'[o])
           /\ \A o \in Avatars : ~ Sees(o) => wire'[o] = wire[o]
           /\ \A o \in Avatars \ deaf' : o \notin deaf /\ wire'[o] = wire[o] \o Outgoing(o)
<1>1. \A o \in Avatars : /\ IsList(wire[o]) /\ IsList(Outgoing(o))
                         /\ ~ Sees(o) => Outgoing(o) = <<>>
    BY OutgoingIsList DEF ClientsAreTold
<1>2. \A o \in Avatars : IsList(wire[o] \o Outgoing(o))
    BY <1>1, ListJoined
<1>3. \A o \in Avatars : wire[o] \o <<>> = wire[o]
    BY <1>1, JoinedNothing
<1>4. CASE wire' = [o \in Avatars |-> wire[o] \o Outgoing(o)] /\ deaf' = deaf
    BY <1>1, <1>2, <1>3, <1>4
<1>5. CASE \E o \in Avatars : \E i \in DOMAIN Outgoing(o) :
                /\ wire' = [a \in Avatars |-> wire[a] \o
                            IF a = o THEN RemoveAt(Outgoing(o), i) ELSE Outgoing(a)]
                /\ deaf' = deaf \cup {o}
    <2>0. PICK o \in Avatars : \E i \in DOMAIN Outgoing(o) :
                /\ wire' = [a \in Avatars |-> wire[a] \o
                            IF a = o THEN RemoveAt(Outgoing(o), i) ELSE Outgoing(a)]
                /\ deaf' = deaf \cup {o}
        BY <1>5
    <2>1. PICK i \in DOMAIN Outgoing(o) :
                /\ wire' = [a \in Avatars |-> wire[a] \o
                            IF a = o THEN RemoveAt(Outgoing(o), i) ELSE Outgoing(a)]
                /\ deaf' = deaf \cup {o}
        BY <2>0
    <2>2. PICK q : q = Outgoing(o)
        OBVIOUS
    <2>3. Sees(o) /\ IsList(RemoveAt(q, i))
        <3>1. PICK S : q \in Seq(S) /\ i \in 1 .. Len(q)
            BY <1>1, <2>2 DEF IsList
        <3>2. RemoveAt(q, i) \in Seq(S)
            BY <3>1, RemoveAtIs
        <3>3. q # <<>>
            BY <3>1
        <3> QED
            BY <1>1, <2>2, <3>2, <3>3, SequenceIsList
    <2>4. /\ wire'[o] = wire[o] \o RemoveAt(q, i)
          /\ \A a \in Avatars \ {o} : wire'[a] = wire[a] \o Outgoing(a)
        BY <2>1, <2>2
    <2>5. IsList(wire'[o])
        BY <1>1, <2>3, <2>4, ListJoined
    <2>6. wire' = [a \in Avatars |-> wire'[a]]
        BY <2>1
    <2> QED
        BY <1>1, <1>2, <1>3, <2>1, <2>3, <2>4, <2>5, <2>6
<1> QED
    BY <1>4, <1>5 DEF SyncAndFlush

LEMMA FlushedInStep ==
    ASSUME Inv, ClientsAreTold, SyncAndFlush
    PROVE  ClientsAreTold'
<1>1. Typed /\ Present /\ WitnessesAreSound
    BY DEF Inv
<1>2. /\ witness' = [o \in Avatars |-> IF Sees(o) THEN [witness[o] EXCEPT !.events = <<>>]
                                      ELSE Nowhere]
      /\ misled' = {b \in Avatars \X Entities :
                      /\ Sees(b[1])
                      /\ b[2] \in Misplaced(b[1]) \/ (b \in misled /\ b[2] \notin Shown(b[1]))}
      /\ UNCHANGED <<space, position, born, known>>
    BY DEF SyncAndFlush, placeVars
<1>3. /\ wire' = [o \in Avatars |-> wire'[o]]
      /\ \A o \in Avatars : IsList(wire'[o])
      /\ \A o \in Avatars : ~ Sees(o) => wire'[o] = wire[o]
      /\ \A o \in Avatars \ deaf' : o \notin deaf /\ wire'[o] = wire[o] \o Outgoing(o)
    BY FlushedIs
<1>4. ASSUME NEW o \in Avatars \ deaf'
      PROVE  InStep(o)'
    <2>1. o \in Avatars /\ InStep(o) /\ wire'[o] = wire[o] \o Outgoing(o)
        BY <1>3, <1>4 DEF ClientsAreTold
    <2>2. CASE Sees(o)
        <3>1. PICK w \in Witnesses : w = witness[o]
            BY <1>1, <2>1, <2>2 DEF Typed, Sees
        <3>2. PICK r : r = [w EXCEPT !.events = <<>>]
            OBVIOUS
        <3>3. witness'[o] = r
            BY <1>2, <2>1, <2>2, <3>1, <3>2
        <3>4. r.events = <<>> /\ r.entries = w.entries /\ w.entries \subseteq Entities
            BY <3>2 DEF Witnesses
        <3>5. \A e : Says(r.events, e) = "nothing"
            <4>1. Len(<<>>) = 0
                OBVIOUS
            <4>2. \A e : \A i \in 1 .. Len(<<>>) : <<>>[i].who # e
                BY <4>1
            <4> QED
                BY <3>4, <4>2, SaysNothing
        <3>6. PICK view : view = Heard(Knows(o), Outgoing(o))
            OBVIOUS
        <3>7. /\ DOMAIN view = w.entries
              /\ \A e \in w.entries : \/ view[e] = position[e]
                                      \/ e \in Misplaced(o)
                                      \/ <<o, e>> \in misled /\ e \notin Shown(o)
              /\ IsList(Outgoing(o))
            BY <2>1, <2>2, <3>1, <3>6, OutgoingShows
        <3>8. Knows(o)' = view
            <4>1. PICK q : q = wire[o]
                OBVIOUS
            <4>2. PICK p : p = Outgoing(o)
                OBVIOUS
            <4>3. IsList(q) /\ IsList(p)
                BY <2>1, <3>7, <4>1, <4>2 DEF ClientsAreTold
            <4>4. Heard(known[o], q \o p) = Heard(Heard(known[o], q), p)
                BY <4>3, HeardJoined
            <4> QED
                BY <1>2, <2>1, <3>6, <4>1, <4>2, <4>4 DEF Knows
        <3>9. IsTold(r, view)
            BY <3>4, <3>5, <3>7 DEF IsTold
        <3>10. ASSUME NEW e \in r.entries
               PROVE  IsPlaced(o, e, view)'
            <4>1. <<o, e>> \in misled' <=>
                        e \in Misplaced(o) \/ (<<o, e>> \in misled /\ e \notin Shown(o))
                BY <1>2, <2>1, <2>2, <3>4
            <4>2. view[e] = position[e] \/ <<o, e>> \in misled'
                BY <3>4, <3>7, <4>1
            <4> QED
                BY <1>2, <4>2 DEF IsPlaced
        <3>11. IsRight(o)'
            BY <3>3, <3>8, <3>9, <3>10 DEF IsRight
        <3>12. Sees(o)'
            <4>1. PICK none : none \in Seq(Events) /\ none = <<>>
                <5>1. <<>> \in Seq(Events)
                    OBVIOUS
                <5> QED
                    BY <5>1
            <4>2. r = [w EXCEPT !.events = none]
                BY <3>2, <4>1
            <4>3. r \in Witnesses
                BY <4>1, <4>2 DEF Witnesses
            <4> QED
                BY <3>3, <4>3, WitnessAssumption DEF Sees
        <3> QED
            BY <3>4, <3>7, <3>8, <3>11, <3>12 DEF InStep
    <2>3. CASE ~ Sees(o)
        <3>1. ~ Sees(o)' /\ wire'[o] = wire[o]
            BY <1>2, <1>3, <2>1, <2>3 DEF Sees
        <3> QED
            BY <1>2, <2>1, <2>3, <3>1, StaysSilent
    <2> QED
        BY <2>2, <2>3
<1>5. \A o \in Avatars \ born : known'[o] = <<>> /\ wire'[o] = <<>>
    <2>1. \A o \in Avatars \ born : ~ Sees(o)
        BY <1>1, SpacesAssumption DEF Typed, Present, Entities
    <2> QED
        BY <1>2, <1>3, <2>1 DEF ClientsAreTold
<1> QED
    BY <1>2, <1>3, <1>4, <1>5 DEF ClientsAreTold

\* The base relays what is under way.
LEMMA RelayedInStep ==
    ASSUME ClientsAreTold, NEW o \in Avatars, Relay(o)
    PROVE  ClientsAreTold'
<1>1. /\ wire[o] # <<>> /\ known' = [known EXCEPT ![o] = Told(known[o], Head(wire[o]))]
      /\ wire' = [wire EXCEPT ![o] = Tail(wire[o])]
      /\ UNCHANGED <<space, position, born, witness, staged, misled, deaf>>
    BY DEF Relay, placeVars, historyVars
<1>2. wire = [a \in Avatars |-> wire[a]] /\ known = [a \in Avatars |-> known[a]]
    BY DEF ClientsAreTold
<1>3. /\ wire'[o] = Tail(wire[o]) /\ known'[o] = Told(known[o], Head(wire[o]))
      /\ \A a \in Avatars \ {o} : wire'[a] = wire[a] /\ known'[a] = known[a]
      /\ wire' = [a \in Avatars |-> wire'[a]] /\ known' = [a \in Avatars |-> known'[a]]
    BY <1>1, <1>2
<1>4. Heard(known'[o], wire'[o]) = Heard(known[o], wire[o]) /\ IsList(wire'[o])
    BY <1>1, <1>3, HeardTail DEF ClientsAreTold
<1>5. \A a \in Avatars : Knows(a)' = Knows(a)
    BY <1>3, <1>4 DEF Knows
<1>6. ASSUME NEW a \in Avatars \ deaf
      PROVE  InStep(a)'
    <2>1. InStep(a) /\ Knows(a)' = Knows(a)
        BY <1>5 DEF ClientsAreTold
    <2> QED
        BY <1>1, <2>1 DEF InStep, IsRight, IsTold, IsPlaced, Sees
<1>7. o \in born
    BY <1>1 DEF ClientsAreTold
<1> QED
    BY <1>1, <1>3, <1>4, <1>6, <1>7 DEF ClientsAreTold

LEMMA ClientsInit ==
    Init => ClientsAreTold
<1> SUFFICES ASSUME Init PROVE ClientsAreTold
    OBVIOUS
<1>1. /\ wire = [o \in Avatars |-> <<>>] /\ known = [o \in Avatars |-> <<>>] /\ born = {}
      /\ \A o \in Avatars : ~ Sees(o) /\ space[o] = Nowhere
    BY DEF Init, Sees, Entities
<1>2. \A o \in Avatars : wire[o] = <<>> /\ known[o] = <<>>
    BY <1>1
<1>3. IsList(<<>>)
    BY DEF IsList, ToSet
<1>4. \A o \in Avatars : Knows(o) = <<>>
    BY <1>2, HeardNothing DEF Knows
<1>5. DOMAIN <<>> = {}
    OBVIOUS
<1>6. \A o \in Avatars : InStep(o)
    BY <1>1, <1>4, <1>5 DEF InStep
<1> QED
    BY <1>1, <1>2, <1>3, <1>6 DEF ClientsAreTold

LEMMA ClientsNext ==
    Inv /\ Inv' /\ ClientsAreTold /\ [Next]_vars => ClientsAreTold'
<1> SUFFICES ASSUME Inv, Inv', ClientsAreTold, [Next]_vars PROVE ClientsAreTold'
    OBVIOUS
<1>1. CASE \E e \in Entities, p \in Points :
            (\E s \in Spaces : CreateCell(e, s, p)) \/ CreateEntity(e, p)
    <2>1. PICK e \in Entities, p \in Points :
                (\E s \in Spaces : CreateCell(e, s, p)) \/ CreateEntity(e, p)
        BY <1>1
    <2>2. \E s \in Spaces : CreateCell(e, s, p) \/ CreateEntity(e, p)
        BY <2>1, SpacesAssumption
    <2> QED
        BY <2>2, CreatedInStep
<1>2. CASE \E e \in Entities, p \in Points, s \in Spaces :
            HandleTeleport(e, s, p) \/ ScriptTeleport(e, s, p)
    BY <1>2, TeleportedInStep
<1>3. CASE \E e \in Entities : DestroyCell(e) \/ DestroyEntity(e)
    BY <1>3, DestroyedInStep
<1>4. CASE \E s \in Spaces : DestroySpace(s)
    BY <1>4, SpaceDestroyedInStep
<1>5. CASE \E o \in Avatars, r \in Ranges : Watch(o, r)
    BY <1>5, WatchedInStep
<1>6. CASE \E o \in Avatars : Relay(o)
    BY <1>6, RelayedInStep
<1>7. CASE \E movers \in SUBSET Entities : \E to \in [movers -> Points] : EntityPhase(movers, to)
    BY <1>7, MovedInStep
<1>8. CASE SyncAndFlush
    BY <1>8, FlushedInStep
<1>9. CASE UNCHANGED vars
    <2>1. UNCHANGED <<space, position, born, witness, staged, wire, known, misled, deaf>>
        BY <1>9 DEF vars, placeVars, historyVars
    <2> QED
        BY <2>1 DEF ClientsAreTold, InStep, IsRight, IsTold, IsPlaced, Knows, Sees
<1> QED
    BY <1>1, <1>2, <1>3, <1>4, <1>5, <1>6, <1>7, <1>8, <1>9 DEF Next

-----------------------------------------------------------------------------
(* The theorems.                                                             *)
\* The lists of the coordinate systems are in order and hold who is in their space,
\* and what a witness has reported is what its trigger has inside, but for who came
\* back unnoticed (CoordinateSystem, RangeTrigger and Witness).
THEOREM InvHolds ==
    Spec => []Inv
BY InvInit, InvNext, PTL DEF Spec

\* Types (CellRuntime::spaceRuntimes_, entitySpaceMap_, Space::coordinates_).
THEOREM TypeCorrect ==
    Spec => []TypeOK
<1>1. Inv => TypeOK
    <2> SUFFICES ASSUME Inv PROVE TypeOK
        OBVIOUS
    <2>1. ASSUME NEW s \in Spaces
          PROVE  ToSet(axis[s]) = {e \in Entities : space[e] = s}
        <3>1. Holds(axis[s], Members(s))
            BY DEF Inv, AreAxes, Start, IsAxis
        <3> QED
            BY <3>1, HoldsExactly DEF Members
    <2> QED
        BY <2>1 DEF Inv, Typed, Present, AreAxes, Start, TypeOK
<1> QED
    BY <1>1, InvHolds, PTL

\* After the triggers have looked, a witness has in view exactly the entities of its
\* space within its range, except those that came back between two looks, wherever
\* and in whatever order entities come, move, teleport and go (entitiesInRange,
\* RangeTrigger::refresh).
THEOREM ViewStaysInRange ==
    Spec => []ViewIsInRange
<1>1. Inv /\ TypeOK => ViewIsInRange
    <2> SUFFICES ASSUME Inv, TypeOK, phase = "Script", ops = 0,
                        NEW o \in Avatars, Sees(o)
                 PROVE  witness[o].entries =
                            {e \in Entities \ {o} :
                                /\ space[e] = space[o]
                                /\ Distance(position[e], position[o]) <= Square(witness[o].range)
                                /\ <<o, e>> \notin back}
        BY DEF ViewIsInRange
    <2>1. Reported(o) /\ witness[o].inside = Seen(o)
        BY DEF Inv, WitnessesAreSound, Looked
    <2> QED
        BY <2>1 DEF Reported, Seen
<1> QED
    BY <1>1, InvHolds, TypeCorrect, PTL

\* A client knows, once it has heard all that is under way to it and all its witness
\* has to say, those in the view, each where it is unless it moves in this tick or
\* did before it left and came back; unless a message to it was lost
\* (CellRuntime::flushAoIEvents and flushWitnessSync, Witness, BaseApp).
THEOREM ClientStaysInStep ==
    Spec => []ClientSeesTheView
<1>1. Inv /\ ClientsAreTold => ClientSeesTheView
    <2> SUFFICES ASSUME Inv, ClientsAreTold, NEW o \in Avatars \ deaf, Sees(o),
                        NEW view, view = Heard(Heard(known[o], wire[o]), Notices(o))
                 PROVE  /\ DOMAIN view = witness[o].entries
                        /\ \A e \in DOMAIN view : \/ view[e] = position[e]
                                                  \/ <<space[o], e>> \in DOMAIN staged
                                                  \/ <<o, e>> \in misled
        BY DEF ClientSeesTheView
    <2>1. InStep(o) /\ view = Heard(Knows(o), Notices(o))
        BY DEF ClientsAreTold, Knows
    <2>2. /\ DOMAIN view = witness[o].entries
          /\ \A e \in witness[o].entries :
                \/ view[e] = position[e]
                \/ /\ Says(witness[o].events, e) = "nothing"
                   /\ <<space[o], e>> \in DOMAIN staged \/ <<o, e>> \in misled
        BY <2>1, NoticesShow
    <2> QED
        BY <2>2
<1>2. Inv /\ ClientsAreTold /\ [Next]_vars => (Inv /\ ClientsAreTold)'
    BY InvNext, ClientsNext
<1>3. Init => Inv /\ ClientsAreTold
    BY InvInit, ClientsInit
<1> QED
    BY <1>1, <1>2, <1>3, PTL DEF Spec
=============================================================================
