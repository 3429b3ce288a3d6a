-------------------------- MODULE Services_proofs --------------------------
(***************************************************************************)
(* Theorems about the facilities of Services: what each of them keeps for  *)
(* others it keeps for any capacity, number of steps and bound, and its    *)
(* ticks are sound.  Every facility has an inductive invariant of its own; *)
(* BooksInv and TicksInv put them together along focus.  The wheel is      *)
(* shown to implement TimerService.                                        *)
(***************************************************************************)
EXTENDS Services, TLAPS, FiniteSetTheorems, WellFoundedInduction

-----------------------------------------------------------------------------
(* Lists *)

\* What an appended member adds.
LEMMA AppendIs ==
    ASSUME NEW S, NEW q \in Seq(S), NEW x \in S
    PROVE  /\ Append(q, x) \in Seq(S) /\ Len(Append(q, x)) = Len(q) + 1
           /\ ToSet(Append(q, x)) = ToSet(q) \cup {x}
           /\ IsInjective(q) /\ x \notin ToSet(q) => IsInjective(Append(q, x))
<1>1. PICK r : r = Append(q, x)
    OBVIOUS
<1>2. /\ r \in Seq(S) /\ Len(r) = Len(q) + 1 /\ r[Len(q) + 1] = x
      /\ \A i \in 1 .. Len(q) : r[i] = q[i]
    BY <1>1
<1>3. ToSet(r) = ToSet(q) \cup {x}
  <2>1. ToSet(r) \subseteq ToSet(q) \cup {x}
      BY <1>2 DEF ToSet
  <2>2. ToSet(q) \subseteq ToSet(r)
      BY <1>2 DEF ToSet
  <2>3. x \in ToSet(r)
    <3>1. Len(q) + 1 \in DOMAIN r
        BY <1>2
    <3> QED
        BY <1>2, <3>1 DEF ToSet
  <2> QED
      BY <2>1, <2>2, <2>3
<1>4. IsInjective(q) /\ x \notin ToSet(q) => IsInjective(r)
    BY <1>2 DEF IsInjective, ToSet
<1> QED
    BY <1>1, <1>2, <1>3, <1>4

\* A list cut in two.
LEMMA CutIs ==
    ASSUME NEW S, NEW q \in Seq(S), NEW n \in 0 .. Len(q)
    PROVE  /\ SubSeq(q, 1, n) \in Seq(S) /\ SubSeq(q, n + 1, Len(q)) \in Seq(S)
           /\ Len(SubSeq(q, 1, n)) = n /\ Len(SubSeq(q, n + 1, Len(q))) = Len(q) - n
           /\ ToSet(SubSeq(q, 1, n)) \cup ToSet(SubSeq(q, n + 1, Len(q))) = ToSet(q)
           /\ IsInjective(q) =>
                 /\ IsInjective(SubSeq(q, n + 1, Len(q)))
                 /\ ToSet(SubSeq(q, 1, n)) \cap ToSet(SubSeq(q, n + 1, Len(q))) = {}
<1>1. PICK a : a = SubSeq(q, 1, n)
    OBVIOUS
<1>2. PICK b : b = SubSeq(q, n + 1, Len(q))
    OBVIOUS
<1>3. a \in Seq(S) /\ Len(a) = n /\ \A i \in 1 .. n : a[i] = q[i]
    BY <1>1
<1>4. /\ b \in Seq(S) /\ Len(b) = Len(q) - n
      /\ \A i \in 1 .. Len(q) - n : b[i] = q[n + i]
    BY <1>2
<1>5. ToSet(a) \cup ToSet(b) = ToSet(q)
  <2>1. ToSet(a) \subseteq ToSet(q)
      BY <1>3 DEF ToSet
  <2>2. ToSet(b) \subseteq ToSet(q)
      BY <1>4 DEF ToSet
  <2>3. ASSUME NEW i \in 1 .. Len(q) PROVE q[i] \in ToSet(a) \cup ToSet(b)
    <3>1. CASE i <= n
        BY <1>3, <3>1 DEF ToSet
    <3>2. CASE i > n
      <4>1. i - n \in 1 .. Len(b) /\ b[i - n] = q[i]
          BY <1>4, <3>2
      <4> QED
          BY <4>1, <1>4 DEF ToSet
    <3> QED
        BY <3>1, <3>2
  <2>4. ToSet(q) \subseteq ToSet(a) \cup ToSet(b)
      BY <2>3 DEF ToSet
  <2> QED
      BY <2>1, <2>2, <2>4
<1>6. ASSUME IsInjective(q)
      PROVE  IsInjective(b) /\ ToSet(a) \cap ToSet(b) = {}
  <2> \A i, j \in 1 .. Len(q) : q[i] = q[j] => i = j
      BY <1>6 DEF IsInjective
  <2>1. IsInjective(b)
    <3> SUFFICES ASSUME NEW i \in 1 .. Len(q) - n, NEW j \in 1 .. Len(q) - n, b[i] = b[j]
                 PROVE  i = j
        BY <1>4 DEF IsInjective
    <3>1. n + i \in 1 .. Len(q) /\ n + j \in 1 .. Len(q) /\ q[n + i] = q[n + j]
        BY <1>4
    <3>2. n + i = n + j
        BY <3>1
    <3> QED
        BY <3>2
  <2>2. ASSUME NEW i \in 1 .. n, NEW j \in 1 .. Len(q) - n PROVE a[i] # b[j]
    <3>1. /\ i \in 1 .. Len(q) /\ n + j \in 1 .. Len(q) /\ i # n + j
          /\ a[i] = q[i] /\ b[j] = q[n + j]
        BY <1>3, <1>4
    <3> QED
        BY <3>1
  <2>3. ToSet(a) \cap ToSet(b) = {}
      BY <2>2, <1>3, <1>4 DEF ToSet
  <2> QED
      BY <2>1, <2>3
<1> QED
    BY <1>1, <1>2, <1>3, <1>4, <1>5, <1>6

\* The head of a list, and what is behind it.
LEMMA TailIs ==
    ASSUME NEW S, NEW q \in Seq(S), q # << >>
    PROVE  /\ Tail(q) \in Seq(S) /\ Head(q) \in S /\ Head(q) = q[1]
           /\ ToSet(q) = {Head(q)} \cup ToSet(Tail(q))
<1>1. PICK r : r = Tail(q)
    OBVIOUS
<1>2. /\ r \in Seq(S) /\ Len(r) = Len(q) - 1 /\ Head(q) = q[1] /\ Len(q) >= 1
      /\ \A i \in 1 .. Len(q) - 1 : r[i] = q[i + 1]
    BY <1>1
<1>3. ToSet(r) \subseteq ToSet(q) /\ q[1] \in ToSet(q)
  <2>1. \A i \in 1 .. Len(r) : i + 1 \in 1 .. Len(q) /\ r[i] = q[i + 1]
      BY <1>2
  <2>2. 1 \in 1 .. Len(q)
      BY <1>2
  <2> QED
      BY <2>1, <2>2, <1>2 DEF ToSet
<1>4. ASSUME NEW i \in 1 .. Len(q) PROVE q[i] = q[1] \/ q[i] \in ToSet(r)
  <2>1. CASE i > 1
    <3>1. i - 1 \in 1 .. Len(r) /\ r[i - 1] = q[i]
        BY <1>2, <2>1
    <3> QED
        BY <3>1, <1>2 DEF ToSet
  <2> QED
      BY <2>1
<1>5. ToSet(q) \subseteq {q[1]} \cup ToSet(r)
    BY <1>4 DEF ToSet
<1> QED
    BY <1>1, <1>2, <1>3, <1>5

\* One list behind another.
LEMMA CatIs ==
    ASSUME NEW S, NEW q \in Seq(S), NEW r \in Seq(S)
    PROVE  q \o r \in Seq(S) /\ ToSet(q \o r) = ToSet(q) \cup ToSet(r)
<1>1. PICK t : t = q \o r
    OBVIOUS
<1>2. /\ t \in Seq(S) /\ Len(t) = Len(q) + Len(r)
      /\ \A i \in 1 .. Len(q) + Len(r) : t[i] = IF i <= Len(q) THEN q[i] ELSE r[i - Len(q)]
    BY <1>1
<1>3. ToSet(t) \subseteq ToSet(q) \cup ToSet(r)
  <2>1. ASSUME NEW i \in 1 .. Len(q) + Len(r) PROVE t[i] \in ToSet(q) \cup ToSet(r)
    <3>1. CASE i <= Len(q)
        BY <1>2, <3>1 DEF ToSet
    <3>2. CASE i > Len(q)
      <4>1. i - Len(q) \in 1 .. Len(r) /\ t[i] = r[i - Len(q)]
          BY <1>2, <3>2
      <4> QED
          BY <4>1 DEF ToSet
    <3> QED
        BY <3>1, <3>2
  <2> QED
      BY <2>1, <1>2 DEF ToSet
<1>4. ToSet(q) \subseteq ToSet(t)
    BY <1>2 DEF ToSet
<1>5. ToSet(r) \subseteq ToSet(t)
  <2>1. ASSUME NEW i \in 1 .. Len(r) PROVE r[i] \in ToSet(t)
    <3>1. /\ i + Len(q) \in 1 .. Len(t) /\ i + Len(q) \in 1 .. Len(q) + Len(r)
          /\ ~ (i + Len(q) <= Len(q)) /\ (i + Len(q)) - Len(q) = i
        BY <1>2
    <3>2. t[i + Len(q)] = r[i] /\ i + Len(q) \in DOMAIN t
        BY <3>1, <1>2
    <3> QED
        BY <3>2 DEF ToSet
  <2> QED
      BY <2>1 DEF ToSet
<1> QED
    BY <1>1, <1>2, <1>3, <1>4, <1>5

\* What is left of a list is its members that do not go, each in one place if
\* it was so before.
LEMMA OthersAre ==
    ASSUME NEW S, NEW list \in Seq(S), NEW gone
    PROVE  /\ Others(list, gone) \in Seq(S)
           /\ ToSet(Others(list, gone)) = ToSet(list) \ gone
           /\ IsInjective(list) => IsInjective(Others(list, gone))
           /\ \A k, m \in DOMAIN Others(list, gone) : k < m =>
                 \E i, j \in DOMAIN list : /\ i < j /\ Others(list, gone)[k] = list[i]
                                          /\ Others(list, gone)[m] = list[j]
<1> DEFINE staying == {i \in DOMAIN list : list[i] \notin gone}
           Rank(i) == Cardinality({j \in staying : j <= i})
           Nth(k) == CHOOSE i \in staying : Rank(i) = k
           n == Cardinality(staying)
           rank == [i \in staying |-> Rank(i)]
<1>1. /\ IsFiniteSet(staying) /\ n \in Nat /\ staying \subseteq Int
      /\ \A i \in staying : /\ IsFiniteSet({j \in staying : j <= i})
                         /\ Rank(i) \in Nat /\ Rank(i) <= n
    <2>1. DOMAIN list = 1..Len(list) /\ Len(list) \in Nat
        OBVIOUS
    <2>2. IsFiniteSet(1..Len(list))
        BY <2>1, FS_Interval
    <2>3. staying \in SUBSET (1..Len(list))
        BY <2>1
    <2>4. IsFiniteSet(staying)
        BY <2>2, <2>3, FS_Subset
    <2>5. ASSUME NEW i \in staying
          PROVE  IsFiniteSet({j \in staying : j <= i}) /\ Rank(i) <= n
        <3>1. {j \in staying : j <= i} \in SUBSET staying
            OBVIOUS
        <3> QED
            BY <2>4, <3>1, FS_Subset
    <2>6. n \in Nat /\ \A i \in staying : Rank(i) \in Nat
        <3>1. n \in Nat
            BY <2>4, FS_CardinalityType
        <3>2. ASSUME NEW i \in staying PROVE Rank(i) \in Nat
            BY <2>5, FS_CardinalityType
        <3> QED
            BY <3>1, <3>2
    <2>7. staying \subseteq Int
        BY <2>3
    <2> HIDE DEF Rank, staying, n
    <2> QED
        BY <2>4, <2>5, <2>6, <2>7
<1>2. \A i \in staying : Rank(i) \in 1..n
    <2>1. ASSUME NEW i \in staying PROVE Rank(i) # 0
        <3>1. i \in {j \in staying : j <= i}
            BY <1>1
        <3> QED
            BY <1>1, <3>1, FS_EmptySet
    <2>2. \A i \in staying : Rank(i) \in Nat /\ Rank(i) <= n
        BY <1>1
    <2>3. n \in Nat
        BY <1>1
    <2> HIDE DEF Rank, staying, n
    <2> QED
        BY <2>1, <2>2, <2>3
<1>3. ASSUME NEW i \in staying, NEW k \in staying, i < k
      PROVE  Rank(i) # Rank(k)
    <2>1. {j \in staying : j <= i} \in SUBSET {j \in staying : j <= k}
        BY <1>1, <1>3
    <2>2. k \in {j \in staying : j <= k} /\ k \notin {j \in staying : j <= i}
        BY <1>1, <1>3
    <2> QED
        BY <1>1, <2>1, <2>2, FS_Subset
<1>14. \A i, k \in staying : i <= k => Rank(i) <= Rank(k)
  <2>1. ASSUME NEW i \in staying, NEW k \in staying, i <= k PROVE Rank(i) <= Rank(k)
    <3>1. {j \in staying : j <= i} \in SUBSET {j \in staying : j <= k}
        BY <1>1, <2>1
    <3> QED
        BY <1>1, <3>1, FS_Subset
  <2> QED
      BY <2>1
<1>4. \A i, k \in staying : Rank(i) = Rank(k) => i = k
    <2> HIDE DEF Rank
    <2> QED
        BY <1>1, <1>3
<1>5. \A k \in 1..n : \E i \in staying : Rank(i) = k
    <2>1. rank \in Injection(staying, 1..n)
        <3> HIDE DEF Rank, staying, n
        <3> QED
            BY <1>2, <1>4 DEF Injection, IsInjective
    <2>2. IsFiniteSet(1..n) /\ Cardinality(1..n) = n
        BY <1>1, FS_Interval
    <2>3. rank \in Surjection(staying, 1..n)
        <3> HIDE DEF rank
        <3> QED
            BY <2>1, <2>2, FS_Injection
    <2> HIDE DEF Rank, staying, n
    <2> QED
        BY <2>3 DEF Surjection
<1>6. /\ \A k \in 1..n : Nth(k) \in staying /\ Rank(Nth(k)) = k
      /\ \A i \in staying : Nth(Rank(i)) = i
    <2> HIDE DEF Rank, staying, n
    <2> QED
        BY <1>2, <1>4, <1>5
<1>7. Others(list, gone) = [k \in 1..n |-> list[Nth(k)]]
    BY DEF Others
<1>8. \A i \in staying : i \in DOMAIN list /\ list[i] \in S \ gone
    OBVIOUS
<1>9. \A i \in DOMAIN list : list[i] \notin gone => i \in staying
    OBVIOUS
<1> HIDE DEF Nth, Rank, staying, n
<1>10. Others(list, gone) \in Seq(S)
    <2>1. \A k \in 1..n : list[Nth(k)] \in S
        BY <1>6, <1>8
    <2> QED
        BY <1>1, <1>7, <2>1
<1>11. ToSet(Others(list, gone)) = ToSet(list) \ gone
    BY <1>2, <1>6, <1>7, <1>8, <1>9 DEF ToSet
<1>12. ASSUME IsInjective(list) PROVE IsInjective(Others(list, gone))
    <2>1. \A k, m \in 1..n : list[Nth(k)] = list[Nth(m)] => k = m
        BY <1>6, <1>8, <1>12 DEF IsInjective
    <2> QED
        BY <1>7, <2>1 DEF IsInjective
<1>13. ASSUME NEW k \in 1..n, NEW m \in 1..n, k < m
       PROVE  Nth(k) \in DOMAIN list /\ Nth(m) \in DOMAIN list /\ Nth(k) < Nth(m)
  <2>1. /\ Nth(k) \in staying /\ Nth(m) \in staying /\ Rank(Nth(k)) = k /\ Rank(Nth(m)) = m
      BY <1>6
  <2>3. Nth(k) \in Int /\ Nth(m) \in Int /\ k \in Int /\ m \in Int
    <3>1. staying \subseteq Int /\ n \in Int
        BY <1>1
    <3>2. Nth(k) \in Int /\ Nth(m) \in Int
        BY <2>1, <3>1
    <3>3. \A a \in 1..n : a \in Int
        BY <3>1
    <3> QED
        BY <3>2, <3>3
  <2>2. ~(Nth(m) <= Nth(k))
      BY <1>14, <1>13, <2>1, <2>3
  <2> QED
      BY <1>8, <2>1, <2>2, <2>3
<1> QED
    BY <1>7, <1>10, <1>11, <1>12, <1>13

\* Two lists with nothing in common make one in which nothing is twice.
LEMMA CatInjective ==
    ASSUME NEW S, NEW q \in Seq(S), NEW r \in Seq(S), IsInjective(q), IsInjective(r),
           ToSet(q) \cap ToSet(r) = {}
    PROVE  IsInjective(q \o r)
<1>1. PICK t : t = q \o r
    OBVIOUS
<1>2. /\ t \in Seq(S) /\ Len(t) = Len(q) + Len(r)
      /\ \A i \in 1 .. Len(q) + Len(r) : t[i] = IF i <= Len(q) THEN q[i] ELSE r[i - Len(q)]
    BY <1>1
<1>3. ASSUME NEW i \in 1 .. Len(t)
      PROVE  \/ i \in 1 .. Len(q) /\ t[i] = q[i] /\ t[i] \in ToSet(q)
             \/ i - Len(q) \in 1 .. Len(r) /\ t[i] = r[i - Len(q)] /\ t[i] \in ToSet(r)
  <2>1. CASE i <= Len(q)
      BY <1>2, <2>1 DEF ToSet
  <2>2. CASE ~(i <= Len(q))
    <3>1. i - Len(q) \in 1 .. Len(r) /\ t[i] = r[i - Len(q)]
        BY <1>2, <2>2
    <3> QED
        BY <3>1 DEF ToSet
  <2> QED
      BY <2>1, <2>2
<1>5. /\ \A i, j \in 1 .. Len(q) : q[i] = q[j] => i = j
      /\ \A i, j \in 1 .. Len(r) : r[i] = r[j] => i = j
    BY DEF IsInjective
<1>4. ASSUME NEW i \in 1 .. Len(t), NEW j \in 1 .. Len(t), t[i] = t[j] PROVE i = j
  <2>1. CASE i \in 1 .. Len(q) /\ t[i] = q[i] /\ t[i] \in ToSet(q)
    <3>1. j \in 1 .. Len(q) /\ t[j] = q[j]
        BY <1>3, <1>4, <2>1
    <3> QED
        BY <1>4, <1>5, <2>1, <3>1
  <2>2. CASE i - Len(q) \in 1 .. Len(r) /\ t[i] = r[i - Len(q)] /\ t[i] \in ToSet(r)
    <3>1. j - Len(q) \in 1 .. Len(r) /\ t[j] = r[j - Len(q)]
        BY <1>3, <1>4, <2>2
    <3>2. i - Len(q) = j - Len(q)
        BY <1>4, <1>5, <2>2, <3>1
    <3> QED
        BY <3>2
  <2> QED
      BY <1>3, <2>1, <2>2
<1> QED
    BY <1>1, <1>2, <1>4 DEF IsInjective

\* A list cut in two has nothing twice in its first part.
LEMMA FrontIs ==
    ASSUME NEW S, NEW q \in Seq(S), IsInjective(q), NEW n \in 0 .. Len(q)
    PROVE  IsInjective(SubSeq(q, 1, n))
<1>1. PICK a : a = SubSeq(q, 1, n)
    OBVIOUS
<1>2. a \in Seq(S) /\ Len(a) = n /\ \A i \in 1 .. n : a[i] = q[i]
    BY <1>1
<1> QED
    BY <1>1, <1>2 DEF IsInjective

\* What is behind the head of a list in which nothing is twice.
LEMMA RestIs ==
    ASSUME NEW S, NEW q \in Seq(S), q # << >>, IsInjective(q)
    PROVE  IsInjective(Tail(q)) /\ ToSet(Tail(q)) = ToSet(q) \ {Head(q)}
<1>1. PICK r : r = Tail(q)
    OBVIOUS
<1>2. /\ r \in Seq(S) /\ Len(r) = Len(q) - 1 /\ Head(q) = q[1] /\ Len(q) >= 1
      /\ \A i \in 1 .. Len(q) - 1 : r[i] = q[i + 1]
    BY <1>1
<1>3. ASSUME NEW i \in 1 .. Len(r) PROVE i + 1 \in 1 .. Len(q) /\ r[i] = q[i + 1] /\ r[i] # q[1]
  <2>1. i + 1 \in 1 .. Len(q) /\ 1 \in 1 .. Len(q) /\ i + 1 # 1 /\ r[i] = q[i + 1]
      BY <1>2
  <2> QED
      BY <2>1 DEF IsInjective
<1>4. ASSUME NEW i \in 1 .. Len(r), NEW j \in 1 .. Len(r), r[i] = r[j] PROVE i = j
  <2>1. i + 1 = j + 1
      BY <1>3, <1>4 DEF IsInjective
  <2> QED
      BY <2>1
<1>5. Head(q) \notin ToSet(r)
    BY <1>2, <1>3 DEF ToSet
<1>6. ToSet(q) = {Head(q)} \cup ToSet(r)
    BY <1>1, TailIs
<1> QED
    BY <1>1, <1>2, <1>4, <1>5, <1>6 DEF IsInjective

\* One more in a list, wherever it is put.
LEMMA InsertAtIs ==
    ASSUME NEW S, NEW q \in Seq(S), NEW k \in 1 .. Len(q) + 1, NEW x \in S,
           IsInjective(q), x \notin ToSet(q)
    PROVE  /\ InsertAt(q, k, x) \in Seq(S) /\ IsInjective(InsertAt(q, k, x))
           /\ ToSet(InsertAt(q, k, x)) = ToSet(q) \cup {x}
<1>1. PICK n : n = k - 1
    OBVIOUS
<1>2. n \in 0 .. Len(q) /\ k = n + 1
    BY <1>1
<1>3. PICK a : a = SubSeq(q, 1, n)
    OBVIOUS
<1>4. PICK b : b = SubSeq(q, n + 1, Len(q))
    OBVIOUS
<1>5. /\ a \in Seq(S) /\ b \in Seq(S) /\ ToSet(a) \cup ToSet(b) = ToSet(q)
      /\ IsInjective(b) /\ ToSet(a) \cap ToSet(b) = {}
    BY <1>2, <1>3, <1>4, CutIs
<1>6. IsInjective(a)
    BY <1>2, <1>3, FrontIs
<1>7. PICK c : c = <<x>>
    OBVIOUS
<1>8. c \in Seq(S) /\ IsInjective(c) /\ ToSet(c) = {x}
    BY <1>7 DEF IsInjective, ToSet
<1>9. PICK d : d = a \o c
    OBVIOUS
<1>10. d \in Seq(S) /\ ToSet(d) = ToSet(a) \cup {x}
    BY <1>5, <1>8, <1>9, CatIs
<1>11. ToSet(a) \cap ToSet(c) = {}
    BY <1>5, <1>8
<1>12. IsInjective(d)
    BY <1>5, <1>6, <1>8, <1>9, <1>11, CatInjective
<1>13. ToSet(d) \cap ToSet(b) = {}
    BY <1>5, <1>10
<1>14. IsInjective(d \o b)
    BY <1>5, <1>10, <1>12, <1>13, CatInjective
<1>15. d \o b \in Seq(S) /\ ToSet(d \o b) = ToSet(d) \cup ToSet(b)
    BY <1>5, <1>10, CatIs
<1>16. InsertAt(q, k, x) = d \o b
  <2>1. InsertAt(q, k, x) = SubSeq(q, 1, k - 1) \o <<x>> \o SubSeq(q, k, Len(q))
      BY DEF InsertAt
  <2>2. SubSeq(q, 1, k - 1) = a /\ SubSeq(q, k, Len(q)) = b
      BY <1>1, <1>2, <1>3, <1>4
  <2> QED
      BY <1>7, <1>9, <2>1, <2>2
<1> QED
    BY <1>5, <1>10, <1>14, <1>15, <1>16

\* A list without its last member.
LEMMA FrontLastIs ==
    ASSUME NEW S, NEW q \in Seq(S), q # << >>, IsInjective(q)
    PROVE  /\ Front(q) \in Seq(S) /\ IsInjective(Front(q)) /\ Last(q) \in ToSet(q) /\ Last(q) \in S
           /\ ToSet(Front(q)) = ToSet(q) \ {Last(q)}
<1>1. PICK n : n = Len(q) - 1
    OBVIOUS
<1>2. n \in 0 .. Len(q) /\ Len(q) = n + 1 /\ Len(q) \in DOMAIN q
    BY <1>1
<1>3. PICK a : a = SubSeq(q, 1, n)
    OBVIOUS
<1>4. a \in Seq(S) /\ Len(a) = n /\ \A i \in 1 .. n : a[i] = q[i]
    BY <1>2, <1>3
<1>5. Front(q) = a /\ Last(q) = q[n + 1]
    BY <1>1, <1>2, <1>3 DEF Front, Last
<1>6. \A i, j \in 1 .. n + 1 : q[i] = q[j] => i = j
    BY <1>2 DEF IsInjective
<1>7. IsInjective(a)
    BY <1>4, <1>6 DEF IsInjective
<1>8. ToSet(a) = {q[i] : i \in 1 .. n} /\ ToSet(q) = {q[i] : i \in 1 .. n + 1}
    BY <1>2, <1>4 DEF ToSet
<1>9. n + 1 \in 1 .. n + 1 /\ \A i \in 1 .. n + 1 : i # n + 1 <=> i \in 1 .. n
    BY <1>2
<1>10. ToSet(a) = ToSet(q) \ {q[n + 1]}
  <2>1. \A i \in 1 .. n : i \in 1 .. n + 1 /\ q[i] # q[n + 1]
      BY <1>2, <1>6, <1>9
  <2>2. \A i \in 1 .. n + 1 : q[i] # q[n + 1] => i \in 1 .. n
      BY <1>9
  <2> QED
      BY <1>8, <2>1, <2>2
<1>11. q[n + 1] \in ToSet(q) /\ q[n + 1] \in S
    BY <1>2, <1>8, <1>9
<1> QED
    BY <1>4, <1>5, <1>7, <1>10, <1>11

\* A function on 1 .. n is a list.
LEMMA ArrayIs ==
    ASSUME NEW S, NEW n \in Nat, NEW q \in [1 .. n -> S]
    PROVE  q \in Seq(S)
OBVIOUS

\* A list that goes on without its head.
LEMMA GoesOnIs ==
    ASSUME NEW S, NEW q \in Seq(S), q # << >>
    PROVE  /\ Tail(q) \in Seq(S) /\ Head(q) = q[1] /\ Head(q) \in S /\ 1 \in DOMAIN q
           /\ \A k \in DOMAIN Tail(q) : Tail(q)[k] = q[k + 1] /\ k + 1 \in DOMAIN q /\ k \in Nat
<1>1. PICK c : c = Tail(q)
    OBVIOUS
<1>2. /\ c \in Seq(S) /\ Len(c) = Len(q) - 1 /\ Head(q) = q[1] /\ Len(q) >= 1
      /\ \A i \in 1 .. Len(q) - 1 : c[i] = q[i + 1]
    BY <1>1
<1>3. DOMAIN q = 1 .. Len(q) /\ Len(q) \in Nat /\ DOMAIN c = 1 .. Len(q) - 1
    BY <1>2
<1>4. 1 \in DOMAIN q /\ \A k \in DOMAIN c : k + 1 \in DOMAIN q /\ k \in Nat
    BY <1>2, <1>3
<1>5. q[1] \in S
    BY <1>4
<1> QED
    BY <1>1, <1>2, <1>3, <1>4, <1>5

\* One member more in a function on 1 .. n.
LEMMA AppendTo ==
    ASSUME NEW n \in Nat, NEW q, q = [k \in 1 .. n |-> q[k]], NEW x
    PROVE  Append(q, x) = [k \in 1 .. n + 1 |-> IF k = n + 1 THEN x ELSE q[k]]
<1>1. PICK S : S = {q[k] : k \in 1 .. n} \cup {x}
    OBVIOUS
<1>2. q \in Seq(S) /\ x \in S /\ Len(q) = n
  <2>1. q \in [1 .. n -> S]
      BY <1>1
  <2> QED
      BY <1>1, <2>1
<1> QED
    BY <1>2

\* Members of a list.
LEMMA MemberIs ==
    ASSUME NEW S, NEW q \in Seq(S), NEW a \in ToSet(q)
    PROVE  a \in S
BY DEF ToSet

\* A list of some is a list of more.
LEMMA SeqOfMore ==
    ASSUME NEW S, NEW T, S \subseteq T, NEW q \in Seq(S)
    PROVE  q \in Seq(T)
OBVIOUS

-----------------------------------------------------------------------------
(* Numbers *)

\* What division and remainder are.
LEMMA DivisionIs ==
    ASSUME NEW a \in Nat, NEW p \in Nat \ {0}
    PROVE  /\ a \div p \in Nat /\ a % p \in Nat /\ a % p < p
           /\ a = p * (a \div p) + (a % p)
OBVIOUS

\* Two multiples are as far apart as their factors.
LEMMA MultiplesApart ==
    ASSUME NEW p \in Nat \ {0}, NEW m \in Nat, NEW n \in Nat, m < n
    PROVE  p * n >= p * m + p
<1>1. PICK k \in Nat : n = m + 1 + k
  <2>1. n - m - 1 \in Nat /\ n = m + 1 + (n - m - 1)
      OBVIOUS
  <2> QED
      BY <2>1
<1>2. p * n = p * m + p + p * k
    BY <1>1
<1>3. p * k \in Nat /\ p * m \in Nat
    OBVIOUS
<1> QED
    BY <1>2, <1>3

\* A quotient is the only one with a remainder below the divisor.
LEMMA QuotientIs ==
    ASSUME NEW p \in Nat \ {0}, NEW m \in Nat, NEW r \in Nat, r < p
    PROVE  (p * m + r) \div p = m /\ (p * m + r) % p = r
<1>1. PICK a \in Nat : a = p * m + r
    OBVIOUS
<1>2. PICK n \in Nat : n = a \div p
    BY DivisionIs
<1>3. PICK s \in Nat : s = a % p
    BY DivisionIs
<1>4. a = p * n + s /\ s < p
    BY <1>2, <1>3, DivisionIs
<1>5. p * n \in Nat /\ p * m \in Nat
    OBVIOUS
<1>6. ~(m < n)
  <2>1. ASSUME m < n PROVE FALSE
    <3>1. p * n >= p * m + p
        BY <2>1, MultiplesApart
    <3> QED
        BY <1>1, <1>4, <1>5, <3>1
  <2> QED
      BY <2>1
<1>7. ~(n < m)
  <2>1. ASSUME n < m PROVE FALSE
    <3>1. p * m >= p * n + p
        BY <2>1, MultiplesApart
    <3> QED
        BY <1>1, <1>4, <1>5, <3>1
  <2> QED
      BY <2>1
<1>8. n = m
    BY <1>6, <1>7
<1>9. s = r
    BY <1>1, <1>4, <1>5, <1>8
<1> QED
    BY <1>1, <1>2, <1>3, <1>8, <1>9

\* Quotients grow with what is divided.
LEMMA QuotientsGrow ==
    ASSUME NEW p \in Nat \ {0}, NEW a \in Nat, NEW b \in Nat
    PROVE  /\ a <= b => a \div p <= b \div p
           /\ b >= a + p => b \div p > a \div p
<1>1. PICK m \in Nat, r \in Nat : m = a \div p /\ r = a % p /\ a = p * m + r /\ r < p
    BY DivisionIs
<1>2. PICK n \in Nat, s \in Nat : n = b \div p /\ s = b % p /\ b = p * n + s /\ s < p
    BY DivisionIs
<1>3. p * m \in Nat /\ p * n \in Nat
    OBVIOUS
<1>4. n < m => p * m >= p * n + p
    BY MultiplesApart
<1>5. ASSUME a <= b PROVE m <= n
    BY <1>1, <1>2, <1>3, <1>4, <1>5
<1>6. ASSUME b >= a + p PROVE n > m
  <2>1. CASE n = m
      BY <1>1, <1>2, <1>3, <1>6, <2>1
  <2>2. CASE n < m
      BY <1>1, <1>2, <1>3, <1>4, <1>6, <2>2
  <2> QED
      BY <2>1, <2>2
<1> QED
    BY <1>1, <1>2, <1>5, <1>6

\* A tick on: the quotient moves by one at a multiple, and nowhere else.
LEMMA NextQuotient ==
    ASSUME NEW p \in Nat \ {0}, NEW t \in Nat
    PROVE  \/ (t + 1) \div p = t \div p
           \/ (t + 1) % p = 0 /\ (t + 1) \div p = (t \div p) + 1
<1>1. PICK m \in Nat, r \in Nat : m = t \div p /\ r = t % p /\ t = p * m + r /\ r < p
    BY DivisionIs
<1>2. p * m \in Nat
    OBVIOUS
<1>3. CASE r + 1 < p
  <2>1. PICK s \in Nat : s = r + 1
      OBVIOUS
  <2>2. t + 1 = p * m + s /\ s < p
      BY <1>1, <1>2, <1>3, <2>1
  <2>3. (p * m + s) \div p = m
      BY <2>2, QuotientIs
  <2> QED
      BY <1>1, <2>2, <2>3
<1>4. CASE r + 1 = p
  <2>1. PICK k \in Nat : k = m + 1
      OBVIOUS
  <2>2. p * k = p * m + p
      BY <2>1
  <2>3. t + 1 = p * k + 0
      BY <1>1, <1>2, <1>4, <2>2
  <2>4. 0 \in Nat /\ 0 < p
      OBVIOUS
  <2>5. (p * k + 0) \div p = k /\ (p * k + 0) % p = 0
      BY <2>4, QuotientIs
  <2> QED
      BY <1>1, <2>1, <2>3, <2>5
<1> QED
    BY <1>1, <1>3, <1>4

\* A multiple is not after what has its quotient.
LEMMA MultipleFirst ==
    ASSUME NEW p \in Nat \ {0}, NEW a \in Nat, NEW c \in Nat, c % p = 0, a \div p >= c \div p
    PROVE  a >= c
<1>1. PICK m \in Nat, r \in Nat : m = a \div p /\ a = p * m + r
    BY DivisionIs
<1>2. PICK n \in Nat : n = c \div p /\ c = p * n
    BY DivisionIs
<1>3. p * m \in Nat /\ p * n \in Nat
    OBVIOUS
<1>4. n < m => p * m >= p * n + p
    BY MultiplesApart
<1> QED
    BY <1>1, <1>2, <1>3, <1>4

\* A multiple of a multiple.
LEMMA MultiplesNest ==
    ASSUME NEW p \in Nat \ {0}, NEW k \in Nat \ {0}, NEW c \in Nat, c % (k * p) = 0
    PROVE  c % p = 0
<1>1. k * p \in Nat \ {0}
    OBVIOUS
<1>5. PICK u \in Nat \ {0} : u = k * p
    BY <1>1
<1>6. c \div u \in Nat /\ c = u * (c \div u) + (c % u)
    BY DivisionIs
<1>2. PICK n \in Nat : c = (k * p) * n
  <2>1. PICK n \in Nat : n = c \div u
      BY <1>6
  <2>2. c % u = 0
      BY <1>5
  <2>3. c = u * n + 0 /\ u * n \in Nat
      BY <1>6, <2>1, <2>2
  <2>4. c = u * n
      BY <2>3
  <2> QED
      BY <1>5, <2>4
<1>3. PICK m \in Nat : m = k * n
    OBVIOUS
<1>4. c = p * m + 0
    BY <1>2, <1>3
<1> QED
    BY <1>4, QuotientIs

\* Two numbers less than p apart with one remainder are one.
LEMMA SameRemainder ==
    ASSUME NEW p \in Nat \ {0}, NEW a \in Nat, NEW b \in Nat, a <= b, b < a + p, a % p = b % p
    PROVE  a = b
<1>1. PICK m \in Nat, r \in Nat : m = a \div p /\ r = a % p /\ a = p * m + r
    BY DivisionIs
<1>2. PICK n \in Nat : n = b \div p /\ b = p * n + r
  <2>1. PICK n \in Nat, s \in Nat : n = b \div p /\ s = b % p /\ b = p * n + s
      BY DivisionIs
  <2> QED
      BY <1>1, <2>1
<1>3. p * m \in Nat /\ p * n \in Nat
    OBVIOUS
<1>4. (n < m => p * m >= p * n + p) /\ (m < n => p * n >= p * m + p)
    BY MultiplesApart
<1>5. m = n
    BY <1>1, <1>2, <1>3, <1>4
<1> QED
    BY <1>1, <1>2, <1>5

\* Every nonempty set of naturals has a least element.
LEMMA LeastNatural ==
    ASSUME NEW T \in SUBSET Nat, T # {}
    PROVE  \E n \in T : \A m \in T : n <= m
<1> DEFINE Downs == {1 .. n : n \in T}
<1>1. Downs \subseteq FiniteSubsetsOf(Nat) /\ Downs # {}
    <2>1. \A n \in T : IsFiniteSet(1 .. n) /\ 1 .. n \in SUBSET Nat
        BY FS_Interval
    <2> QED
        BY <2>1 DEF FiniteSubsetsOf
<1>2. PICK least \in Downs : \A d \in Downs : <<d, least>> \notin StrictSubsetOrdering(Nat)
    <2> HIDE DEF Downs
    <2> QED
        BY <1>1, FS_StrictSubsetOrderingWellFounded, WFMin
<1>3. PICK n \in T : least = 1 .. n
    OBVIOUS
<1>4. ASSUME NEW m \in T, m < n PROVE FALSE
    <2>1. 1 .. m \in Downs /\ n \in 1 .. n /\ n \notin 1 .. m
        BY <1>4
    <2>2. 1 .. m \subseteq 1 .. n /\ 1 .. m \subseteq Nat /\ 1 .. n \subseteq Nat
        BY <1>4
    <2> QED
        BY <1>2, <1>3, <2>1, <2>2 DEF StrictSubsetOrdering
<1> QED
    BY <1>4

-----------------------------------------------------------------------------
(* BackupTopology *)

Seats == [id : Processes, acked : BOOLEAN]
Orders == [version : Nat, epoch : Epochs \cup {0}]
Shares == [id : Processes, round : Nat, joined : Nat]

TopologyTyped ==
    /\ processes \in Seq(Seats) /\ staged \in Seq(Orders) /\ Len(staged) <= MaxRounds
    /\ activeVersion \in Orders /\ activeVersion.version <= Len(staged)
    /\ stagingVersion \in Orders /\ stagingVersion.version <= Len(staged)
    /\ rebuilding \in BOOLEAN /\ joined \in [Processes -> Nat]

\* A process has one seat, and registered for it.
SeatsFit ==
    /\ \A i, j \in DOMAIN processes : processes[i].id = processes[j].id => i = j
    /\ \A i \in DOMAIN processes : joined[processes[i].id] >= 1

\* An acknowledgement names the share that was primed, and the version that its
\* round staged.
AcksFit ==
    \A ack \in acks :
      /\ ack.share \in primed /\ ack.share \in Shares
      /\ ack.share.round \in 1 .. Len(staged) /\ staged[ack.share.round] = ack.version
      /\ ack.share.joined \in 1 .. joined[ack.share.id]

\* A seat is marked for what was primed in this rebuild, or for what is believed.
MarksFit ==
    rebuilding =>
      /\ Len(staged) >= 1 /\ staged[Len(staged)] = stagingVersion
      /\ \A i \in DOMAIN processes :
            processes[i].acked => HasPrimed(processes[i].id) \/ processes[i].id \in believed

TopologyInv == PrimedBeforePromoted /\ TopologyTyped /\ SeatsFit /\ AcksFit /\ MarksFit

\* The places of the primary and of its backup differ, whatever the hash.
LEMMA PlacesDiffer ==
    ASSUME NEW n \in Nat, n >= 2, NEW h \in Nat
    PROVE  /\ h % n \in 0 .. n - 1
           /\ (IF (h \div n + 1) % n = h % n THEN (((h \div n + 1) % n) + 1) % n
                                           ELSE (h \div n + 1) % n) \in 0 .. n - 1
           /\ (IF (h \div n + 1) % n = h % n THEN (((h \div n + 1) % n) + 1) % n
                                           ELSE (h \div n + 1) % n) # h % n
<1>1. \A k \in Nat : k % n \in 0 .. n - 1
    OBVIOUS
<1>2. PICK first : first = h % n
    OBVIOUS
<1>3. h \div n \in Nat
    OBVIOUS
<1>4. PICK second : second = (h \div n + 1) % n
    OBVIOUS
<1>5. first \in 0 .. n - 1 /\ second \in 0 .. n - 1
    BY <1>1, <1>2, <1>3, <1>4
<1>6. (second + 1) % n # second
    BY <1>5
<1> QED
    BY <1>1, <1>2, <1>4, <1>5, <1>6

LEMMA TopologyStart == TopologyInit => TopologyInv
<1> SUFFICES ASSUME TopologyInit PROVE TopologyInv
    OBVIOUS
<1>1. /\ processes = << >> /\ staged = << >> /\ Len(processes) = 0 /\ Len(staged) = 0
      /\ DOMAIN processes = {} /\ processes \in Seq(Seats) /\ staged \in Seq(Orders)
      /\ Members = {}
    BY DEF TopologyInit, Members
<1>2. NoVersion \in Orders /\ NoVersion.version = 0 /\ NoVersion.epoch = 0
    BY DEF NoVersion, Orders
<1>3. TopologyTyped
  <2>1. MaxRounds \in Nat
      BY TopologyAssumption
  <2>2. joined \in [Processes -> Nat]
      BY DEF TopologyInit
  <2>3. activeVersion = NoVersion /\ stagingVersion = NoVersion /\ rebuilding = FALSE
      BY DEF TopologyInit
  <2>4. Len(staged) <= MaxRounds /\ activeVersion.version <= Len(staged)
        /\ stagingVersion.version <= Len(staged)
      BY <1>1, <1>2, <2>1, <2>3
  <2> QED
      BY <1>1, <1>2, <2>2, <2>3, <2>4 DEF TopologyTyped
<1>4. SeatsFit /\ AcksFit /\ MarksFit
    BY <1>1 DEF TopologyInit, SeatsFit, AcksFit, MarksFit
<1>5. PrimedBeforePromoted
    BY <1>1, <1>2, TopologyAssumption
       DEF TopologyInit, PrimedBeforePromoted, TopologyTypeOK, AllAcked
<1> QED
    BY <1>3, <1>4, <1>5 DEF TopologyInv

\* What the marks say of the next state is what is to be promoted.
LEMMA MarksSuffice ==
    ASSUME TopologyTyped', SeatsFit', MarksFit', (believed \subseteq Members)',
           \A p \in believed' : \/ joined'[p] > 1
                                \/ \E r \in 1 .. Len(staged') - 1 : staged'[r] = stagingVersion'
    PROVE  PrimedBeforePromoted'
<1>1. PICK q : q = processes'
    OBVIOUS
<1>2. PICK n : n = Len(q)
    OBVIOUS
<1>3. /\ q \in Seq(Seats) /\ n \in Nat /\ DOMAIN q = 1 .. n
      /\ \A i \in 1 .. n : q[i].id \in Processes
      /\ \A i, j \in 1 .. n : q[i].id = q[j].id => i = j
  <2>1. q \in Seq(Seats) /\ n \in Nat /\ DOMAIN q = 1 .. n
      BY <1>1, <1>2 DEF TopologyTyped
  <2>2. \A i \in 1 .. n : q[i] \in Seats
      BY <1>2, <2>1
  <2> QED
      BY <1>1, <2>1, <2>2 DEF SeatsFit, Seats
<1>4. TopologyTypeOK'
  <2>1. Members' = {q[i].id : i \in DOMAIN q}
      BY <1>1 DEF Members
  <2>2. Members' \subseteq Processes
      BY <1>3, <2>1
  <2>3. activeVersion'.version \in 0 .. MaxRounds /\ activeVersion'.epoch \in Epochs \cup {0}
    <3>1. MaxRounds \in Nat /\ Len(staged') \in Nat
        BY TopologyAssumption DEF TopologyTyped
    <3>2. activeVersion'.version \in Nat /\ activeVersion'.epoch \in Epochs \cup {0}
        BY DEF TopologyTyped, Orders
    <3> QED
        BY <3>1, <3>2 DEF TopologyTyped
  <2> QED
      BY <2>2, <2>3 DEF TopologyTypeOK
<1>5. AllAcked' => \A p \in Members' : HasPrimed(p)' \/ p \in believed'
    BY DEF AllAcked, Members, MarksFit, HasPrimed, Round
<1>6. ASSUME n >= 2, NEW h \in Hashes PROVE (RouteFor(h).primary # RouteFor(h).backup)'
  <2>1. h \in Nat
      BY TopologyAssumption
  <2>2. PICK first : first = h % n
      OBVIOUS
  <2>3. PICK other : other = IF (h \div n + 1) % n = h % n THEN (((h \div n + 1) % n) + 1) % n
                                                         ELSE (h \div n + 1) % n
      OBVIOUS
  <2>4. first \in 0 .. n - 1 /\ other \in 0 .. n - 1 /\ other # first
      BY <1>3, <1>6, <2>1, <2>2, <2>3, PlacesDiffer
  <2>5. first + 1 \in 1 .. n /\ other + 1 \in 1 .. n /\ other + 1 # first + 1
      BY <1>3, <2>4
  <2>6. q[first + 1].id # q[other + 1].id
      BY <1>3, <2>5
  <2>7. RouteFor(h)' = [primary |-> q[first + 1].id, backup |-> q[other + 1].id]
      BY <1>1, <1>2, <2>2, <2>3 DEF RouteFor
  <2> QED
      BY <2>6, <2>7
<1> QED
    BY <1>1, <1>2, <1>4, <1>5, <1>6 DEF PrimedBeforePromoted, Round

\* A process registers, or leaves.
LEMMA MembershipStep ==
    ASSUME TopologyInv, NEW p \in Processes, RegisterProcess(p) \/ UnregisterProcess(p)
    PROVE  TopologyInv'
<1>1. /\ TopologyTyped /\ SeatsFit /\ AcksFit /\ MarksFit /\ PrimedBeforePromoted
      /\ UNCHANGED <<activeVersion, stagingVersion, rebuilding, staged, acks, primed>>
    BY DEF TopologyInv, RegisterProcess, UnregisterProcess, VersionsStay
<1>2. PICK n : n = Len(processes)
    OBVIOUS
<1>3. /\ n \in Nat /\ DOMAIN processes = 1 .. n /\ processes \in Seq(Seats)
      /\ \A i \in 1 .. n : processes[i] \in Seats
      /\ \A i \in 1 .. n : processes[i].id \in Processes /\ processes[i].id \in Members
      /\ joined \in [Processes -> Nat] /\ believed \subseteq Members
  <2>1. n \in Nat /\ DOMAIN processes = 1 .. n /\ processes \in Seq(Seats)
      BY <1>1, <1>2 DEF TopologyTyped
  <2>2. \A i \in 1 .. n : processes[i] \in Seats
      BY <1>2, <2>1
  <2> QED
      BY <1>1, <2>1, <2>2 DEF Seats, Members, TopologyTyped, PrimedBeforePromoted, TopologyTypeOK
\* What is left to say of the seats.
<1>4. ASSUME NEW q \in Seq(Seats), processes' = q, joined' \in [Processes -> Nat],
             \A o \in Processes : joined'[o] >= joined[o],
             \A i, j \in DOMAIN q : q[i].id = q[j].id => i = j,
             \A i \in DOMAIN q :
                \/ /\ joined'[q[i].id] = joined[q[i].id]
                   /\ q[i].id \in believed => q[i].id \in believed'
                   /\ \E j \in DOMAIN processes : processes[j] = q[i]
                \/ ~q[i].acked /\ joined'[q[i].id] >= 1,
             believed' \subseteq {q[i].id : i \in DOMAIN q}, believed' \subseteq believed
      PROVE  TopologyInv'
  <2>1. TopologyTyped'
      BY <1>1, <1>4 DEF TopologyTyped
  <2>2. SeatsFit'
      BY <1>1, <1>4 DEF SeatsFit
  <2>3. AcksFit'
    <3> SUFFICES ASSUME NEW ack \in acks PROVE ack.share.joined \in 1 .. joined'[ack.share.id]
        BY <1>1 DEF AcksFit
    <3>1. ack.share.id \in Processes /\ ack.share.joined \in 1 .. joined[ack.share.id]
        BY <1>1 DEF AcksFit, Shares
    <3>2. /\ joined'[ack.share.id] >= joined[ack.share.id]
          /\ joined'[ack.share.id] \in Nat /\ joined[ack.share.id] \in Nat
        BY <1>3, <1>4, <3>1
    <3> QED
        BY <3>1, <3>2
  <2>4. MarksFit'
    <3> SUFFICES ASSUME rebuilding, NEW i \in DOMAIN q, q[i].acked
                 PROVE  HasPrimed(q[i].id)' \/ q[i].id \in believed'
        BY <1>1, <1>4 DEF MarksFit
    <3>1. PICK o : o = q[i].id
        OBVIOUS
    <3>2. joined'[o] = joined[o] /\ (o \in believed => o \in believed')
          /\ \E j \in DOMAIN processes : processes[j].id = o /\ processes[j].acked
        BY <1>4, <3>1
    <3>3. HasPrimed(o) \/ o \in believed
        BY <1>1, <3>2 DEF MarksFit
    <3>4. HasPrimed(o)' \/ o \in believed'
        BY <1>1, <3>2, <3>3 DEF HasPrimed, Round
    <3> QED
        BY <1>4, <3>1, <3>4 DEF HasPrimed
  <2>5. (believed \subseteq Members)'
      BY <1>4 DEF Members
  <2>6. ASSUME NEW o \in believed'
        PROVE  \/ joined'[o] > 1
               \/ \E r \in 1 .. Len(staged') - 1 : staged'[r] = stagingVersion'
    <3>1. o \in believed /\ o \in Processes
        BY <1>3, <1>4, <2>6 DEF Members
    <3>2. joined[o] > 1 \/ \E r \in 1 .. Len(staged) - 1 : staged[r] = stagingVersion
        BY <1>1, <3>1 DEF PrimedBeforePromoted, Round
    <3>3. joined'[o] >= joined[o] /\ joined'[o] \in Nat /\ joined[o] \in Nat
        BY <1>3, <1>4, <3>1
    <3> QED
        BY <1>1, <3>2, <3>3
  <2> QED
      BY <2>1, <2>2, <2>3, <2>4, <2>5, <2>6, MarksSuffice DEF TopologyInv
<1>5. CASE RegisterProcess(p)
  <2>1. PICK seat : seat = [id |-> p, acked |-> FALSE]
      OBVIOUS
  <2>2. PICK q : q = Append(processes, seat)
      OBVIOUS
  <2>3. /\ processes' = q /\ p \notin Members /\ believed' = believed
        /\ joined' = [joined EXCEPT ![p] = @ + 1]
      BY <1>5, <2>1, <2>2 DEF RegisterProcess
  <2>4. seat \in Seats /\ seat.id = p /\ ~seat.acked
      BY <2>1 DEF Seats
  <2>5. /\ q \in Seq(Seats) /\ DOMAIN q = 1 .. n + 1 /\ q[n + 1] = seat
        /\ \A i \in 1 .. n : q[i] = processes[i]
      BY <1>2, <1>3, <2>2, <2>4
  <2>6. \A i \in 1 .. n + 1 : i \in 1 .. n \/ i = n + 1
      BY <1>3
  <2>7. \A i \in 1 .. n : processes[i].id # p
      BY <1>3, <2>3
  <2>8. \A i, j \in DOMAIN q : q[i].id = q[j].id => i = j
    <3>1. \A i, j \in 1 .. n : processes[i].id = processes[j].id => i = j
        BY <1>1, <1>3 DEF SeatsFit
    <3> QED
        BY <2>4, <2>5, <2>6, <2>7, <3>1
  <2>9. /\ joined' \in [Processes -> Nat] /\ joined'[p] >= 1
        /\ \A o \in Processes : joined'[o] >= joined[o] /\ (o # p => joined'[o] = joined[o])
    <3>1. joined[p] \in Nat /\ joined'[p] = joined[p] + 1
        BY <1>3, <2>3
    <3>2. \A o \in Processes : joined[o] \in Nat /\ (o # p => joined'[o] = joined[o])
        BY <1>3, <2>3
    <3>3. joined' \in [Processes -> Nat]
        BY <1>3, <2>3
    <3> QED
        BY <3>1, <3>2, <3>3
  <2>10. \A i \in DOMAIN q :
            \/ /\ joined'[q[i].id] = joined[q[i].id]
               /\ q[i].id \in believed => q[i].id \in believed'
               /\ \E j \in DOMAIN processes : processes[j] = q[i]
            \/ ~q[i].acked /\ joined'[q[i].id] >= 1
      BY <1>3, <2>3, <2>4, <2>5, <2>6, <2>7, <2>9
  <2>11. believed \subseteq {q[i].id : i \in DOMAIN q}
    <3> SUFFICES ASSUME NEW o \in believed PROVE \E i \in DOMAIN q : q[i].id = o
        OBVIOUS
    <3>1. PICK i \in 1 .. n : processes[i].id = o
        BY <1>3 DEF Members
    <3>2. i \in DOMAIN q /\ q[i].id = o
        BY <1>3, <2>5, <3>1
    <3> QED
        BY <3>2
  <2> QED
      BY <1>4, <2>3, <2>5, <2>8, <2>9, <2>10, <2>11
<1>6. CASE UnregisterProcess(p)
  <2>1. PICK k \in 1 .. n : processes[k].id = p /\ processes' = RemoveAt(processes, k)
      BY <1>3, <1>6 DEF UnregisterProcess
  <2>2. believed' = believed \ {p} /\ joined' = joined
      BY <1>6 DEF UnregisterProcess
  <2>3. PICK a : a = SubSeq(processes, 1, k - 1)
      OBVIOUS
  <2>4. PICK b : b = SubSeq(processes, k + 1, n)
      OBVIOUS
  <2>5. a \in Seq(Seats) /\ Len(a) = k - 1 /\ \A i \in 1 .. k - 1 : a[i] = processes[i]
      BY <1>2, <1>3, <2>1, <2>3
  <2>6. b \in Seq(Seats) /\ Len(b) = n - k /\ \A i \in 1 .. n - k : b[i] = processes[k + i]
      BY <1>2, <1>3, <2>1, <2>4
  <2>7. PICK q : q = a \o b
      OBVIOUS
  <2>8. processes' = q
      BY <1>2, <2>1, <2>3, <2>4, <2>7 DEF RemoveAt
  <2>9. /\ q \in Seq(Seats) /\ DOMAIN q = 1 .. n - 1
        /\ \A i \in 1 .. k - 1 : q[i] = processes[i]
        /\ \A i \in k .. n - 1 : q[i] = processes[i + 1]
    <3>1. q \in Seq(Seats) /\ Len(q) = n - 1
      <4>1. q \in Seq(Seats)
          BY <2>5, <2>6, <2>7
      <4>2. Len(q) = (k - 1) + (n - k)
        <5>0. a \in Seq(Seats) /\ b \in Seq(Seats)
            BY <2>5, <2>6
        <5>1. Len(a \o b) = Len(a) + Len(b)
            BY <5>0
        <5> QED
            BY <2>5, <2>6, <2>7, <5>1
      <4>3. (k - 1) + (n - k) = n - 1
          BY <1>3, <2>1
      <4> QED
          BY <4>1, <4>2, <4>3
    <3>2. \A i \in 1 .. n - 1 : q[i] = IF i <= k - 1 THEN a[i] ELSE b[i - (k - 1)]
        BY <1>3, <2>1, <2>5, <2>6, <2>7
    <3>3. ASSUME NEW i \in k .. n - 1 PROVE q[i] = processes[i + 1]
      <4>1. i - (k - 1) \in 1 .. n - k /\ k + (i - (k - 1)) = i + 1 /\ ~(i <= k - 1) /\ i \in 1 .. n - 1
          BY <1>3, <2>1
      <4> QED
          BY <2>6, <3>2, <4>1
    <3>4. \A i \in 1 .. k - 1 : q[i] = processes[i]
        BY <1>3, <2>1, <2>5, <3>2
    <3> QED
        BY <3>1, <3>3, <3>4
  <2>10. PICK f : f = [i \in 1 .. n - 1 |-> IF i < k THEN i ELSE i + 1]
      OBVIOUS
  <2>11. /\ \A i \in 1 .. n - 1 : f[i] \in 1 .. n /\ f[i] # k /\ q[i] = processes[f[i]]
         /\ \A i, j \in 1 .. n - 1 : f[i] = f[j] => i = j
    <3>1. \A i \in 1 .. n - 1 : f[i] \in 1 .. n /\ f[i] # k
        BY <1>3, <2>1, <2>10
    <3>2. \A i \in 1 .. n - 1 : q[i] = processes[f[i]]
        BY <1>3, <2>1, <2>9, <2>10
    <3>3. \A i, j \in 1 .. n - 1 : f[i] = f[j] => i = j
        BY <1>3, <2>1, <2>10
    <3> QED
        BY <3>1, <3>2, <3>3
  <2>12. \A i, j \in 1 .. n : processes[i].id = processes[j].id => i = j
      BY <1>1, <1>3 DEF SeatsFit
  <2>13. \A i, j \in DOMAIN q : q[i].id = q[j].id => i = j
      BY <2>9, <2>11, <2>12
  <2>14. \A i \in DOMAIN q : q[i].id # p /\ \E j \in DOMAIN processes : processes[j] = q[i]
      BY <1>3, <2>1, <2>9, <2>11, <2>12
  <2>15. believed' \subseteq {q[i].id : i \in DOMAIN q}
    <3> SUFFICES ASSUME NEW o \in believed \ {p} PROVE \E i \in DOMAIN q : q[i].id = o
        BY <2>2
    <3>1. PICK j \in 1 .. n : processes[j].id = o /\ j # k
        BY <1>3, <2>1 DEF Members
    <3>2. PICK i : i = IF j < k THEN j ELSE j - 1
        OBVIOUS
    <3>3. i \in 1 .. n - 1 /\ f[i] = j
        BY <1>3, <2>1, <2>10, <3>1, <3>2
    <3> QED
        BY <2>9, <2>11, <3>1, <3>3
  <2>16. \A o \in Processes : joined'[o] >= joined[o]
      BY <1>3, <2>2
  <2>17. \A i \in DOMAIN q :
            /\ joined'[q[i].id] = joined[q[i].id]
            /\ q[i].id \in believed => q[i].id \in believed'
            /\ \E j \in DOMAIN processes : processes[j] = q[i]
      BY <2>2, <2>14
  <2>18. joined' \in [Processes -> Nat] /\ believed' \subseteq believed
      BY <1>3, <2>2
  <2> QED
      BY <1>4, <2>8, <2>9, <2>13, <2>15, <2>16, <2>17, <2>18
<1> QED
    BY <1>5, <1>6

\* A rebuild begins: every mark is taken away.
LEMMA BeginRebuildStep ==
    ASSUME TopologyInv, NEW epoch \in Epochs, BeginRebuild(epoch)
    PROVE  TopologyInv'
<1>1. /\ TopologyTyped /\ SeatsFit /\ AcksFit /\ rebuilding' = TRUE /\ believed' = {}
      /\ UNCHANGED <<activeVersion, acks, joined, primed>> /\ processes' = AcksCleared
    BY DEF TopologyInv, BeginRebuild
<1>2. PICK n : n = Len(staged)
    OBVIOUS
<1>3. PICK v : v = [version |-> activeVersion.version + 1, epoch |-> epoch]
    OBVIOUS
<1>4. PICK t : t = Append(staged, v)
    OBVIOUS
<1>5. stagingVersion' = v /\ staged' = t /\ n < MaxRounds
    BY <1>2, <1>3, <1>4 DEF BeginRebuild, Round
<1>6. n \in Nat /\ staged \in Seq(Orders) /\ DOMAIN staged = 1 .. n /\ MaxRounds \in Nat
    BY <1>1, <1>2, TopologyAssumption DEF TopologyTyped
<1>7. v \in Orders /\ v.version <= n + 1 /\ activeVersion \in Orders /\ activeVersion.version <= n + 1
  <2>1. activeVersion \in Orders /\ activeVersion.version \in Nat /\ activeVersion.version <= n
      BY <1>1, <1>2 DEF TopologyTyped, Orders
  <2>2. v \in Orders /\ v.version = activeVersion.version + 1
      BY <1>3, <2>1 DEF Orders
  <2> QED
      BY <1>6, <2>1, <2>2
<1>8. t \in Seq(Orders) /\ Len(t) = n + 1 /\ t[n + 1] = v /\ \A i \in 1 .. n : t[i] = staged[i]
    BY <1>2, <1>4, <1>6, <1>7
<1>9. PICK q : q = AcksCleared
    OBVIOUS
<1>10. /\ q \in Seq(Seats) /\ DOMAIN q = DOMAIN processes
       /\ \A i \in DOMAIN q : q[i].id = processes[i].id /\ ~q[i].acked
  <2>1. PICK m : m = Len(processes)
      OBVIOUS
  <2>2. m \in Nat /\ DOMAIN processes = 1 .. m /\ \A i \in 1 .. m : processes[i] \in Seats
      BY <1>1, <2>1 DEF TopologyTyped
  <2>3. q = [i \in 1 .. m |-> [processes[i] EXCEPT !.acked = FALSE]]
      BY <1>9, <2>2 DEF AcksCleared
  <2>4. \A i \in 1 .. m : q[i] \in Seats /\ q[i].id = processes[i].id /\ ~q[i].acked
      BY <2>2, <2>3 DEF Seats
  <2> QED
      BY <2>2, <2>3, <2>4
<1>11. TopologyTyped'
    BY <1>1, <1>5, <1>6, <1>7, <1>8, <1>9, <1>10 DEF TopologyTyped
<1>12. SeatsFit'
    BY <1>1, <1>9, <1>10 DEF SeatsFit
<1>13. AcksFit'
  <2> SUFFICES ASSUME NEW ack \in acks
               PROVE  ack.share.round \in 1 .. n + 1 /\ t[ack.share.round] = ack.version
      BY <1>1, <1>5, <1>8 DEF AcksFit
  <2>1. ack.share.round \in 1 .. n /\ staged[ack.share.round] = ack.version
      BY <1>1, <1>2 DEF AcksFit
  <2> QED
      BY <1>6, <1>8, <2>1
<1>14. MarksFit'
    BY <1>1, <1>5, <1>6, <1>8, <1>9, <1>10 DEF MarksFit
<1> QED
    BY <1>1, <1>11, <1>12, <1>13, <1>14, MarksSuffice DEF TopologyInv

\* A member primes its share, and says so.
LEMMA PrimeStep ==
    ASSUME TopologyInv, NEW p \in Processes, Prime(p)
    PROVE  TopologyInv'
<1>1. /\ TopologyTyped /\ SeatsFit /\ AcksFit /\ MarksFit /\ PrimedBeforePromoted
      /\ UNCHANGED <<activeVersion, stagingVersion, rebuilding, staged, processes, joined, believed>>
    BY DEF TopologyInv, Prime, VersionsStay
<1>2. PICK share : share = [id |-> p, round |-> Len(staged), joined |-> joined[p]]
    OBVIOUS
<1>3. PICK ack : ack = [share |-> share, version |-> stagingVersion]
    OBVIOUS
<1>4. /\ rebuilding /\ p \in Members /\ primed' = primed \cup {share} /\ acks' = acks \cup {ack}
    BY <1>2, <1>3 DEF Prime, Round
<1>5. joined[p] \in Nat /\ joined[p] >= 1 /\ Len(staged) \in Nat /\ Len(staged) >= 1
      /\ staged[Len(staged)] = stagingVersion
  <2>1. joined[p] >= 1
      BY <1>1, <1>4 DEF Members, SeatsFit
  <2> QED
      BY <1>1, <1>4, <2>1 DEF TopologyTyped, MarksFit
<1>6. /\ share \in Shares /\ share.id = p /\ share.round = Len(staged) /\ share.joined = joined[p]
      /\ ack.share = share /\ ack.version = stagingVersion
    BY <1>2, <1>3, <1>5 DEF Shares
<1>7. AcksFit'
    BY <1>1, <1>4, <1>5, <1>6 DEF AcksFit
<1>8. TopologyTyped' /\ SeatsFit'
    BY <1>1 DEF TopologyTyped, SeatsFit
<1>9. MarksFit'
    BY <1>1, <1>4 DEF MarksFit, HasPrimed, Round
<1>10. (believed \subseteq Members)'
       /\ \A o \in believed' : \/ joined'[o] > 1
                               \/ \E r \in 1 .. Len(staged') - 1 : staged'[r] = stagingVersion'
    BY <1>1 DEF Members, PrimedBeforePromoted, TopologyTypeOK, Round
<1> QED
    BY <1>7, <1>8, <1>9, <1>10, MarksSuffice DEF TopologyInv

\* An acknowledgement arrives: it marks its process if the version is the one being
\* staged, whatever rebuild it was sent in.
LEMMA AckStep ==
    ASSUME TopologyInv, NEW ack \in acks, AckPrimed(ack)
    PROVE  TopologyInv'
<1>1. /\ TopologyTyped /\ SeatsFit /\ AcksFit /\ MarksFit /\ PrimedBeforePromoted
      /\ UNCHANGED <<activeVersion, stagingVersion, rebuilding, staged, joined, primed>>
      /\ acks' = acks \ {ack}
    BY DEF TopologyInv, AckPrimed, VersionsStay
<1>2. PICK p : p = ack.share.id
    OBVIOUS
<1>3. AcksFit'
    BY <1>1 DEF AcksFit
<1>4. /\ believed \subseteq Members
      /\ \A o \in believed : \/ joined[o] > 1
                             \/ \E r \in 1 .. Len(staged) - 1 : staged[r] = stagingVersion
    BY <1>1 DEF PrimedBeforePromoted, TopologyTypeOK, Round
<1>5. CASE ~Expected(ack)
  <2>1. UNCHANGED <<processes, believed>>
      BY <1>5 DEF AckPrimed
  <2>2. TopologyTyped' /\ SeatsFit'
      BY <1>1, <2>1 DEF TopologyTyped, SeatsFit
  <2>3. MarksFit'
      BY <1>1, <2>1 DEF MarksFit, HasPrimed, Round
  <2>4. (believed \subseteq Members)'
        /\ \A o \in believed' : \/ joined'[o] > 1
                                \/ \E r \in 1 .. Len(staged') - 1 : staged'[r] = stagingVersion'
      BY <1>1, <1>4, <2>1 DEF Members
  <2> QED
      BY <1>3, <2>2, <2>3, <2>4, MarksSuffice DEF TopologyInv
<1>6. CASE Expected(ack)
  <2>1. PICK q : q = [i \in DOMAIN processes |->
                        IF processes[i].id = p THEN [processes[i] EXCEPT !.acked = TRUE] ELSE processes[i]]
      OBVIOUS
  <2>2. /\ processes' = q
        /\ believed' = IF ack.share.round = Len(staged) /\ ack.share.joined = joined[p]
                       THEN believed ELSE believed \cup {p}
        /\ rebuilding /\ ack.version = stagingVersion /\ p \in Members
      BY <1>2, <1>6, <2>1 DEF AckPrimed, Expected, Round
  <2>3. /\ q \in Seq(Seats) /\ DOMAIN q = DOMAIN processes
        /\ \A i \in DOMAIN q : q[i].id = processes[i].id /\ (q[i].id # p => q[i] = processes[i])
    <3>1. PICK m : m = Len(processes)
        OBVIOUS
    <3>2. m \in Nat /\ DOMAIN processes = 1 .. m /\ \A i \in 1 .. m : processes[i] \in Seats
        BY <1>1, <3>1 DEF TopologyTyped
    <3>3. q = [i \in 1 .. m |->
                 IF processes[i].id = p THEN [processes[i] EXCEPT !.acked = TRUE] ELSE processes[i]]
        BY <2>1, <3>2
    <3>4. \A i \in 1 .. m : /\ q[i] \in Seats /\ q[i].id = processes[i].id
                            /\ (q[i].id # p => q[i] = processes[i])
        BY <3>2, <3>3 DEF Seats
    <3>5. DOMAIN q = 1 .. m
        BY <3>3
    <3>6. q \in Seq(Seats)
        BY <3>2, <3>3, <3>4
    <3> QED
        BY <3>2, <3>4, <3>5, <3>6
  <2>4. /\ ack.share \in primed /\ ack.share \in Shares
        /\ ack.share.round \in 1 .. Len(staged) /\ staged[ack.share.round] = ack.version
        /\ ack.share.joined \in 1 .. joined[p] /\ Len(staged) \in Nat /\ joined[p] \in Nat
    <3>1. p \in Processes
        BY <1>1, <1>2 DEF AcksFit, Shares
    <3> QED
        BY <1>1, <1>2, <3>1 DEF AcksFit, TopologyTyped
  <2>5. TopologyTyped' /\ SeatsFit'
      BY <1>1, <2>2, <2>3 DEF TopologyTyped, SeatsFit
  <2>6. HasPrimed(p) \/ p \in believed'
    <3>1. CASE ack.share.round = Len(staged) /\ ack.share.joined = joined[p]
      <4>1. ack.share = [id |-> p, round |-> Len(staged), joined |-> joined[p]]
          BY <1>2, <2>4, <3>1 DEF Shares
      <4> QED
          BY <2>4, <4>1 DEF HasPrimed, Round
    <3>2. CASE ~(ack.share.round = Len(staged) /\ ack.share.joined = joined[p])
        BY <2>2, <3>2
    <3> QED
        BY <3>1, <3>2
  <2>7. MarksFit'
    <3> SUFFICES ASSUME NEW i \in DOMAIN q, q[i].acked
                 PROVE  HasPrimed(q[i].id)' \/ q[i].id \in believed'
        BY <1>1, <2>2, <2>3 DEF MarksFit
    <3>1. PICK o : o = q[i].id
        OBVIOUS
    <3>2. HasPrimed(o) \/ o \in believed'
      <4>1. CASE o = p
          BY <2>6, <4>1
      <4>2. CASE o # p
          BY <1>1, <2>2, <2>3, <3>1, <4>2 DEF MarksFit
      <4> QED
          BY <4>1, <4>2
    <3> QED
        BY <1>1, <2>2, <3>1, <3>2 DEF HasPrimed, Round
  <2>8. (believed \subseteq Members)'
    <3>1. Members' = Members
        BY <2>2, <2>3 DEF Members
    <3> QED
        BY <1>4, <2>2, <3>1
  <2>9. ASSUME NEW o \in believed'
        PROVE  \/ joined'[o] > 1
               \/ \E r \in 1 .. Len(staged') - 1 : staged'[r] = stagingVersion'
    <3>1. CASE o \in believed
        BY <1>1, <1>4, <3>1
    <3>2. CASE o \notin believed
      <4>1. o = p /\ (ack.share.round # Len(staged) \/ ack.share.joined # joined[p])
          BY <2>2, <2>9, <3>2
      <4>2. CASE ack.share.round # Len(staged)
        <5>1. ack.share.round \in 1 .. Len(staged) - 1
            BY <2>4, <4>2
        <5> QED
            BY <1>1, <2>2, <2>4, <5>1
      <4>3. CASE ack.share.joined # joined[p]
        <5>1. joined[p] > 1
            BY <2>4, <4>3
        <5> QED
            BY <1>1, <4>1, <5>1
      <4> QED
          BY <4>1, <4>2, <4>3
    <3> QED
        BY <3>1, <3>2
  <2> QED
      BY <1>3, <2>5, <2>7, <2>8, <2>9, MarksSuffice DEF TopologyInv
<1> QED
    BY <1>5, <1>6

\* A rebuild ends, with its version or without.
LEMMA RebuildEndsStep ==
    ASSUME TopologyInv, Promote \/ Abort
    PROVE  TopologyInv'
<1>1. /\ TopologyTyped /\ SeatsFit /\ AcksFit /\ PrimedBeforePromoted
      /\ UNCHANGED <<stagingVersion, staged, processes, joined, believed, acks, primed>>
      /\ rebuilding' = FALSE /\ activeVersion' \in {activeVersion, stagingVersion}
    BY DEF TopologyInv, Promote, Abort
<1>2. TopologyTyped' /\ SeatsFit' /\ AcksFit' /\ MarksFit'
    BY <1>1 DEF TopologyTyped, SeatsFit, AcksFit, MarksFit
<1>3. (believed \subseteq Members)'
      /\ \A o \in believed' : \/ joined'[o] > 1
                              \/ \E r \in 1 .. Len(staged') - 1 : staged'[r] = stagingVersion'
    BY <1>1 DEF Members, PrimedBeforePromoted, TopologyTypeOK, Round
<1> QED
    BY <1>2, <1>3, MarksSuffice DEF TopologyInv

LEMMA TopologyStep == TopologyInv /\ [TopologyNext]_topologyVars => TopologyInv'
<1> SUFFICES ASSUME TopologyInv, [TopologyNext]_topologyVars PROVE TopologyInv'
    OBVIOUS
<1>1. CASE UNCHANGED topologyVars
  <2>1. TopologyTyped' /\ SeatsFit' /\ AcksFit' /\ MarksFit'
      BY <1>1 DEF topologyVars, TopologyInv, TopologyTyped, SeatsFit, AcksFit, MarksFit, HasPrimed, Round
  <2>2. (believed \subseteq Members)'
        /\ \A o \in believed' : \/ joined'[o] > 1
                                \/ \E r \in 1 .. Len(staged') - 1 : staged'[r] = stagingVersion'
      BY <1>1 DEF topologyVars, TopologyInv, Members, PrimedBeforePromoted, TopologyTypeOK, Round
  <2> QED
      BY <2>1, <2>2, MarksSuffice DEF TopologyInv
<1>2. CASE TopologyNext
    BY <1>2, MembershipStep, BeginRebuildStep, PrimeStep, AckStep, RebuildEndsStep DEF TopologyNext
<1> QED
    BY <1>1, <1>2

-----------------------------------------------------------------------------
(* HotUpdate *)

\* The history is a list, of whatever the stores were, and its versions are numbered
\* by their places.
VersionsTyped ==
    /\ \E S : history \in Seq(S)
    /\ written \in Seq(Diffs)
    /\ \A i \in DOMAIN history : history[i].version = i - 1

VersionsInv == StoresMatchHistory /\ VersionsTyped

LEMMA VersionsStart == VersionInit => VersionsInv
<1> SUFFICES ASSUME VersionInit PROVE VersionsInv
    OBVIOUS
<1>1. PICK v : v = [version |-> 0, config |-> Empty, scripts |-> Empty]
    OBVIOUS
<1>2. /\ history = <<v>> /\ v.version = 0 /\ v.config = Empty /\ v.scripts = Empty
      /\ written = << >> /\ configStore = Empty /\ scriptStore = Empty /\ currentVersion = 0
    BY <1>1 DEF VersionInit
<1>3. history \in Seq({v}) /\ Len(history) = 1 /\ history[1] = v /\ DOMAIN history = 1 .. 1
      /\ written \in Seq(Diffs) /\ Len(written) = 0 /\ DOMAIN written = {}
    BY <1>2
<1>4. VersionsTyped
  <2>1. \E S : history \in Seq(S)
      BY <1>3
  <2>2. \A i \in DOMAIN history : history[i].version = i - 1
      BY <1>2, <1>3
  <2> QED
      BY <1>3, <2>1, <2>2 DEF VersionsTyped
<1>5. StoresMatchHistory
    BY <1>2, <1>3 DEF StoresMatchHistory, EachFollows, Last
<1> QED
    BY <1>4, <1>5 DEF VersionsInv

\* Numbered by their places, no two versions have one name.
LEMMA NumberedApart ==
    ASSUME NEW h, NEW n \in Nat, DOMAIN h = 1 .. n, \A i \in DOMAIN h : h[i].version = i - 1
    PROVE  \A i, j \in DOMAIN h : h[i].version = h[j].version => i = j
OBVIOUS

LEMMA ApplyStep ==
    ASSUME VersionsInv, NEW diff \in Diffs, Apply(diff)
    PROVE  VersionsInv'
<1>1. PICK S : history \in Seq(S)
    BY DEF VersionsInv, VersionsTyped
<1>2. PICK n : n = Len(history)
    OBVIOUS
<1>3. PICK a : a = Applied(configStore, diff, 1)
    OBVIOUS
<1>4. PICK b : b = Applied(scriptStore, diff, 2)
    OBVIOUS
<1>5. PICK v : v = [version |-> n, config |-> a, scripts |-> b]
    OBVIOUS
<1>6. /\ CanHotUpdate(diff) /\ configStore' = a /\ scriptStore' = b /\ currentVersion' = n
      /\ history' = Append(history, v) /\ written' = Append(SubSeq(written, 1, n - 1), diff)
    BY <1>2, <1>3, <1>4, <1>5 DEF Apply
<1>7. /\ n \in Nat /\ n = Len(written) + 1 /\ written \in Seq(Diffs) /\ Len(written) = n - 1
      /\ n >= 1 /\ DOMAIN history = 1 .. n /\ DOMAIN written = 1 .. n - 1
    BY <1>1, <1>2 DEF VersionsInv, VersionsTyped, StoresMatchHistory, EachFollows
<1>8. SubSeq(written, 1, n - 1) = written
    BY <1>7
<1>9. PICK h : h = Append(history, v)
    OBVIOUS
<1>10. PICK w : w = Append(written, diff)
    OBVIOUS
<1>11. /\ h \in Seq(S \cup {v}) /\ Len(h) = n + 1 /\ DOMAIN h = 1 .. n + 1 /\ h[n + 1] = v
       /\ \A i \in 1 .. n : h[i] = history[i]
  <2>1. history \in Seq(S \cup {v})
      BY <1>1
  <2> QED
      BY <1>2, <1>7, <1>9, <2>1
<1>12. /\ w \in Seq(Diffs) /\ Len(w) = n /\ DOMAIN w = 1 .. n /\ w[n] = diff
       /\ \A i \in 1 .. n - 1 : w[i] = written[i]
    BY <1>7, <1>10
<1>13. history' = h /\ written' = w
    BY <1>6, <1>8, <1>9, <1>10
<1>14. VersionsTyped'
  <2>1. \A i \in 1 .. n + 1 : h[i].version = i - 1
    <3>1. \A i \in 1 .. n : history[i].version = i - 1
        BY <1>7 DEF VersionsInv, VersionsTyped
    <3>2. ASSUME NEW i \in 1 .. n + 1 PROVE h[i].version = i - 1
      <4>1. CASE i = n + 1
          BY <1>5, <1>7, <1>11, <4>1
      <4>2. CASE i \in 1 .. n
          BY <1>11, <3>1, <4>2
      <4> QED
          BY <1>7, <4>1, <4>2
    <3> QED
        BY <3>2
  <2>2. \E T : h \in Seq(T)
      BY <1>11
  <2> QED
      BY <1>11, <1>12, <1>13, <2>1, <2>2 DEF VersionsTyped
<1>15. /\ configStore = history[n].config /\ scriptStore = history[n].scripts
       /\ history[1].config = Empty /\ history[1].scripts = Empty
       /\ \A k \in 1 .. n - 1 :
             /\ history[k + 1].config = Applied(history[k].config, written[k], 1)
             /\ history[k + 1].scripts = Applied(history[k].scripts, written[k], 2)
             /\ CanHotUpdate(written[k])
    BY <1>2, <1>7 DEF VersionsInv, StoresMatchHistory, EachFollows, Last
<1>16. EachFollows'
  <2>1. ASSUME NEW k \in 1 .. n
        PROVE  /\ h[k + 1].config = Applied(h[k].config, w[k], 1)
               /\ h[k + 1].scripts = Applied(h[k].scripts, w[k], 2)
    <3>1. CASE k = n
        BY <1>3, <1>4, <1>5, <1>7, <1>11, <1>12, <1>15, <3>1
    <3>2. CASE k \in 1 .. n - 1
      <4>1. h[k + 1] = history[k + 1] /\ h[k] = history[k] /\ w[k] = written[k]
        <5>1. k + 1 \in 1 .. n
            BY <1>7, <3>2
        <5> QED
            BY <1>11, <1>12, <3>2, <5>1
      <4> QED
          BY <1>15, <3>2, <4>1
    <3> QED
        BY <1>7, <3>1, <3>2
  <2>2. h[1] = history[1]
      BY <1>7, <1>11
  <2> QED
      BY <1>7, <1>11, <1>12, <1>13, <1>15, <2>1, <2>2 DEF EachFollows
<1>17. StoresMatchHistory'
  <2>1. Last(h) = v
      BY <1>11 DEF Last
  <2>2. ASSUME NEW k \in 1 .. n PROVE CanHotUpdate(w[k])
    <3>1. CASE k = n
        BY <1>6, <1>12, <3>1
    <3>2. CASE k \in 1 .. n - 1
        BY <1>12, <1>15, <3>2
    <3> QED
        BY <1>7, <3>1, <3>2
  <2>3. \A i, j \in DOMAIN h : h[i].version = h[j].version => i = j
    <3>1. n + 1 \in Nat /\ \A i \in DOMAIN h : h[i].version = i - 1
        BY <1>7, <1>13, <1>14 DEF VersionsTyped
    <3> QED
        BY <1>11, <3>1, NumberedApart
  <2>4. /\ Last(h).config = a /\ Last(h).scripts = b /\ Last(h).version = n
      BY <1>5, <2>1
  <2>5. \A k \in DOMAIN w : CanHotUpdate(w[k])
      BY <1>12, <2>2
  <2> QED
      BY <1>6, <1>13, <1>16, <2>3, <2>4, <2>5 DEF StoresMatchHistory
<1> QED
    BY <1>14, <1>17 DEF VersionsInv

LEMMA RollbackStep ==
    ASSUME VersionsInv, NEW k \in Nat, Rollback(k)
    PROVE  VersionsInv'
<1>1. PICK S : history \in Seq(S)
    BY DEF VersionsInv, VersionsTyped
<1>2. PICK n : n = Len(history)
    OBVIOUS
<1>3. PICK h : h = SubSeq(history, 1, k)
    OBVIOUS
<1>4. PICK w : w = SubSeq(written, 1, k - 1)
    OBVIOUS
<1>5. /\ k \in 1 .. n - 1 /\ history' = h /\ written' = w /\ configStore' = history[k].config
      /\ scriptStore' = history[k].scripts /\ currentVersion' = history[k].version
    BY <1>2, <1>3, <1>4 DEF Rollback
<1>6. /\ n \in Nat /\ written \in Seq(Diffs) /\ Len(written) = n - 1
      /\ DOMAIN history = 1 .. n /\ DOMAIN written = 1 .. n - 1
    BY <1>1, <1>2 DEF VersionsInv, VersionsTyped, StoresMatchHistory, EachFollows
<1>7. /\ h \in Seq(S) /\ Len(h) = k /\ DOMAIN h = 1 .. k
      /\ \A i \in 1 .. k : h[i] = history[i]
    BY <1>1, <1>2, <1>3, <1>5, <1>6
<1>8. /\ w \in Seq(Diffs) /\ Len(w) = k - 1 /\ DOMAIN w = 1 .. k - 1
      /\ \A i \in 1 .. k - 1 : w[i] = written[i]
    BY <1>4, <1>5, <1>6
<1>9. VersionsTyped'
  <2>1. \A i \in 1 .. n : history[i].version = i - 1
      BY <1>6 DEF VersionsInv, VersionsTyped
  <2>2. \A i \in 1 .. k : h[i].version = i - 1
      BY <1>5, <1>6, <1>7, <2>1
  <2> QED
      BY <1>5, <1>7, <1>8, <2>2 DEF VersionsTyped
<1>10. /\ history[1].config = Empty /\ history[1].scripts = Empty
       /\ \A i \in 1 .. n - 1 :
             /\ history[i + 1].config = Applied(history[i].config, written[i], 1)
             /\ history[i + 1].scripts = Applied(history[i].scripts, written[i], 2)
             /\ CanHotUpdate(written[i])
    BY <1>6 DEF VersionsInv, StoresMatchHistory, EachFollows
<1>11. \A i \in 1 .. k - 1 :
          /\ i \in 1 .. n - 1 /\ h[i] = history[i] /\ h[i + 1] = history[i + 1] /\ w[i] = written[i]
  <2> SUFFICES ASSUME NEW i \in 1 .. k - 1
               PROVE  /\ i \in 1 .. n - 1 /\ h[i] = history[i] /\ h[i + 1] = history[i + 1]
                      /\ w[i] = written[i]
      OBVIOUS
  <2>1. i \in 1 .. k /\ i + 1 \in 1 .. k /\ i \in 1 .. n - 1
      BY <1>5, <1>6
  <2> QED
      BY <1>7, <1>8, <2>1
<1>12. EachFollows'
  <2>1. \A i \in 1 .. k - 1 :
           /\ h[i + 1].config = Applied(h[i].config, w[i], 1)
           /\ h[i + 1].scripts = Applied(h[i].scripts, w[i], 2)
      BY <1>10, <1>11
  <2>2. h[1] = history[1] /\ Len(h) = Len(w) + 1
      BY <1>5, <1>6, <1>7, <1>8
  <2> QED
      BY <1>5, <1>8, <1>10, <2>1, <2>2 DEF EachFollows
<1>13. StoresMatchHistory'
  <2>1. Last(h) = history[k]
      BY <1>5, <1>6, <1>7 DEF Last
  <2>2. \A i \in 1 .. k - 1 : CanHotUpdate(w[i])
      BY <1>10, <1>11
  <2>3. \A i, j \in DOMAIN h : h[i].version = h[j].version => i = j
    <3>1. \A i \in DOMAIN h : h[i].version = i - 1
        BY <1>5, <1>9 DEF VersionsTyped
    <3> QED
        BY <1>7, <3>1, NumberedApart
  <2> QED
      BY <1>5, <1>8, <1>12, <2>1, <2>2, <2>3 DEF StoresMatchHistory
<1> QED
    BY <1>9, <1>13 DEF VersionsInv

LEMMA VersionsStep == VersionsInv /\ [VersionNext]_versionVars => VersionsInv'
<1> SUFFICES ASSUME VersionsInv, [VersionNext]_versionVars PROVE VersionsInv'
    OBVIOUS
<1>1. CASE UNCHANGED versionVars
    BY <1>1 DEF versionVars, VersionsInv, VersionsTyped, StoresMatchHistory, EachFollows
<1>2. ASSUME NEW diff \in Diffs, Apply(diff) \/ Refuse(diff) PROVE VersionsInv'
    BY <1>1, <1>2, ApplyStep DEF Refuse
<1>3. ASSUME NEW k \in 1 .. MaxVersions, Rollback(k) PROVE VersionsInv'
  <2>1. k \in Nat
      BY <1>3
  <2> QED
      BY <1>3, <2>1, RollbackStep
<1> QED
    BY <1>1, <1>2, <1>3 DEF VersionNext

-----------------------------------------------------------------------------
(* SpanExport *)

SpanScopes == {NoSpan} \cup [span : Spans, step : {"none", "host", "exporter", "chain"}]

\* The spans that the exporter has taken.
Taken == ToSet(queue) \cup ToSet(batch) \cup exportedOk \cup exportFailed

SpansTyped ==
    /\ emitter \in {"none", "host", "exporter"} /\ previous \in {"none", "host", "exporter"}
    /\ scope \in [Threads -> SpanScopes] /\ spanCount \in 0 .. MaxSpans
    /\ queue \in Seq(Spans) /\ batch \in Seq(Spans)

\* The exporter has a span once, and none that a thread is still to bring.
SpansOwned ==
    /\ Taken \subseteq 1 .. spanCount
    /\ IsInjective(queue) /\ ToSet(queue) \cap ToSet(batch) = {}
    /\ \A t \in Threads : Doing(t, "exporter") =>
          /\ scope[t].span \in (1 .. spanCount) \ Taken
          /\ \A u \in Threads \ {t} : Doing(u, "exporter") => scope[u].span # scope[t].span

\* No exporter is installed while an old worker runs; a worker has a batch only to
\* send it, and attempts left to do so.
WorkerFits ==
    /\ install \in {"out", "taken"} => worker = "none"
    /\ worker # "sending" => batch = << >>
    /\ worker = "sending" => attempt < Attempts

SpansInv == HostHearsEverySpan /\ SpansTyped /\ SpansOwned /\ WorkerFits

LEMMA NoneInList == ToSet(<< >>) = {} /\ IsInjective(<< >>)
BY DEF ToSet, IsInjective

LEMMA SpansStart == SpanInit => SpansInv
<1> SUFFICES ASSUME SpanInit PROVE SpansInv
    OBVIOUS
<1>1. SpansTyped
    BY SpanAssumption DEF SpanInit, SpansTyped, SpanScopes, NoSpan
<1>2. SpansOwned
    BY NoneInList DEF SpanInit, SpansOwned, Taken, Doing, NoSpan
<1>3. WorkerFits
    BY DEF SpanInit, WorkerFits
<1>4. HostHearsEverySpan
    BY SpanAssumption, NoneInList DEF SpanInit, HostHearsEverySpan, SpanTypeOK
<1> QED
    BY <1>1, <1>2, <1>3, <1>4 DEF SpansInv

\* A thread that finishes a span or passes it on, but does not queue it.
LEMMA ThreadStep ==
    ASSUME SpansInv, NEW t \in Threads,
           Finish(t) \/ EmitToNobody(t) \/ EmitToHost(t) \/ Chain(t)
    PROVE  SpansInv'
<1> USE DEF Doing
<1>1. PICK n : /\ scope' = [scope EXCEPT ![t] = n] /\ n \in SpanScopes
               /\ spanCount' \in spanCount .. MaxSpans
               /\ n.step = "exporter" => n.span \notin 1 .. spanCount /\ n.span \in 1 .. spanCount'
    BY SpanAssumption DEF Finish, EmitToNobody, EmitToHost, Chain, NoSpan, SpanScopes, SpansInv, SpansTyped, Spans
<1>2. QueueStays /\ ControlStays /\ worker' = worker
    BY DEF Finish, EmitToNobody, EmitToHost, Chain
<1>3. SpansTyped'
    BY SpanAssumption, <1>1, <1>2 DEF SpansInv, SpansTyped, QueueStays, ControlStays, Spans
<1>4. Taken' = Taken /\ Taken \subseteq 1 .. spanCount
    BY <1>2 DEF Taken, QueueStays, SpansInv, SpansOwned
<1>5. SpansOwned'
  <2>1. \A u \in Threads \ {t} : scope'[u] = scope[u]
      BY <1>1
  <2>2. scope'[t] = n
      BY <1>1 DEF SpansInv, SpansTyped
  <2>3. 1 .. spanCount \subseteq 1 .. spanCount'
      BY <1>1 DEF SpansInv, SpansTyped
  <2>4. IsInjective(queue)' /\ (ToSet(queue) \cap ToSet(batch) = {})'
      BY <1>2 DEF QueueStays, SpansInv, SpansOwned
  <2>5. ASSUME NEW u \in Threads, Doing(u, "exporter")'
        PROVE  /\ scope'[u].span \in (1 .. spanCount') \ Taken
               /\ \A o \in Threads \ {u} : Doing(o, "exporter")' => scope'[o].span # scope'[u].span
    <3>1. CASE u = t
        BY <1>1, <1>4, <2>1, <2>2, <2>5, <3>1 DEF SpansInv, SpansOwned
    <3>2. CASE u # t
        BY <1>1, <1>4, <2>1, <2>2, <2>3, <2>5, <3>2 DEF SpansInv, SpansOwned
    <3> QED
        BY <3>1, <3>2
  <2> QED
      BY <1>4, <2>3, <2>4, <2>5 DEF SpansOwned
<1>6. WorkerFits'
    BY <1>2 DEF WorkerFits, QueueStays, ControlStays, SpansInv, Attempts
<1>7. (1 .. spanCount \subseteq heard \cup missed \cup InFlight)'
  <2>1. ASSUME NEW s \in 1 .. spanCount' PROVE s \in (heard \cup missed \cup InFlight)'
    <3>1. CASE s \in 1 .. spanCount
      <4>1. s \in heard \cup missed \cup InFlight
          BY <3>1 DEF SpansInv, HostHearsEverySpan
      <4>2. CASE s \in heard \cup missed
          BY <4>2 DEF Finish, EmitToNobody, EmitToHost, Chain
      <4>3. CASE \E u \in Threads \ {t} : s = scope[u].span
          BY <1>1, <4>3 DEF InFlight
      <4>4. CASE s = scope[t].span
        <5>1. ~ Finish(t)
            BY <4>4, <3>1 DEF Finish, SpansInv, SpansTyped, SpanScopes, NoSpan
        <5> QED
            BY <4>4, <5>1 DEF Finish, EmitToNobody, EmitToHost, Chain
      <4> QED
          BY <4>1, <4>2, <4>3, <4>4 DEF InFlight
    <3>2. CASE s \notin 1 .. spanCount
      <4>1. Finish(t) /\ s = spanCount'
          BY <2>1, <3>2 DEF Finish, EmitToNobody, EmitToHost, Chain, SpansInv, SpansTyped
      <4>2. scope'[t].span = s
          BY <4>1 DEF Finish, SpansInv, SpansTyped
      <4> QED
          BY <4>2 DEF InFlight
    <3> QED
        BY <3>1, <3>2
  <2> QED
      BY <2>1
<1>8. HostHearsEverySpan'
    BY <1>2, <1>7 DEF HostHearsEverySpan, SpansInv, SpanTypeOK, QueueStays
<1> QED
    BY <1>3, <1>5, <1>6, <1>8 DEF SpansInv
LEMMA OnSpanStep ==
    ASSUME SpansInv, NEW t \in Threads, OnSpan(t)
    PROVE  SpansInv'
<1> USE DEF Doing
<1>1. PICK s : s = scope[t].span
    OBVIOUS
<1>2. /\ s \in 1 .. spanCount /\ s \notin Taken /\ s \in Spans
      /\ \A u \in Threads \ {t} : Doing(u, "exporter") => scope[u].span # s
    BY SpanAssumption, <1>1 DEF OnSpan, SpansInv, SpansOwned, SpansTyped, Spans
<1>3. /\ scope' \in [Threads -> SpanScopes] /\ \A u \in Threads \ {t} : scope'[u] = scope[u]
      /\ scope'[t].span = s /\ scope'[t].step = "chain"
  <2>1. scope[t] \in [span : Spans, step : {"none", "host", "exporter", "chain"}]
      BY DEF OnSpan, SpansInv, SpansTyped, SpanScopes, NoSpan
  <2>2. PICK n : n = [scope[t] EXCEPT !.step = "chain"]
      OBVIOUS
  <2>3. n.span = s /\ n.step = "chain" /\ n \in SpanScopes
      BY <1>1, <2>1, <2>2 DEF SpanScopes
  <2>4. scope' = [scope EXCEPT ![t] = n] /\ scope \in [Threads -> SpanScopes]
      BY <2>2 DEF OnSpan, Moves, SpansInv, SpansTyped
  <2> QED
      BY <2>3, <2>4
<1>4. ControlStays /\ UNCHANGED <<worker, batch, attempt, draining, exportedOk, spanCount, heard, missed>>
    BY DEF OnSpan
<1>5. /\ queue \in Seq(Spans) /\ IsInjective(queue) /\ Len(queue) \in Nat
      /\ s \notin ToSet(queue) \cup ToSet(batch) \cup exportedOk \cup exportFailed
    BY <1>2 DEF SpansInv, SpansOwned, SpansTyped, Taken
<1>6. /\ queue' \in Seq(Spans) /\ IsInjective(queue') /\ Len(queue') <= MaxQueue
      /\ \/ queue' = queue /\ exportFailed' = exportFailed \cup {s} /\ residual' = residual
         \/ /\ ToSet(queue') = ToSet(queue) \cup {s} /\ exportFailed' = exportFailed
            /\ residual \subseteq residual' /\ (worker = "none" => s \in residual')
  <2>1. CASE Len(queue) >= MaxQueue
      BY SpanAssumption, <1>1, <1>5, <2>1 DEF OnSpan, SpansInv, HostHearsEverySpan, SpanTypeOK
  <2>2. CASE ~ (Len(queue) >= MaxQueue)
    <3>1. queue' = Append(queue, s)
        BY <1>1, <2>2 DEF OnSpan
    <3>2. /\ queue' \in Seq(Spans) /\ Len(queue') = Len(queue) + 1 /\ IsInjective(queue')
          /\ ToSet(queue') = ToSet(queue) \cup {s}
        BY <1>2, <1>5, <3>1, AppendIs
    <3>3. Len(queue') <= MaxQueue
        BY SpanAssumption, <1>5, <2>2, <3>2
    <3> QED
        BY <1>1, <2>2, <3>2, <3>3 DEF OnSpan
  <2> QED
      BY <2>1, <2>2
<1>7. SpansTyped'
    BY <1>3, <1>4, <1>6 DEF SpansInv, SpansTyped, ControlStays
<1>8. Taken' = Taken \cup {s}
    BY <1>4, <1>6 DEF Taken
<1>9. SpansOwned'
  <2>2. Taken' \subseteq 1 .. spanCount'
      BY <1>2, <1>4, <1>8 DEF SpansInv, SpansOwned
  <2>3. ToSet(queue') \cap ToSet(batch') = {}
      BY <1>4, <1>5, <1>6 DEF SpansInv, SpansOwned
  <2>4. ASSUME NEW u \in Threads, Doing(u, "exporter")'
        PROVE  /\ scope'[u].span \in (1 .. spanCount') \ Taken'
               /\ \A o \in Threads \ {u} : Doing(o, "exporter")' => scope'[o].span # scope'[u].span
    <3>1. u # t
        BY <1>3, <2>4
    <3> QED
        BY <1>2, <1>3, <1>4, <1>8, <2>4, <3>1 DEF SpansInv, SpansOwned
  <2> QED
      BY <1>6, <2>2, <2>3, <2>4 DEF SpansOwned
<1>10. WorkerFits'
    BY <1>4 DEF WorkerFits, ControlStays, SpansInv, Attempts
<1>11. HostHearsEverySpan'
  <2>1. InFlight' = InFlight
    <3>1. \A u \in Threads : scope'[u].span = scope[u].span
        BY <1>1, <1>3
    <3> QED
        BY <3>1 DEF InFlight
  <2>2. SpanTypeOK'
      BY <1>2, <1>4, <1>6 DEF SpanTypeOK, SpansInv, HostHearsEverySpan
  <2>3. /\ (exportedOk \cap exportFailed = {})'
        /\ ((exportedOk \cup exportFailed) \cap (ToSet(queue) \cup ToSet(batch)) = {})'
      BY <1>4, <1>5, <1>6 DEF SpansInv, HostHearsEverySpan
  <2>4. (worker = "none" => batch = << >> /\ ToSet(queue) \subseteq residual)'
    <3> SUFFICES ASSUME worker = "none" PROVE batch = << >> /\ ToSet(queue') \subseteq residual'
        BY <1>4
    <3>1. batch = << >> /\ ToSet(queue) \subseteq residual
        BY DEF SpansInv, HostHearsEverySpan
    <3>2. \/ queue' = queue /\ residual' = residual
          \/ ToSet(queue') = ToSet(queue) \cup {s} /\ residual \subseteq residual' /\ s \in residual'
        BY <1>6
    <3>3. ToSet(queue') \subseteq residual'
        BY <3>1, <3>2
    <3> QED
        BY <3>1, <3>3
  <2> QED
      BY <1>4, <2>1, <2>2, <2>3, <2>4 DEF SpansInv, HostHearsEverySpan
<1> QED
    BY <1>7, <1>9, <1>10, <1>11 DEF SpansInv

\* The control thread.
LEMMA ControlStep ==
    ASSUME SpansInv,
           TakeSlot \/ StartWorker \/ RestoreSlot \/ AskWorkerToStop \/ Joined
    PROVE  SpansInv'
<1>1. ThreadsStay /\ UNCHANGED <<queue, batch, attempt, draining, exportedOk, exportFailed>>
    BY DEF TakeSlot, StartWorker, RestoreSlot, AskWorkerToStop, Joined, QueueStays
<1>2. \/ worker' = worker /\ residual' = residual /\ (install' \in {"out", "taken"} => worker = "none")
      \/ worker' = "waiting" /\ worker = "none" /\ install' = "in"
    BY DEF TakeSlot, StartWorker, RestoreSlot, AskWorkerToStop, Joined, QueueStays, SpansInv, WorkerFits
<1>3. SpansTyped'
    BY <1>1 DEF SpansInv, SpansTyped, ThreadsStay, TakeSlot, StartWorker, RestoreSlot,
                AskWorkerToStop, Joined
<1>4. SpansOwned'
    BY <1>1 DEF SpansInv, SpansOwned, ThreadsStay, Taken, Doing
<1>5. WorkerFits'
    BY <1>1, <1>2 DEF SpansInv, WorkerFits, Attempts
<1>6. HostHearsEverySpan'
    BY <1>1, <1>2 DEF SpansInv, HostHearsEverySpan, SpanTypeOK, InFlight, ThreadsStay
<1> QED
    BY <1>3, <1>4, <1>5, <1>6 DEF SpansInv

\* The worker only moves spans from the queue to its batch and to the counters.
LEMMA WorkersStep ==
    ASSUME SpansInv, WorkerStep
    PROVE  SpansInv'
<1>1. ControlStays /\ ThreadsStay /\ residual' = residual
    BY DEF WorkerStep, TakeBatch, SendBatch, WorkerLeaves, QueueStays
<1>2. ASSUME queue' \in Seq(Spans), batch' \in Seq(Spans), Taken' \subseteq Taken,
             IsInjective(queue'), ToSet(queue') \cap ToSet(batch') = {}
      PROVE  SpansTyped' /\ SpansOwned'
    BY <1>1, <1>2 DEF SpansInv, SpansTyped, SpansOwned, ControlStays, ThreadsStay, Doing
<1>3. /\ queue \in Seq(Spans) /\ batch \in Seq(Spans) /\ IsInjective(queue)
      /\ ToSet(queue) \cap ToSet(batch) = {} /\ SpanTypeOK
      /\ Len(queue) \in Nat /\ DOMAIN queue = 1 .. Len(queue)
    BY DEF SpansInv, SpansTyped, SpansOwned, HostHearsEverySpan
<1>4. CASE TakeBatch
  <2>1. PICK n : n = IF Len(queue) < BatchSize THEN Len(queue) ELSE BatchSize
      OBVIOUS
  <2>2. n \in 0 .. Len(queue) /\ n <= BatchSize
      BY SpanAssumption, <1>3, <2>1
  <2>3. /\ batch = << >> /\ batch' = SubSeq(queue, 1, n) /\ queue' = SubSeq(queue, n + 1, Len(queue))
        /\ attempt' = 0 /\ worker' = "sending" /\ worker = "waiting"
        /\ exportedOk' = exportedOk /\ exportFailed' = exportFailed
      BY <1>4, <2>1 DEF TakeBatch, SpansInv, WorkerFits
  <2>4. /\ queue' \in Seq(Spans) /\ batch' \in Seq(Spans) /\ IsInjective(queue')
        /\ ToSet(batch') \cup ToSet(queue') = ToSet(queue) /\ ToSet(queue') \cap ToSet(batch') = {}
        /\ Len(batch') = n /\ Len(queue') = Len(queue) - n
    <3>1. /\ SubSeq(queue, 1, n) \in Seq(Spans) /\ SubSeq(queue, n + 1, Len(queue)) \in Seq(Spans)
          /\ IsInjective(SubSeq(queue, n + 1, Len(queue)))
          /\ ToSet(SubSeq(queue, 1, n)) \cup ToSet(SubSeq(queue, n + 1, Len(queue))) = ToSet(queue)
          /\ ToSet(SubSeq(queue, 1, n)) \cap ToSet(SubSeq(queue, n + 1, Len(queue))) = {}
          /\ Len(SubSeq(queue, 1, n)) = n /\ Len(SubSeq(queue, n + 1, Len(queue))) = Len(queue) - n
      <4>1. queue \in Seq(Spans) /\ IsInjective(queue) /\ n \in 0 .. Len(queue)
          BY <1>3, <2>2
      <4> QED
          BY <4>1, CutIs
    <3> QED
        BY <2>3, <3>1
  <2>5. Taken' \subseteq Taken
      BY <2>3, <2>4 DEF Taken
  <2>6. WorkerFits'
      BY SpanAssumption, <1>1, <2>3 DEF WorkerFits, Attempts, SpansInv, ControlStays
  <2>7. SpanTypeOK'
    <3>1. Len(queue') <= MaxQueue
        BY SpanAssumption, <1>3, <2>2, <2>4 DEF SpanTypeOK
    <3>2. attempt' \in 0 .. MaxAttempts
        BY SpanAssumption, <2>3
    <3> QED
        BY <1>3, <2>2, <2>3, <2>4, <3>1, <3>2 DEF SpanTypeOK
  <2>8. HostHearsEverySpan'
      BY <1>1, <2>3, <2>4, <2>7 DEF HostHearsEverySpan, SpansInv, InFlight, ThreadsStay
  <2> QED
      BY <1>2, <2>4, <2>5, <2>6, <2>8 DEF SpansInv
<1>5. ASSUME NEW ok \in BOOLEAN, SendBatch(ok) PROVE SpansInv'
  <2>1. /\ worker = "sending" /\ queue' = queue /\ attempt' = attempt + 1 /\ draining' = draining
        /\ attempt \in Nat /\ attempt < Attempts /\ Attempts' = Attempts /\ Attempts <= MaxAttempts
        /\ Attempts \in Nat
      BY SpanAssumption, <1>5, <1>3 DEF SendBatch, SpansInv, WorkerFits, Attempts, SpanTypeOK
  <2>2. \/ /\ worker' = "waiting" /\ batch' = << >>
           /\ exportedOk' = exportedOk \cup (IF ok THEN ToSet(batch) ELSE {})
           /\ exportFailed' = exportFailed \cup (IF ok THEN {} ELSE ToSet(batch))
        \/ /\ UNCHANGED <<worker, batch, exportedOk, exportFailed>> /\ attempt' # Attempts
      BY <1>5 DEF SendBatch, Attempts
  <2>3. /\ batch' \in Seq(Spans) /\ ToSet(batch') \subseteq ToSet(batch) /\ Len(batch') <= BatchSize
    <3>1. << >> \in Seq(Spans) /\ Len(<< >>) = 0 /\ 0 <= BatchSize /\ Len(batch) <= BatchSize
        BY SpanAssumption, <1>3 DEF SpanTypeOK
    <3> QED
        BY <1>3, <2>2, <3>1, NoneInList
  <2>4. Taken' \subseteq Taken
      BY <2>1, <2>2, <2>3 DEF Taken
  <2>5. SpanTypeOK'
    <3>1. attempt' \in 0 .. MaxAttempts
        BY SpanAssumption, <2>1
    <3>2. exportedOk' \cup exportFailed' \subseteq Spans
        BY <1>3, <2>2 DEF SpanTypeOK
    <3>3. worker' \in {"none", "waiting", "sending"} /\ ToSet(queue') \cup ToSet(batch') \subseteq Spans
        BY <1>3, <2>1, <2>2, <2>3 DEF SpanTypeOK
    <3> QED
        BY <1>3, <2>1, <2>3, <3>1, <3>2, <3>3 DEF SpanTypeOK
  <2>6. /\ (exportedOk \cap exportFailed = {})'
        /\ ((exportedOk \cup exportFailed) \cap (ToSet(queue) \cup ToSet(batch)) = {})'
    <3>1. /\ exportedOk \cap exportFailed = {} /\ ToSet(queue) \cap ToSet(batch) = {}
          /\ (exportedOk \cup exportFailed) \cap (ToSet(queue) \cup ToSet(batch)) = {}
        BY <1>3 DEF SpansInv, HostHearsEverySpan
    <3>2. CASE worker' = "waiting"
      <4>1. batch' = << >> /\ ToSet(batch') = {}
          BY <2>1, <2>2, <3>2, NoneInList
      <4> QED
          BY <2>1, <2>2, <3>1, <3>2, <4>1
    <3>3. CASE worker' # "waiting"
        BY <2>1, <2>2, <3>1, <3>3
    <3> QED
        BY <3>2, <3>3
  <2>7. HostHearsEverySpan'
      BY <1>1, <2>1, <2>2, <2>5, <2>6 DEF HostHearsEverySpan, SpansInv, InFlight, ThreadsStay
  <2>8. WorkerFits'
      BY <1>1, <2>1, <2>2 DEF WorkerFits, SpansInv, ControlStays
  <2> QED
      BY <1>2, <1>3, <2>1, <2>3, <2>4, <2>7, <2>8 DEF SpansInv
<1>6. CASE WorkerLeaves
  <2>1. /\ QueueStays /\ worker = "waiting" /\ worker' = "none" /\ queue = << >> /\ batch = << >>
      BY <1>6 DEF WorkerLeaves, SpansInv, WorkerFits
  <2>2. SpansTyped' /\ SpansOwned'
      BY <1>2, <1>3, <2>1 DEF QueueStays, Taken
  <2>3. WorkerFits'
      BY <2>1 DEF WorkerFits, QueueStays
  <2>4. HostHearsEverySpan'
      BY <1>1, <1>3, <2>1, NoneInList
      DEF HostHearsEverySpan, SpansInv, InFlight, ThreadsStay, QueueStays, SpanTypeOK
  <2> QED
      BY <2>2, <2>3, <2>4 DEF SpansInv
<1> QED
    BY <1>4, <1>5, <1>6 DEF WorkerStep

LEMMA SpansStep ==
    ASSUME SpansInv, SpanNext
    PROVE  SpansInv'
<1>1. CASE SpanAction
    BY <1>1, ThreadStep, OnSpanStep, ControlStep, WorkersStep DEF SpanAction
<1>2. CASE LoseChain
  <2>1. SpansTyped' /\ WorkerFits'
      BY <1>2 DEF LoseChain, QueueStays, ControlStays, ThreadsStay, SpansInv, SpansTyped, WorkerFits, Attempts
  <2>2. SpansOwned'
      BY <1>2 DEF LoseChain, QueueStays, ThreadsStay, SpansInv, SpansOwned, Taken, Doing
  <2>3. HostHearsEverySpan'
      BY <1>2 DEF LoseChain, QueueStays, ThreadsStay, SpansInv, HostHearsEverySpan, SpanTypeOK, InFlight
  <2> QED
      BY <2>1, <2>2, <2>3 DEF SpansInv
<1> QED
    BY <1>1, <1>2 DEF SpanNext

-----------------------------------------------------------------------------
(* RateLimit *)

Rows == [tokens : Nat, lastTouch : 0 .. MaxClock]
CallChains ==
    [at : {"idle", "locking", "locked", "timed", "read", "renewed", "leaving"},
     cost : Costs \cup {0}, token : Nat, now : Nat, read : Rows]

Grants == [cost : Nat, now : Nat, spent : Nat, gained : Nat]

RateTyped ==
    /\ bucket \in Rows /\ lock \in [token : Nat, expiresAt : Nat]
    /\ lockTokenSeq \in Nat /\ redisNow \in Nat /\ clock \in 1 .. MaxClock
    /\ call \in [Callers -> CallChains]
    /\ granted \in Seq(Grants) /\ gained \in Nat /\ (Full < Precision => gained = 0)
    /\ lock.token <= lockTokenSeq /\ bucket.lastTouch <= clock

Holding(c) == call[c].at \in {"locked", "timed", "read", "renewed", "leaving"}

\* No two callers hold the same token, and an old one is not given out again.
TokensAreUnique ==
    /\ \A c \in Callers : Holding(c) => call[c].token \in 1 .. lockTokenSeq
    /\ \A c, d \in Callers :
          Holding(c) /\ Holding(d) /\ call[c].token = call[d].token => c = d

\* A caller whose token is still in the lock's row knows the bucket as it is, unless
\* it was reset, and read its clock after whoever wrote the bucket last.
OwnersAreCurrent ==
    \A c \in Callers :
      /\ call[c].now <= clock
      /\ call[c].at \in {"timed", "read", "renewed"} => call[c].now >= 1
      /\ call[c].at \in {"timed", "read", "renewed"} /\ lock.token = call[c].token =>
            bucket.lastTouch <= call[c].now
      /\ call[c].at \in {"read", "renewed"} /\ lock.token = call[c].token =>
            /\ call[c].read.lastTouch <= call[c].now
            /\ granted # << >> => call[c].read = bucket

\* What is in the bucket and what was spent since a call was granted are, together,
\* no more than a full bucket, what was refilled and what was gained since.
BookFits ==
    granted # << >> =>
        /\ bucket # NoBucket
        /\ \A i \in DOMAIN granted :
              bucket.tokens + SpentBetween(i, Len(granted))
                  <= Full + (bucket.lastTouch - granted[i].now) + (gained - granted[i].gained)

RateInv == RateIsKept /\ RateTyped /\ TokensAreUnique /\ OwnersAreCurrent /\ BookFits

LEMMA RateBounds == Full \in Nat /\ \A c \in Callers, k \in Nat : k * Token \in Nat
<1>1. \A j, k \in Nat : j * k \in Nat
    OBVIOUS
<1>2. Capacity \in Nat /\ Token \in Nat
    BY RateAssumption
<1> QED
    BY <1>1, <1>2 DEF Full

LEMMA RateConstants ==
    /\ LockTtl \in Nat /\ Millisecond \in Nat /\ MaxClock \in Nat
    /\ Precision \in Nat /\ Precision * 1 = Precision
    /\ 1 \in Places /\ \A p \in Places : p \in Nat /\ 1 <= p
<1>1. \A k \in Nat : k * 1 = k
    OBVIOUS
<1>2. LockTtl \in Nat /\ Millisecond \in Nat /\ MaxClock \in Nat /\ Precision \in Nat
    BY RateAssumption
<1>3. 1 \in Places /\ \A p \in Places : p \in Nat /\ 1 <= p
    BY RateAssumption
<1> QED
    BY <1>1, <1>2, <1>3

LEMMA RateStart == RateInit => RateInv
<1> SUFFICES ASSUME RateInit PROVE RateInv
    OBVIOUS
<1>1. NoBucket \in Rows /\ NoBucket.lastTouch = 0 /\ NoBucket.tokens = 0
  <2>1. 0 \in Nat /\ 0 \in 0 .. MaxClock
      BY RateBounds, RateAssumption
  <2> QED
      BY <2>1 DEF NoBucket, Rows
<1>2. NoCall \in CallChains /\ NoCall.at = "idle" /\ NoCall.now = 0 /\ NoCall.cost = 0
    BY <1>1 DEF NoCall, CallChains
<1>3. NoLock \in [token : Nat, expiresAt : Nat] /\ NoLock.token = 0
    BY DEF NoLock
<1>4. granted \in Seq(Grants) /\ granted = << >>
    BY DEF RateInit
<1>5. RateTyped
    BY <1>1, <1>2, <1>3, <1>4, RateAssumption DEF RateInit, RateTyped
<1>6. TokensAreUnique /\ OwnersAreCurrent /\ BookFits
    BY <1>2, <1>4 DEF RateInit, TokensAreUnique, OwnersAreCurrent, BookFits, Holding
<1>7. RateIsKept
  <2>1. RateTypeOK
      BY <1>5 DEF RateTyped, RateTypeOK, Rows, CallChains
  <2> QED
      BY <1>4, <2>1 DEF RateIsKept, RateInit
<1> QED
    BY <1>5, <1>6, <1>7 DEF RateInv

\* A step of a call that leaves the bucket as it is: c goes on as r.
CarriesOn(c, r) ==
    /\ r \in CallChains /\ call' = [call EXCEPT ![c] = r]
    /\ UNCHANGED <<bucket, granted, gained, redisNow, clock>>
    /\ lock' \in [token : Nat, expiresAt : Nat] /\ lockTokenSeq' \in Nat
    /\ lockTokenSeq <= lockTokenSeq' /\ lock'.token <= lockTokenSeq'
    /\ \A d \in Callers \ {c} : Holding(d) =>
          /\ lock'.token = call[d].token => lock.token = call[d].token
          /\ call[d].token # r.token
    /\ r.at \in {"locked", "timed", "read", "renewed", "leaving"} => r.token \in 1 .. lockTokenSeq'
    /\ r.now <= clock
    /\ r.at \in {"timed", "read", "renewed"} =>
          r.now >= 1 /\ (lock'.token = r.token => bucket.lastTouch <= r.now)
    /\ r.at \in {"read", "renewed"} /\ lock'.token = r.token =>
          r.read.lastTouch <= r.now /\ (granted # << >> => r.read = bucket)

LEMMA CallGoesOn ==
    ASSUME RateInv, NEW c \in Callers, NEW r, CarriesOn(c, r)
    PROVE  RateInv'
<1>1. RateTyped /\ RateIsKept /\ TokensAreUnique /\ OwnersAreCurrent /\ BookFits
    BY DEF RateInv
<1> USE DEF CarriesOn
<1>2. /\ call'[c] = r /\ \A d \in Callers \ {c} : call'[d] = call[d]
      /\ call' \in [Callers -> CallChains]
    BY <1>1 DEF RateTyped
<1>3. RateTyped'
    BY <1>1, <1>2 DEF RateTyped
<1>4. TokensAreUnique'
  <2>1. \A d \in Callers : Holding(d)' => call'[d].token \in 1 .. lockTokenSeq'
      BY <1>1, <1>2 DEF TokensAreUnique, Holding, RateTyped
  <2>2. ASSUME NEW d \in Callers, NEW e \in Callers, Holding(d)', Holding(e)',
               call'[d].token = call'[e].token
        PROVE  d = e
    <3>1. \A f \in Callers \ {c} : Holding(f)' => Holding(f)
        BY <1>2 DEF Holding
    <3>2. CASE d # c /\ e # c
        BY <1>1, <1>2, <2>2, <3>1, <3>2 DEF TokensAreUnique
    <3> QED
        BY <1>2, <2>2, <3>1, <3>2
  <2> QED
      BY <2>1, <2>2 DEF TokensAreUnique
<1>5. OwnersAreCurrent'
  <2> SUFFICES ASSUME NEW d \in Callers
               PROVE  /\ call'[d].now <= clock
                      /\ call'[d].at \in {"timed", "read", "renewed"} => call'[d].now >= 1
                      /\ call'[d].at \in {"timed", "read", "renewed"} /\ lock'.token = call'[d].token =>
                            bucket.lastTouch <= call'[d].now
                      /\ call'[d].at \in {"read", "renewed"} /\ lock'.token = call'[d].token =>
                            /\ call'[d].read.lastTouch <= call'[d].now
                            /\ granted # << >> => call'[d].read = bucket
      BY DEF OwnersAreCurrent
  <2>1. CASE d = c
      BY <1>2, <2>1
  <2>2. CASE d # c
    <3>1. call'[d] = call[d]
        BY <1>2, <2>2
    <3>2. call[d].at \in {"timed", "read", "renewed"} /\ lock'.token = call[d].token
          => lock.token = call[d].token
        BY <2>2 DEF Holding
    <3> QED
        BY <1>1, <3>1, <3>2 DEF OwnersAreCurrent
  <2> QED
      BY <2>1, <2>2
<1>6. BookFits'
    BY <1>1 DEF BookFits, SpentBetween
<1>7. RateIsKept'
  <2>1. RateTypeOK'
      BY <1>3 DEF RateTyped, RateTypeOK, Rows, CallChains
  <2> QED
      BY <1>1, <2>1 DEF RateIsKept, SpentBetween
<1> QED
    BY <1>3, <1>4, <1>5, <1>6, <1>7 DEF RateInv

\* Each of the steps of a call but the write.
LEMMA ChainStep ==
    ASSUME RateInv, NEW c \in Callers,
           \/ \E cost \in Costs : Ask(c, cost)
           \/ Lock(c) \/ GiveUp(c) \/ ReadClock(c) \/ GetBucket(c) \/ RenewLock(c) \/ Unlock(c)
    PROVE  RateInv'
<1>1. RateTyped /\ TokensAreUnique /\ OwnersAreCurrent /\ call[c] \in CallChains
    BY DEF RateInv, RateTyped
<1>2. /\ lock \in [token : Nat, expiresAt : Nat] /\ lock.token \in Nat /\ lockTokenSeq \in Nat
      /\ lock.token <= lockTokenSeq /\ redisNow \in Nat /\ clock \in Nat /\ clock >= 1
      /\ bucket \in Rows /\ bucket.lastTouch <= clock /\ bucket.lastTouch \in Nat
    BY <1>1 DEF RateTyped, Rows
<1>3. \A d \in Callers \ {c} : Holding(d) => call[d].token \in 1 .. lockTokenSeq
    BY <1>1 DEF TokensAreUnique
<1>4. Holding(c) => \A d \in Callers \ {c} : Holding(d) => call[d].token # call[c].token
    BY <1>1 DEF TokensAreUnique
<1>5. NoCall \in CallChains /\ NoCall.at = "idle" /\ NoCall.token = 0 /\ NoCall.now = 0
  <2>1. 0 \in Nat /\ 0 \in 0 .. MaxClock
      BY RateBounds, RateAssumption
  <2>2. NoBucket \in Rows
      BY <2>1 DEF NoBucket, Rows
  <2> QED
      BY <2>2 DEF NoCall, CallChains
<1>6. \A d \in Callers \ {c} : Holding(d) => call[d].token # 0
    BY <1>3
<1>7. ASSUME NEW cost \in Costs, Ask(c, cost) PROVE RateInv'
  <2>1. PICK r : r = [NoCall EXCEPT !.at = "locking", !.cost = cost]
      OBVIOUS
  <2>2. r \in CallChains /\ r.at = "locking" /\ r.token = 0 /\ r.now = 0
      BY <1>5, <2>1 DEF CallChains
  <2>3. /\ call' = [call EXCEPT ![c] = r]
        /\ UNCHANGED <<bucket, granted, gained, redisNow, clock, lock, lockTokenSeq>>
      BY <1>7, <2>1 DEF Ask, RedisStays, ClocksStay
  <2>9. CarriesOn(c, r)
      BY <1>2, <1>6, <2>2, <2>3 DEF CarriesOn
  <2> QED
      BY <2>9, CallGoesOn
<1>8. CASE Lock(c)
  <2>1. PICK n : n = lockTokenSeq + 1
      OBVIOUS
  <2>2. PICK r : r = [call[c] EXCEPT !.at = "locked", !.token = n]
      OBVIOUS
  <2>3. n \in Nat /\ r \in CallChains /\ r.at = "locked" /\ r.token = n /\ r.now = call[c].now
    <3>1. n \in Nat
        BY <1>2, <2>1
    <3>2. r \in CallChains
        BY <1>1, <2>2, <3>1 DEF CallChains
    <3> QED
        BY <1>1, <2>2, <3>1, <3>2 DEF CallChains
  <2>4. /\ call' = [call EXCEPT ![c] = r] /\ UNCHANGED <<bucket, granted, gained, redisNow, clock>>
        /\ lockTokenSeq' = n /\ lock' = [token |-> n, expiresAt |-> redisNow + LockTtl]
      BY <1>8, <2>1, <2>2 DEF Lock, ClocksStay
  <2>5. lock' \in [token : Nat, expiresAt : Nat] /\ lock'.token = n
      BY <1>2, <2>3, <2>4, RateAssumption
  <2>6. \A d \in Callers \ {c} : Holding(d) => call[d].token # n
      BY <1>2, <1>3, <2>1
  <2>7. r.now <= clock
      BY <1>1, <2>3 DEF OwnersAreCurrent
  <2>9. CarriesOn(c, r)
      BY <1>2, <2>1, <2>3, <2>4, <2>5, <2>6, <2>7 DEF CarriesOn
  <2> QED
      BY <2>9, CallGoesOn
<1>9. CASE GiveUp(c) \/ Unlock(c)
  <2>1. /\ call' = [call EXCEPT ![c] = NoCall] /\ UNCHANGED <<bucket, granted, gained, redisNow, clock>>
        /\ lockTokenSeq' = lockTokenSeq /\ lock' \in {lock, NoLock}
      BY <1>9 DEF GiveUp, Unlock, RedisStays, ClocksStay
  <2>2. /\ lock' \in [token : Nat, expiresAt : Nat] /\ lock'.token <= lockTokenSeq
        /\ lock'.token \in {lock.token, 0}
      BY <1>2, <2>1 DEF NoLock
  <2>9. CarriesOn(c, NoCall)
      BY <1>2, <1>5, <1>6, <2>1, <2>2 DEF CarriesOn
  <2> QED
      BY <2>9, CallGoesOn
<1>10. CASE ReadClock(c)
  <2>1. PICK r : r = [call[c] EXCEPT !.at = "timed", !.now = clock]
      OBVIOUS
  <2>2. /\ r \in CallChains /\ r.at = "timed" /\ r.token = call[c].token /\ r.now = clock
        /\ Holding(c)
      BY <1>1, <1>2, <1>10, <2>1 DEF CallChains, ReadClock, InCall, Holding
  <2>3. /\ call' = [call EXCEPT ![c] = r]
        /\ UNCHANGED <<bucket, granted, gained, redisNow, clock, lock, lockTokenSeq>>
      BY <1>10, <2>1 DEF ReadClock, RedisStays, ClocksStay
  <2>4. r.token \in 1 .. lockTokenSeq
      BY <1>1, <2>2 DEF TokensAreUnique
  <2>9. CarriesOn(c, r)
      BY <1>2, <1>4, <2>2, <2>3, <2>4 DEF CarriesOn
  <2> QED
      BY <2>9, CallGoesOn
<1>11. CASE GetBucket(c)
  <2>1. PICK r : r = [call[c] EXCEPT !.at = "read", !.read = bucket]
      OBVIOUS
  <2>2. /\ r \in CallChains /\ r.at = "read" /\ r.token = call[c].token /\ r.now = call[c].now
        /\ r.read = bucket /\ call[c].at = "timed" /\ Holding(c)
      BY <1>1, <1>2, <1>11, <2>1 DEF CallChains, GetBucket, InCall, Holding
  <2>3. /\ call' = [call EXCEPT ![c] = r]
        /\ UNCHANGED <<bucket, granted, gained, redisNow, clock, lock, lockTokenSeq>>
      BY <1>11, <2>1 DEF GetBucket, RedisStays, ClocksStay
  <2>4. /\ r.token \in 1 .. lockTokenSeq /\ r.now <= clock /\ r.now >= 1
        /\ lock.token = r.token => bucket.lastTouch <= r.now
      BY <1>1, <2>2 DEF TokensAreUnique, OwnersAreCurrent
  <2>9. CarriesOn(c, r)
      BY <1>2, <1>4, <2>2, <2>3, <2>4 DEF CarriesOn
  <2> QED
      BY <2>9, CallGoesOn
<1>12. CASE RenewLock(c)
  <2>1. PICK r : /\ r \in {[call[c] EXCEPT !.at = "renewed"], [call[c] EXCEPT !.at = "leaving"]}
                 /\ call' = [call EXCEPT ![c] = r]
      BY <1>12 DEF RenewLock, Goes
  <2>2. /\ r \in CallChains /\ r.at \in {"renewed", "leaving"} /\ r.token = call[c].token
        /\ r.now = call[c].now /\ r.read = call[c].read /\ call[c].at = "read" /\ Holding(c)
      BY <1>1, <1>12, <2>1 DEF CallChains, RenewLock, InCall, Holding
  <2>3. /\ UNCHANGED <<bucket, granted, gained, redisNow, clock, lockTokenSeq>>
        /\ lock' \in {lock, [lock EXCEPT !.expiresAt = redisNow + LockTtl]}
      BY <1>12 DEF RenewLock, ClocksStay
  <2>4. lock' \in [token : Nat, expiresAt : Nat] /\ lock'.token = lock.token
      BY <1>2, <2>3, RateAssumption
  <2>5. /\ r.token \in 1 .. lockTokenSeq /\ r.now <= clock /\ r.now >= 1
        /\ lock.token = r.token =>
              /\ bucket.lastTouch <= r.now /\ r.read.lastTouch <= r.now
              /\ granted # << >> => r.read = bucket
      BY <1>1, <2>2 DEF TokensAreUnique, OwnersAreCurrent
  <2>9. CarriesOn(c, r)
      BY <1>2, <1>4, <2>1, <2>2, <2>3, <2>4, <2>5 DEF CarriesOn
  <2> QED
      BY <2>9, CallGoesOn
<1> QED
    BY <1>7, <1>8, <1>9, <1>10, <1>11, <1>12

\* A bucket that has been refilled is not more than full, and has not gained more
\* than the time that passed.
LEMMA RefilledIs ==
    ASSUME NEW c \in Callers, call[c] \in CallChains
    PROVE  /\ Refilled(c) \in 0 .. Full
           /\ call[c].read # NoBucket /\ call[c].read.lastTouch <= call[c].now =>
                 Refilled(c) <= call[c].read.tokens + (call[c].now - call[c].read.lastTouch)
<1>1. /\ call[c].read.tokens \in Nat /\ call[c].read.lastTouch \in Nat /\ call[c].now \in Nat
      /\ Full \in Nat
    BY RateBounds DEF CallChains, Rows
<1>2. ASSUME NEW a \in Nat, NEW b \in Nat
      PROVE  Min({a, b}) \in Nat /\ Min({a, b}) <= a /\ Min({a, b}) <= b
  <2>1. \E x \in {a, b} : \A y \in {a, b} : x <= y
      OBVIOUS
  <2> QED
      BY <2>1 DEF Min
<1>3. PICK x : x = call[c].read.tokens + (IF call[c].now > call[c].read.lastTouch
                                          THEN call[c].now - call[c].read.lastTouch ELSE 0)
    OBVIOUS
<1>4. x \in Nat /\ (call[c].read.lastTouch <= call[c].now =>
                       x = call[c].read.tokens + (call[c].now - call[c].read.lastTouch))
    BY <1>1, <1>3
<1>5. Refilled(c) = IF call[c].read = NoBucket THEN Full ELSE Min({Full, x})
    BY <1>3 DEF Refilled
<1>6. Min({Full, x}) \in 0 .. Full /\ Min({Full, x}) <= x
    BY <1>1, <1>2, <1>4
<1> QED
    BY <1>1, <1>4, <1>5, <1>6

\* What a bucket gains adds to what it may have given.
LEMMA GainAdds ==
    ASSUME NEW t \in Int, NEW f \in Int, NEW x \in Int, NEW b \in Int,
           NEW g \in Int, NEW h \in Int, NEW i \in Int,
           t <= f + (h - g), f + x <= b + (g - i)
    PROVE  t + x <= b + (h - i)
OBVIOUS

\* The row holds a number; a number below Precision it holds as it is.
LEMMA EncodedIs ==
    ASSUME NEW n \in Nat, NEW t \in Encoded(n)
    PROVE  t \in Nat /\ (n < Precision => t = n)
<1>1. t \in 0 .. n + Place(n) /\ t % Place(n) = 0 /\ 2 * t <= 2 * n + Place(n)
      /\ 2 * n <= 2 * t + Place(n)
    BY DEF Encoded
<1>2. ASSUME n < Precision PROVE t = n
  <2>1. /\ n < Precision * 1 /\ 1 \in Places
        /\ \A q \in Places : n < Precision * q => 1 <= q
      BY <1>2, RateConstants
  <2>2. \A p \in Places : (\A q \in Places : n < Precision * q => p <= q) => p = 1
    <3>1. \A p \in Places : p <= 1 => p = 1
        BY RateConstants
    <3> QED
        BY <2>1, <3>1
  <2>4. Place(n) = 1
      BY <2>1, <2>2 DEF Place
  <2> QED
      BY <1>1, <2>4
<1> QED
    BY <1>1, <1>2

\* The owner of the lock writes the bucket: what it grants fits.
LEMMA WriteBackStep ==
    ASSUME RateInv, NEW c \in Callers, WriteBack(c)
    PROVE  RateInv'
<1>1. /\ RateTyped /\ RateIsKept /\ TokensAreUnique /\ OwnersAreCurrent /\ BookFits
      /\ call[c] \in CallChains /\ call[c].at = "renewed" /\ Holding(c)
    BY DEF RateInv, RateTyped, WriteBack, InCall, Holding
<1>2. PICK r : r = [call[c] EXCEPT !.at = "leaving"]
    OBVIOUS
<1>3. /\ r \in CallChains /\ r.at = "leaving" /\ r.token = call[c].token /\ r.now = call[c].now
      /\ call' = [call EXCEPT ![c] = r]
    BY <1>1, <1>2 DEF CallChains, WriteBack, Goes
<1>4. /\ lock \in [token : Nat, expiresAt : Nat] /\ lock.token \in Nat /\ lockTokenSeq \in Nat
      /\ lock.token <= lockTokenSeq /\ redisNow \in Nat /\ clock \in 1 .. MaxClock
      /\ lockTokenSeq' = lockTokenSeq /\ UNCHANGED <<redisNow, clock>>
    BY <1>1 DEF RateTyped, WriteBack, ClocksStay
<1>5. CASE ~MayWrite(c)
  <2>1. UNCHANGED <<bucket, lock, granted, gained>>
      BY <1>5 DEF WriteBack
  <2>2. CarriesOn(c, r)
      BY <1>1, <1>3, <1>4, <2>1 DEF CarriesOn, TokensAreUnique, OwnersAreCurrent
  <2> QED
      BY <2>2, CallGoesOn
<1>6. CASE MayWrite(c)
  <2>1. PICK price : price = Price(c)
      OBVIOUS
  <2>2. PICK full : full = Refilled(c)
      OBVIOUS
  <2>3. PICK g : g = Grant(c)
      OBVIOUS
  <2>4. PICK now : now = call[c].now
      OBVIOUS
  <2>20. PICK remains : remains = full - (IF full >= price THEN price ELSE 0)
      OBVIOUS
  <2>21. PICK t \in Encoded(remains) :
            /\ bucket' = [tokens |-> t, lastTouch |-> now]
            /\ gained' = gained + (IF t > remains THEN t - remains ELSE 0)
      BY <1>6, <2>1, <2>2, <2>4, <2>20 DEF WriteBack
  <2>5. /\ bucket' = [tokens |-> t, lastTouch |-> now]
        /\ lock' = [lock EXCEPT !.expiresAt = redisNow + LockTtl]
        /\ granted' = IF full >= price THEN Append(granted, g) ELSE granted
        /\ lock.token = call[c].token
      BY <1>6, <2>1, <2>2, <2>3, <2>4, <2>21 DEF WriteBack, MayWrite, Owns
  <2>6. /\ price \in Nat /\ full \in 0 .. Full /\ Full \in Nat
        /\ now \in Nat /\ now >= 1 /\ now <= clock /\ now <= MaxClock
    <3>1. call[c].cost \in Nat
      <4>1. call[c].cost \in Costs \cup {0}
          BY <1>1 DEF CallChains
      <4>2. \A k \in Costs : k \in Nat
          BY RateAssumption
      <4>3. CASE call[c].cost \in Costs
          BY <4>2, <4>3
      <4>4. CASE call[c].cost = 0
          BY <4>4
      <4> QED
          BY <4>1, <4>3, <4>4
    <3>2. price \in Nat
        BY <2>1, <3>1, RateBounds DEF Price
    <3>3. now \in Nat
        BY <1>1, <2>4 DEF CallChains
    <3>4. now <= clock /\ now >= 1
        BY <1>1, <2>4 DEF OwnersAreCurrent
    <3>5. full \in 0 .. Full /\ Full \in Nat
        BY <1>1, <2>2, RateBounds, RefilledIs
    <3>6. now <= MaxClock
        BY <1>4, <3>3, <3>4, RateAssumption
    <3> QED
        BY <3>2, <3>3, <3>4, <3>5, <3>6
  <2>22. /\ remains \in 0 .. Full /\ remains = full - (IF full >= price THEN price ELSE 0)
         /\ t \in Nat /\ gained \in Nat /\ gained' \in Nat /\ t <= remains + (gained' - gained)
         /\ Full < Precision => gained' = 0
    <3>1. remains \in 0 .. Full /\ gained \in Nat /\ (Full < Precision => gained = 0)
        BY <1>1, <2>6, <2>20 DEF RateTyped
    <3>2. t \in Nat /\ (remains < Precision => t = remains)
        BY <2>6, <2>21, <3>1, EncodedIs
    <3> QED
        BY <2>6, <2>20, <2>21, <3>1, <3>2, RateAssumption
  <2>7. bucket' \in Rows /\ bucket'.lastTouch = now /\ bucket'.tokens = t /\ bucket' # NoBucket
    <3>1. now \in 0 .. MaxClock
        BY <2>6, RateAssumption
    <3> QED
        BY <2>5, <2>6, <2>22, <3>1 DEF Rows, NoBucket
  <2>8. /\ call'[c] = r /\ \A d \in Callers \ {c} : call'[d] = call[d]
        /\ call' \in [Callers -> CallChains]
      BY <1>1, <1>3 DEF RateTyped
  <2>9. lock' \in [token : Nat, expiresAt : Nat] /\ lock'.token = lock.token
      BY <1>4, <2>5, RateConstants
  <2>10. TokensAreUnique'
      BY <1>1, <1>3, <1>4, <2>8 DEF TokensAreUnique, Holding
  <2>11. OwnersAreCurrent'
    <3> SUFFICES ASSUME NEW d \in Callers
                 PROVE  /\ call'[d].now <= clock
                        /\ call'[d].at \in {"timed", "read", "renewed"} => call'[d].now >= 1
                        /\ call'[d].at \in {"timed", "read", "renewed"} =>
                              lock'.token # call'[d].token
        BY <1>4 DEF OwnersAreCurrent
    <3>1. CASE d = c
        BY <1>3, <2>4, <2>6, <2>8, <3>1
    <3>2. CASE d # c
      <4>1. call'[d] = call[d]
          BY <2>8, <3>2
      <4>2. call[d].at \in {"timed", "read", "renewed"} => call[d].token # call[c].token
          BY <1>1, <3>2 DEF TokensAreUnique, Holding
      <4> QED
          BY <1>1, <2>5, <2>9, <4>1, <4>2 DEF OwnersAreCurrent
    <3> QED
        BY <3>1, <3>2
  <2>12. PICK n : n = Len(granted)
      OBVIOUS
  <2>13. /\ n \in Nat /\ granted \in Seq(Grants) /\ DOMAIN granted = 1 .. n
         /\ \A i \in 1 .. n : granted[i] \in Grants
      BY <1>1, <2>12 DEF RateTyped
  <2>14. \A i \in 1 .. n : /\ granted[i].cost \in Nat /\ granted[i].now \in Nat
                           /\ granted[i].spent \in Nat /\ granted[i].gained \in Nat
      BY <2>13 DEF Grants
  \* What was in the bucket before, if it is what the caller read.
  <2>15. ASSUME n # 0
         PROVE  /\ full <= bucket.tokens + (now - bucket.lastTouch)
                /\ bucket.tokens \in Nat /\ bucket.lastTouch \in Nat
                /\ \A i \in 1 .. n : bucket.tokens + (granted[n].spent - granted[i].spent + granted[i].cost)
                                        <= Full + (bucket.lastTouch - granted[i].now)
                                                + (gained - granted[i].gained)
    <3>1. granted # << >>
        BY <2>12, <2>13, <2>15
    <3>2. call[c].read = bucket /\ bucket # NoBucket /\ bucket.lastTouch <= now
        BY <1>1, <2>4, <2>5, <3>1 DEF OwnersAreCurrent, BookFits
    <3>3. full <= bucket.tokens + (now - bucket.lastTouch)
        BY <1>1, <2>2, <2>4, <3>2, RefilledIs
    <3>4. bucket.tokens \in Nat /\ bucket.lastTouch \in Nat
        BY <1>1, <2>6, RateAssumption DEF RateTyped, Rows
    <3>5. \A i \in 1 .. n : bucket.tokens + SpentBetween(i, n)
                               <= Full + (bucket.lastTouch - granted[i].now)
                                       + (gained - granted[i].gained)
        BY <1>1, <2>12, <2>13, <3>1 DEF BookFits
    <3> QED
        BY <3>3, <3>4, <3>5 DEF SpentBetween
  <2>16. CASE full >= price
    <3>1. granted' = Append(granted, g) /\ bucket'.tokens = t /\ t <= full - price + (gained' - gained)
        BY <2>5, <2>6, <2>7, <2>16, <2>22
    <3>2. PICK spent : spent = IF n = 0 THEN 0 ELSE granted[n].spent
        OBVIOUS
    <3>3. spent \in Nat /\ spent = Spent
      <4>1. CASE n = 0
        <5>1. granted = << >>
            BY <2>12, <2>13, <4>1
        <5> QED
            BY <3>2, <4>1, <5>1 DEF Spent
      <4>2. CASE n # 0
        <5>1. granted # << >> /\ n \in 1 .. n
            BY <2>12, <2>13, <4>2
        <5> QED
            BY <2>12, <2>14, <3>2, <4>2, <5>1 DEF Spent, Last
      <4> QED
          BY <4>1, <4>2
    <3>4. /\ g \in Grants /\ g.cost = price /\ g.now = now
          /\ g.spent = spent + price /\ g.gained = gained
        BY <2>1, <2>3, <2>4, <2>6, <2>22, <3>3 DEF Grant, Grants
    <3>5. PICK h : h = Append(granted, g)
        OBVIOUS
    <3>6. /\ h \in Seq(Grants) /\ Len(h) = n + 1 /\ h[n + 1] = g
          /\ \A i \in 1 .. n : h[i] = granted[i]
        BY <2>12, <2>13, <3>4, <3>5
    <3>7. ASSUME NEW i \in 1 .. n + 1
          PROVE  full - price + (h[n + 1].spent - h[i].spent + h[i].cost)
                    <= Full + (now - h[i].now) + (gained - h[i].gained)
      <4>1. CASE i = n + 1
          BY <2>6, <2>22, <3>3, <3>4, <3>6, <4>1
      <4>2. CASE i \in 1 .. n
        <5>1. n # 0 /\ spent = granted[n].spent /\ h[i] = granted[i]
          <6>1. n # 0
              BY <2>13, <4>2
          <6> QED
              BY <3>2, <3>6, <4>2, <6>1
        <5>2. bucket.tokens + (spent - granted[i].spent + granted[i].cost)
                 <= Full + (bucket.lastTouch - granted[i].now) + (gained - granted[i].gained)
            BY <2>15, <4>2, <5>1
        <5>3. /\ full <= bucket.tokens + (now - bucket.lastTouch)
              /\ bucket.tokens \in Nat /\ bucket.lastTouch \in Nat
            BY <2>15, <5>1
        <5>4. /\ granted[i].cost \in Nat /\ granted[i].now \in Nat /\ granted[i].spent \in Nat
              /\ granted[i].gained \in Nat /\ gained \in Nat
            BY <2>14, <2>22, <4>2
        <5>5. /\ h[n + 1].spent = spent + price /\ h[i].spent = granted[i].spent
              /\ h[i].cost = granted[i].cost /\ h[i].now = granted[i].now
              /\ h[i].gained = granted[i].gained
            BY <3>4, <3>6, <5>1
        <5>6. full - price + (spent + price - granted[i].spent + granted[i].cost)
                 <= Full + (now - granted[i].now) + (gained - granted[i].gained)
          <6> full \in Nat /\ price \in Nat /\ now \in Nat /\ spent \in Nat /\ Full \in Nat
              BY <2>6, <3>3
          <6> QED
              BY <5>2, <5>3, <5>4
        <5>7. /\ granted[i].spent \in Nat /\ granted[i].cost \in Nat /\ granted[i].now \in Nat
              /\ full \in Nat /\ price \in Nat /\ now \in Nat /\ spent \in Nat /\ Full \in Nat
              /\ granted[i].gained \in Nat /\ gained \in Nat
            BY <2>6, <3>3, <5>4
        <5> QED
            BY <5>5, <5>6, <5>7
      <4> QED
          BY <2>13, <4>1, <4>2
    <3>8. h # << >> /\ granted' = h /\ DOMAIN h = 1 .. n + 1
        BY <2>13, <3>1, <3>5, <3>6
    <3>13. ASSUME NEW i \in 1 .. n + 1
           PROVE  t + (h[n + 1].spent - h[i].spent + h[i].cost)
                     <= Full + (now - h[i].now) + (gained' - h[i].gained)
      <4>1. h[i] \in Grants /\ h[n + 1] \in Grants
          BY <2>13, <3>4, <3>6
      <4>2. /\ h[i].cost \in Nat /\ h[i].now \in Nat /\ h[i].spent \in Nat /\ h[i].gained \in Nat
            /\ h[n + 1].spent \in Nat
          BY <4>1 DEF Grants
      <4>3. full - price + (h[n + 1].spent - h[i].spent + h[i].cost)
               <= Full + (now - h[i].now) + (gained - h[i].gained)
          BY <3>7
      <4>4. full \in Nat /\ price \in Nat /\ now \in Nat /\ Full \in Nat
          BY <2>6
      <4>5. t <= full - price + (gained' - gained)
          BY <3>1
      <4>6. t \in Nat /\ gained \in Nat /\ gained' \in Nat
          BY <2>22
      <4>7. PICK x : x = h[n + 1].spent - h[i].spent + h[i].cost
          OBVIOUS
      <4>8. PICK f : f = full - price
          OBVIOUS
      <4>9. PICK b : b = Full + (now - h[i].now)
          OBVIOUS
      <4>10. x \in Int /\ f \in Int /\ b \in Int
          BY <4>2, <4>4, <4>7, <4>8, <4>9
      <4>11. t + x <= b + (gained' - h[i].gained)
          BY <4>2, <4>3, <4>5, <4>6, <4>7, <4>8, <4>9, <4>10, GainAdds
      <4> QED
          BY <4>7, <4>9, <4>11
    <3>9. BookFits'
        BY <2>7, <3>1, <3>6, <3>8, <3>13 DEF BookFits, SpentBetween, Full
    <3>10. RateTyped'
        BY <1>1, <1>4, <2>6, <2>7, <2>8, <2>9, <2>22, <3>6, <3>8 DEF RateTyped, Full
    <3>11. \A i, j \in 1 .. n + 1 :
              i <= j => h[j].spent - h[i].spent + h[i].cost
                           <= Full + (h[j].now - h[i].now) + (h[j].gained - h[i].gained)
      <4> SUFFICES ASSUME NEW i \in 1 .. n + 1, NEW j \in 1 .. n + 1, i <= j
                   PROVE  h[j].spent - h[i].spent + h[i].cost
                             <= Full + (h[j].now - h[i].now) + (h[j].gained - h[i].gained)
          OBVIOUS
      <4>1. CASE j = n + 1
        <5>1. full - price + (h[n + 1].spent - h[i].spent + h[i].cost)
                 <= Full + (now - h[i].now) + (gained - h[i].gained)
            BY <3>7
        <5>2. h[i].cost \in Nat /\ h[i].now \in Nat /\ h[i].spent \in Nat /\ h[i].gained \in Nat
          <6>1. h[i] \in Grants
              BY <2>13, <3>6
          <6> QED
              BY <6>1 DEF Grants
        <5>3. h[n + 1].spent \in Nat /\ h[n + 1].now = now /\ h[n + 1].gained = gained
          <6>1. h[n + 1] = g
              BY <3>6
          <6> QED
              BY <3>4, <6>1 DEF Grants
        <5>4. full \in Nat /\ price \in Nat /\ full >= price /\ Full \in Nat /\ now \in Nat
              /\ gained \in Nat
            BY <2>6, <2>16, <2>22
        <5> QED
            BY <4>1, <5>1, <5>2, <5>3, <5>4
      <4>2. CASE j \in 1 .. n
        <5>1. i \in 1 .. n /\ h[i] = granted[i] /\ h[j] = granted[j] /\ i \in DOMAIN granted
              /\ j \in DOMAIN granted
          <6>1. i \in 1 .. n
              BY <2>13, <4>2
          <6> QED
              BY <2>13, <3>6, <4>2, <6>1
        <5> QED
            BY <1>1, <5>1 DEF RateIsKept, SpentBetween
      <4> QED
          BY <2>13, <4>1, <4>2
    <3>12. RateIsKept'
      <4>1. RateTypeOK'
          BY <3>10 DEF RateTyped, RateTypeOK, Rows, CallChains
      <4> QED
          BY <2>22, <3>8, <3>11, <4>1 DEF RateIsKept, SpentBetween, Full
    <3> QED
        BY <2>10, <2>11, <3>9, <3>10, <3>12 DEF RateInv
  <2>17. CASE ~(full >= price)
    <3>1. granted' = granted /\ bucket'.tokens = t /\ t <= full + (gained' - gained)
        BY <2>5, <2>6, <2>7, <2>17, <2>22
    <3>2. RateTyped'
        BY <1>1, <1>4, <2>6, <2>7, <2>8, <2>9, <2>22, <3>1 DEF RateTyped, Full
    <3>3. ASSUME granted # << >>, NEW i \in DOMAIN granted
          PROVE  t + SpentBetween(i, Len(granted))
                    <= Full + (now - granted[i].now) + (gained' - granted[i].gained)
      <4>1. n # 0 /\ i \in 1 .. n /\ n \in 1 .. n
          BY <2>12, <2>13, <3>3
      <4>2. /\ granted[i].cost \in Nat /\ granted[i].now \in Nat /\ granted[i].spent \in Nat
            /\ granted[n].spent \in Nat /\ granted[i].gained \in Nat
          BY <2>14, <4>1
      <4>3. SpentBetween(i, Len(granted)) = granted[n].spent - granted[i].spent + granted[i].cost
          BY <2>12 DEF SpentBetween
      <4>4. /\ full <= bucket.tokens + (now - bucket.lastTouch)
            /\ bucket.tokens \in Nat /\ bucket.lastTouch \in Nat
            /\ bucket.tokens + (granted[n].spent - granted[i].spent + granted[i].cost)
                  <= Full + (bucket.lastTouch - granted[i].now) + (gained - granted[i].gained)
          BY <2>15, <4>1
      <4>5. full \in Nat /\ now \in Nat /\ Full \in Nat
          BY <2>6
      <4>6. t + (granted[n].spent - granted[i].spent + granted[i].cost)
               <= Full + (now - granted[i].now) + (gained' - granted[i].gained)
        <5>1. t <= full + (gained' - gained)
            BY <3>1
        <5>2. t \in Nat /\ gained \in Nat /\ gained' \in Nat
            BY <2>22
        <5>3. PICK x : x = granted[n].spent - granted[i].spent + granted[i].cost
            OBVIOUS
        <5>4. PICK b : b = Full + (now - granted[i].now)
            OBVIOUS
        <5>5. x \in Int /\ b \in Int
            BY <4>2, <4>5, <5>3, <5>4
        <5>6. full + x <= b + (gained - granted[i].gained)
            BY <4>2, <4>4, <4>5, <5>2, <5>3, <5>4, <5>5
        <5>8. PICK k : k = granted[i].gained
            OBVIOUS
        <5>9. /\ k \in Int /\ full \in Int /\ t \in Int /\ gained \in Int /\ gained' \in Int
              /\ full + x <= b + (gained - k)
            BY <4>2, <4>5, <5>2, <5>6, <5>8
        <5>10. t + x <= b + (gained' - k)
            BY <5>1, <5>5, <5>9, GainAdds
        <5>7. t + x <= b + (gained' - granted[i].gained)
            BY <5>8, <5>10
        <5> QED
            BY <5>3, <5>4, <5>7
      <4> QED
          BY <4>3, <4>6
    <3>4. BookFits'
        BY <2>7, <3>1, <3>3 DEF BookFits, SpentBetween, Full
    <3>5. RateIsKept'
      <4>1. RateTypeOK'
          BY <3>2 DEF RateTyped, RateTypeOK, Rows, CallChains
      <4> QED
          BY <1>1, <2>22, <3>1, <4>1 DEF RateIsKept, SpentBetween, Full
    <3> QED
        BY <2>10, <2>11, <3>2, <3>4, <3>5 DEF RateInv
  <2> QED
      BY <2>6, <2>16, <2>17
<1> QED
    BY <1>5, <1>6

\* The clocks go on, and somebody resets the key.
LEMMA OutsideStep ==
    ASSUME RateInv, Reset \/ TimeGoes \/ AdvanceClock
    PROVE  RateInv'
<1>1. /\ RateTyped /\ RateIsKept /\ TokensAreUnique /\ OwnersAreCurrent /\ BookFits
      /\ UNCHANGED <<lock, lockTokenSeq, call>>
    BY DEF RateInv, Reset, TimeGoes, AdvanceClock, RedisStays
<1>2. TokensAreUnique'
    BY <1>1 DEF TokensAreUnique, Holding
<1>3. CASE Reset
  <2>1. /\ bucket' = NoBucket /\ granted' = << >> /\ gained' = gained /\ clock' = clock /\ redisNow' = redisNow
        /\ clock \in 1 .. MaxClock
      BY <1>1, <1>3 DEF Reset, ClocksStay, RateTyped
  <2>2. NoBucket \in Rows /\ NoBucket.lastTouch = 0
    <3>1. 0 \in Nat /\ 0 \in 0 .. MaxClock
        BY RateBounds, RateAssumption
    <3> QED
        BY <3>1 DEF NoBucket, Rows
  <2>3. RateTyped'
    <3>1. << >> \in Seq(Grants) /\ 0 <= clock
        BY <2>1, RateAssumption
    <3> QED
        BY <1>1, <2>1, <2>2, <3>1 DEF RateTyped, Full
  <2>4. OwnersAreCurrent'
    <3>1. \A c \in Callers : call[c].now \in Nat
        BY <1>1 DEF RateTyped, CallChains
    <3> QED
        BY <1>1, <2>1, <2>2, <3>1 DEF OwnersAreCurrent
  <2>5. RateIsKept'
    <3>1. RateTypeOK'
        BY <2>3 DEF RateTyped, RateTypeOK, Rows, CallChains
    <3>2. DOMAIN << >> = {}
        OBVIOUS
    <3> QED
        BY <1>1, <2>1, <3>1, <3>2 DEF RateIsKept, Full
  <2> QED
      BY <1>2, <2>1, <2>3, <2>4, <2>5 DEF RateInv, BookFits
<1>4. CASE TimeGoes \/ AdvanceClock
  <2>1. /\ UNCHANGED <<bucket, granted, gained>> /\ clock \in 1 .. MaxClock /\ redisNow \in Nat
        /\ clock' \in 1 .. MaxClock /\ clock <= clock' /\ redisNow' \in Nat
      BY <1>1, <1>4, RateConstants DEF TimeGoes, AdvanceClock, RedisStays, RateTyped
  <2>2. RateTyped'
    <3>1. bucket.lastTouch <= clock'
        BY <1>1, <2>1, RateAssumption DEF RateTyped, Rows
    <3> QED
        BY <1>1, <2>1, <3>1 DEF RateTyped, Full
  <2>3. OwnersAreCurrent'
    <3>1. \A c \in Callers : call[c].now \in Nat /\ call[c].now <= clock'
      <4>1. \A c \in Callers : call[c].now \in Nat /\ call[c].now <= clock
          BY <1>1 DEF RateTyped, CallChains, OwnersAreCurrent
      <4> QED
          BY <2>1, <4>1
    <3> QED
        BY <1>1, <2>1, <3>1 DEF OwnersAreCurrent
  <2>4. BookFits'
      BY <1>1, <2>1 DEF BookFits, SpentBetween, Full
  <2>5. RateIsKept'
    <3>1. RateTypeOK'
        BY <2>2 DEF RateTyped, RateTypeOK, Rows, CallChains
    <3> QED
        BY <1>1, <2>1, <3>1 DEF RateIsKept, SpentBetween, Full
  <2> QED
      BY <1>2, <2>2, <2>3, <2>4, <2>5 DEF RateInv
<1> QED
    BY <1>3, <1>4

LEMMA RateStep == RateInv /\ [RateNext]_rateVars => RateInv'
<1> SUFFICES ASSUME RateInv, [RateNext]_rateVars PROVE RateInv'
    OBVIOUS
<1>1. CASE UNCHANGED rateVars
    BY <1>1 DEF rateVars, RateInv, RateTyped, RateIsKept, RateTypeOK, TokensAreUnique, OwnersAreCurrent,
       BookFits, Holding, SpentBetween
<1>2. CASE RateNext
    BY <1>2, ChainStep, WriteBackStep, OutsideStep DEF RateNext
<1> QED
    BY <1>1, <1>2

-----------------------------------------------------------------------------
(* Bots *)

LegsTo(ends) == [to : ends, open : BOOLEAN, inbox : Seq(Replies)]
Legs == LegsTo({"none", "login", "base"})

LEMMA NewLegs ==
    /\ NoLeg \in Legs /\ Opened("login") \in Legs /\ Opened("base") \in Legs
    /\ NoLeg.to = "none" /\ Opened("login").to = "login" /\ Opened("base").to = "base"
<1>1. << >> \in Seq(Replies)
    OBVIOUS
<1> QED
    BY <1>1 DEF NoLeg, Opened, Legs, LegsTo

\* A retry is scheduled exactly in Backoff, and no tick runs in a bot that never
\* began.
BotsInv ==
    /\ RetriesAreCounted
    /\ leg \in Legs
    /\ attempts \in Nat /\ reconnects \in Nat
    /\ retryScheduled <=> state = "Backoff"
    /\ state = "Idle" => rest = "none"

LEMMA BotsStart == BotInit => BotsInv
<1> SUFFICES ASSUME BotInit PROVE BotsInv
    OBVIOUS
<1>1. BotTypeOK
    BY NewLegs DEF BotInit, BotTypeOK
<1>2. leg \in Legs /\ attempts = 0 /\ reconnects = 0 /\ state = "Idle" /\ rest = "none"
      /\ retryScheduled = FALSE
    BY NewLegs DEF BotInit
<1>3. RetriesAreCounted
  <2>1. /\ state \in {"Idle", "Backoff"} /\ reconnects = attempts - 0
        /\ state \notin {"LoginSent", "SelectSent", "BaseConnecting", "EnterSent", "InGame"}
      BY <1>2
  <2> QED
      BY <1>1, <2>1 DEF RetriesAreCounted, WaitsAtLogin
<1>4. ~retryScheduled
    BY <1>2
<1> QED
    BY <1>2, <1>3, <1>4 DEF BotsInv

\* A retry counts the attempt that failed, unless it is counted already.
LEMMA RetryIsCounted ==
    ASSUME BotsInv, ScheduleRetry, state # "Idle", leg' \in Legs,
           rest' \in {rest, "none"}, attempts' = attempts
    PROVE  BotsInv'
BY DEF BotsInv, RetriesAreCounted, BotTypeOK, ScheduleRetry, Waits, WaitsAtLogin, Legs, LegsTo

\* A step in which the bot goes on as it is.
LEMMA BotGoesOn ==
    ASSUME BotsInv, StateStays, attempts' = attempts, rest' \in {rest, "none"},
           leg' \in LegsTo({leg.to})
    PROVE  BotsInv'
BY DEF BotsInv, RetriesAreCounted, BotTypeOK, StateStays, Waits, WaitsAtLogin, Legs, LegsTo

LEMMA BotsStep ==
    ASSUME BotsInv, BotNext
    PROVE  BotsInv'
<1>1. leg \in Legs /\ leg.inbox \in Seq(Replies) /\ leg \in LegsTo({leg.to})
    BY DEF BotsInv, Legs, LegsTo
<1>2. ASSUME NEW connects \in BOOLEAN, StartLogin(connects) PROVE BotsInv'
  <2>1. CASE connects
      BY <1>2, <2>1, NewLegs DEF StartLogin, BotsInv, RetriesAreCounted, BotTypeOK, Waits,
                WaitsAtLogin
  <2>2. CASE ~connects
      BY <1>2, <2>2, NewLegs DEF StartLogin, BotsInv, RetriesAreCounted, BotTypeOK, Waits,
                WaitsAtLogin
  <2> QED
      BY <2>1, <2>2
<1>3. ASSUME NEW connects \in BOOLEAN, ConnectBase(connects) PROVE BotsInv'
  <2>1. CASE connects
      BY <1>3, <2>1, NewLegs DEF ConnectBase, BotsInv, RetriesAreCounted, BotTypeOK, Waits,
                WaitsAtLogin, Enters
  <2>2. CASE ~connects
      BY <1>3, <2>2, NewLegs, RetryIsCounted DEF ConnectBase
  <2> QED
      BY <2>1, <2>2
<1>4. CASE Tick
    BY <1>4, <1>1 DEF Tick, BotsInv, RetriesAreCounted, BotTypeOK, StateStays, Waits, WaitsAtLogin
<1>5. CASE PumpFrame
  <2>1. leg' = [leg EXCEPT !.inbox = Tail(@)] /\ leg' \in Legs /\ leg'.to = leg.to
        /\ leg' \in LegsTo({leg.to})
    <3>1. leg.inbox # << >> /\ leg' = [leg EXCEPT !.inbox = Tail(@)]
        BY <1>5 DEF PumpFrame
    <3>2. Tail(leg.inbox) \in Seq(Replies)
        BY <1>1, <3>1
    <3> QED
        BY <1>1, <3>1, <3>2 DEF Legs, LegsTo
  <2>2. state # "Idle" /\ rest' = rest /\ attempts' = attempts
      BY <1>5 DEF PumpFrame, BotsInv
  <2>3. CASE StateStays
      BY <2>1, <2>2, <2>3, BotGoesOn
  <2>4. CASE ScheduleRetry
      BY <2>1, <2>2, <2>4, RetryIsCounted
  <2>5. CASE state = "LoginSent" /\ Enters("SelectSent")
      BY <2>1, <2>2, <2>5 DEF Enters, BotsInv, RetriesAreCounted, BotTypeOK, Waits, WaitsAtLogin
  <2>6. CASE state = "SelectSent" /\ Enters("BaseConnecting")
      BY <2>1, <2>2, <2>6 DEF Enters, BotsInv, RetriesAreCounted, BotTypeOK, Waits, WaitsAtLogin
  <2>7. CASE state = "EnterSent" /\ state' = "InGame"
             /\ UNCHANGED <<retryScheduled, reconnects, attemptDue, overdue>>
      BY <2>1, <2>2, <2>7 DEF BotsInv, RetriesAreCounted, BotTypeOK, Waits, WaitsAtLogin
  <2> QED
      BY <1>5, <2>3, <2>4, <2>5, <2>6, <2>7 DEF PumpFrame, OnMessage
<1>6. CASE LostConnection \/ ResponseTimeout
    BY <1>6, RetryIsCounted DEF LostConnection, ResponseTimeout, Pumped, BotsInv
<1>7. CASE StillWaiting
    BY <1>1, <1>7, BotGoesOn DEF StillWaiting
<1>8. ASSUME NEW accepted \in BOOLEAN, TickInGame(accepted) PROVE BotsInv'
    BY <1>1, <1>8, BotGoesOn, RetryIsCounted DEF TickInGame, Pumped, BotsInv
<1>9. CASE ForceDisconnect
  <2>1. leg' \in Legs
    <3>1. << >> \in Seq(Replies)
        OBVIOUS
    <3> QED
        BY <1>1, <1>9, <3>1 DEF ForceDisconnect, Legs, LegsTo
  <2> QED
      BY <2>1, <1>9, RetryIsCounted DEF ForceDisconnect, Waits, WaitsAtLogin
<1>10. ASSUME NEW reply \in Replies, Answer(reply) PROVE BotsInv'
  <2>1. leg' \in LegsTo({leg.to})
    <3>1. Append(leg.inbox, reply) \in Seq(Replies)
        BY <1>1
    <3> QED
        BY <1>1, <1>10, <3>1 DEF Answer, LegsTo
  <2> QED
      BY <2>1, <1>10, BotGoesOn DEF Answer
<1>11. CASE HangUp
  <2>1. leg' \in LegsTo({leg.to})
      BY <1>1, <1>11 DEF HangUp, LegsTo
  <2> QED
      BY <2>1, <1>11, BotGoesOn DEF HangUp
<1>12. CASE ClockStep
    BY <1>12 DEF ClockStep, BackoffEnds, AnswerIsLate, BotsInv, RetriesAreCounted,
                 BotTypeOK, Waits, WaitsAtLogin
<1> QED
    BY <1>2, <1>3, <1>4, <1>5, <1>6, <1>7, <1>8, <1>9, <1>10, <1>11, <1>12
    DEF BotNext, TickStep

-----------------------------------------------------------------------------
(* StateMachine *)

Frames == [oldState : States \cup {NoState}, target : States,
           hook : {"exit", "before", "enter"}]

\* Whoever changed the state last was told so, or some setState under way has not
\* reached its enter hook yet.
StatesInv ==
    /\ HooksKnowTheState
    /\ setCalls \in Seq(Frames)
    /\ entered = currentState \/ \E i \in DOMAIN setCalls : setCalls[i].hook # "enter"

LEMMA StatesStart == MachineInit => StatesInv
BY DEF MachineInit, StatesInv, HooksKnowTheState

LEMMA StatesStep ==
    ASSUME StatesInv, MachineNext
    PROVE  StatesInv'
<1>1. ASSUME NEW s \in States, SetState(s) PROVE StatesInv'
    BY <1>1 DEF SetState, StatesInv, HooksKnowTheState, CanTransitionTo, Frames
<1>2. ASSUME NEW hook \in {"before", "enter"}, setCalls # << >>,
             setCalls' = [setCalls EXCEPT ![1].hook = hook]
      PROVE  /\ setCalls' \in Seq(Frames) /\ setCalls' # << >>
             /\ hook = "before" => \E i \in DOMAIN setCalls' : setCalls'[i].hook # "enter"
  <2>1. setCalls \in Seq(Frames) /\ 1 \in DOMAIN setCalls /\ setCalls[1] \in Frames
      BY <1>2 DEF StatesInv
  <2>2. /\ [setCalls[1] EXCEPT !.hook = hook] \in Frames
        /\ [setCalls[1] EXCEPT !.hook = hook].hook = hook
      BY <2>1 DEF Frames
  <2>3. /\ setCalls' \in Seq(Frames) /\ 1 \in DOMAIN setCalls'
        /\ setCalls'[1] = [setCalls[1] EXCEPT !.hook = hook]
      BY <1>2, <2>1, <2>2
  <2>4. setCalls' # << >>
      BY <2>3
  <2> QED
      BY <2>2, <2>3, <2>4
<1>3. CASE ExitReturns
    BY <1>2, <1>3 DEF ExitReturns, StatesInv, HooksKnowTheState
<1>4. CASE EnterHook
    BY <1>2, <1>4 DEF EnterHook, StatesInv, HooksKnowTheState
<1>5. CASE EnterReturns
  <2>1. setCalls' \in Seq(Frames) /\ setCalls' = Tail(setCalls)
      BY <1>5 DEF EnterReturns, StatesInv
  <2>2. ASSUME entered # currentState
        PROVE  \E i \in DOMAIN setCalls' : setCalls'[i].hook # "enter"
    <3>1. PICK i \in DOMAIN setCalls : setCalls[i].hook # "enter"
        BY <2>2 DEF StatesInv
    <3>2. i # 1
        BY <1>5, <3>1 DEF EnterReturns, Top, StatesInv
    <3>3. i - 1 \in DOMAIN setCalls' /\ setCalls'[i - 1] = setCalls[i]
        BY <3>1, <3>2, <2>1 DEF StatesInv
    <3> QED
        BY <3>1, <3>3
  <2> QED
      BY <2>1, <2>2, <1>5 DEF EnterReturns, StatesInv, HooksKnowTheState
<1>6. CASE ResetState
    BY <1>6 DEF ResetState, StatesInv, HooksKnowTheState
<1> QED
    BY <1>1, <1>3, <1>4, <1>5, <1>6 DEF MachineNext

-----------------------------------------------------------------------------
(* PlayerActions *)

Before(a, b) == \A i \in DOMAIN a, j \in DOMAIN b : a[i] < b[j]
BodyNumbers == 0 .. MaxMoves
Showings == [event : Nat, body : BodyNumbers]

QueuesTyped ==
    /\ life \in {"active", "migrating", "destroyed", "removed"}
    /\ inputQueue \in Seq(Nat) /\ working \in Seq(Nat) /\ handled \in Seq(Nat)
    /\ sent \in Nat /\ bodyNumber \in BodyNumbers /\ endedWhileActing \in BOOLEAN
    /\ ToSet(inputQueue) \cup ToSet(working) \cup ToSet(handled) \subseteq 1 .. sent
    /\ life = "migrating" => bodyNumber < MaxMoves

\* What is queued is behind what was handled, and a batch has the queue to itself.
QueuesFit ==
    /\ InOrder(handled) /\ InOrder(inputQueue) /\ InOrder(working)
    /\ Before(handled, inputQueue) /\ Before(handled, working)
    /\ acting # 0 \/ working # << >> =>
          inputQueue = << >> /\ (life = "active" \/ endedWhileActing)

ActingInv == QueuesTyped /\ QueuesFit

EventsTyped ==
    /\ emitted \in Nat /\ vain \subseteq 1 .. emitted
    /\ pendingClientEvents \in Seq(1 .. emitted)
    /\ line \in [BodyNumbers -> Seq(Seq(1 .. emitted))]
    /\ shown \in Seq(Showings) /\ \A i \in DOMAIN shown : shown[i].event \in 1 .. emitted

\* The batches on the lines are in order, each line in itself, and all of them
\* before what is pending; what was shown is in none of them, and before those of
\* its own line.
LinesFit ==
    /\ InOrder(pendingClientEvents)
    /\ \A b \in BodyNumbers : \A k \in DOMAIN line[b] :
          /\ InOrder(line[b][k]) /\ Before(line[b][k], pendingClientEvents)
          /\ \A l \in DOMAIN line[b] : k < l => Before(line[b][k], line[b][l])
          /\ \A c \in BodyNumbers : \A l \in DOMAIN line[c] :
                b # c => ToSet(line[b][k]) \cap ToSet(line[c][l]) = {}

ShownFits ==
    /\ \A i \in DOMAIN shown :
          /\ \A j \in DOMAIN pendingClientEvents : shown[i].event < pendingClientEvents[j]
          /\ \A b \in BodyNumbers : \A k \in DOMAIN line[b] :
                /\ shown[i].event \notin ToSet(line[b][k])
                /\ shown[i].body = b => \A j \in DOMAIN line[b][k] : shown[i].event < line[b][k][j]
    /\ \A i, j \in DOMAIN shown : i < j =>
          /\ shown[i].event # shown[j].event
          /\ shown[i].body = shown[j].body => shown[i].event < shown[j].event

\* No event is forgotten.
EventsFit ==
    \A e : e \in 1 .. emitted <=>
              \/ e \in vain \/ e \in ToSet(pendingClientEvents)
              \/ \E b \in BodyNumbers : \E k \in DOMAIN line[b] : e \in ToSet(line[b][k])
              \/ \E i \in DOMAIN shown : e = shown[i].event

ServingInv == EventsTyped /\ LinesFit /\ ShownFits /\ EventsFit

LEMMA ServedWhenFit == ActingInv /\ ServingInv => PlayersAreServed
<1> SUFFICES ASSUME ActingInv, ServingInv PROVE PlayersAreServed
    OBVIOUS
<1>1. ActionsTypeOK
    BY DEF ActingInv, ServingInv, QueuesTyped, EventsTyped, ActionsTypeOK
<1>2. \A e : e \in OnTheLine <=>
              \E b \in BodyNumbers : \E k \in DOMAIN line[b] : e \in ToSet(line[b][k])
  <2>1. DOMAIN line = BodyNumbers
      BY DEF ServingInv, EventsTyped
  <2> QED
      BY <2>1 DEF OnTheLine
<1>3. 1 .. emitted = vain \cup OnTheLine \cup ToSet(pendingClientEvents)
                         \cup {shown[i].event : i \in DOMAIN shown}
    BY <1>2 DEF ServingInv, EventsFit
<1> QED
    BY <1>1, <1>3 DEF PlayersAreServed, ActingInv, ServingInv, QueuesFit, ShownFits

LEMMA ActionsStart == ActionsInit => ActingInv /\ ServingInv
<1> SUFFICES ASSUME ActionsInit PROVE ActingInv /\ ServingInv
    OBVIOUS
<1>1. 0 \in BodyNumbers /\ ToSet(<< >>) = {} /\ DOMAIN << >> = {}
    BY ActionsAssumption DEF BodyNumbers, ToSet
<1>2. QueuesTyped
  <2>1. /\ inputQueue = << >> /\ working = << >> /\ handled = << >> /\ sent = 0 /\ bodyNumber = 0
        /\ life = "active" /\ endedWhileActing = FALSE
      BY DEF ActionsInit
  <2>2. << >> \in Seq(Nat)
      OBVIOUS
  <2> QED
      BY <1>1, <2>1, <2>2 DEF QueuesTyped
<1>3. QueuesFit
    BY <1>1 DEF ActionsInit, QueuesFit, InOrder, Before
<1>4. line = [b \in BodyNumbers |-> << >>] /\ pendingClientEvents = << >> /\ shown = << >>
      /\ emitted = 0 /\ vain = {}
    BY DEF ActionsInit, BodyNumbers
<1>5. EventsTyped
    BY <1>1, <1>4 DEF EventsTyped
<1>6. LinesFit /\ ShownFits
    BY <1>1, <1>4 DEF LinesFit, ShownFits, InOrder
<1>7. EventsFit
    BY <1>1, <1>4 DEF EventsFit
<1> QED
    BY <1>2, <1>3, <1>5, <1>6, <1>7 DEF ActingInv, ServingInv

\* A list taken from its head.
LEMMA HeadGoes ==
    ASSUME NEW q \in Seq(Nat), q # << >>
    PROVE  /\ Tail(q) \in Seq(Nat) /\ Head(q) \in Nat /\ Head(q) = q[1] /\ 1 \in DOMAIN q
           /\ \A i \in DOMAIN Tail(q) : i + 1 \in DOMAIN q /\ Tail(q)[i] = q[i + 1]
<1>1. PICK n : n = Len(q)
    OBVIOUS
<1>2. n \in Nat /\ n >= 1 /\ DOMAIN q = 1 .. n
    BY <1>1
<1>3. PICK r : r = Tail(q)
    OBVIOUS
<1>4. r \in Seq(Nat) /\ DOMAIN r = 1 .. n - 1 /\ \A i \in 1 .. n - 1 : r[i] = q[i + 1]
    BY <1>1, <1>2, <1>3
<1> QED
    BY <1>2, <1>3, <1>4

\* What a step does to the queues and to the life of the body.
LEMMA ActingStep ==
    ASSUME ActingInv, [ActionsNext]_actionVars
    PROVE  ActingInv'
<1> USE DEF BetweenTicks, ScriptRuns, EndsUnderHandlers
<1>1. QueuesTyped /\ QueuesFit
    BY DEF ActingInv
<1>2. ToSet(<< >>) = {} /\ DOMAIN << >> = {} /\ << >> \in Seq(Nat)
    BY DEF ToSet
<1>3. CASE UNCHANGED <<life, bodyNumber, inputQueue, working, acting, sent, handled, endedWhileActing>>
    BY <1>1, <1>3 DEF ActingInv, QueuesTyped, QueuesFit, InOrder, Before
<1>4. CASE HandleEntityAction
  <2>1. /\ acting = 0 /\ working = << >> /\ sent' = sent + 1
        /\ inputQueue' \in {inputQueue, Append(inputQueue, sent + 1)}
        /\ UNCHANGED <<life, bodyNumber, working, acting, handled, endedWhileActing>>
      BY <1>4 DEF HandleEntityAction, BodyStays
  <2>2. /\ sent \in Nat /\ sent + 1 \in Nat
        /\ ToSet(Append(inputQueue, sent + 1)) = ToSet(inputQueue) \cup {sent + 1}
        /\ Append(inputQueue, sent + 1) \in Seq(Nat)
      BY <1>1, AppendIs DEF QueuesTyped
  <2>3. ToSet(inputQueue) \subseteq 1 .. sent + 1 /\ ToSet(handled) \subseteq 1 .. sent + 1
      BY <1>1, <2>2 DEF QueuesTyped
  <2>4. QueuesTyped'
    <3>1. inputQueue' \in Seq(Nat) /\ ToSet(inputQueue') \subseteq 1 .. sent + 1
      <4>1. sent + 1 \in 1 .. sent + 1
          BY <2>2
      <4>2. CASE inputQueue' = inputQueue
          BY <1>1, <2>3, <4>2 DEF QueuesTyped
      <4>3. CASE inputQueue' = Append(inputQueue, sent + 1)
          BY <2>2, <2>3, <4>1, <4>3
      <4> QED
          BY <2>1, <4>2, <4>3
    <3> QED
        BY <1>1, <1>2, <2>1, <2>2, <2>3, <3>1 DEF QueuesTyped
  <2>5. PICK q : q = Append(inputQueue, sent + 1)
      OBVIOUS
  <2>6. PICK n : n = Len(inputQueue)
      OBVIOUS
  <2>7. /\ n \in Nat /\ DOMAIN inputQueue = 1 .. n /\ DOMAIN q = 1 .. n + 1 /\ q[n + 1] = sent + 1
        /\ \A i \in 1 .. n : q[i] = inputQueue[i] /\ q[i] < sent + 1
    <3>1. /\ n \in Nat /\ DOMAIN inputQueue = 1 .. n /\ DOMAIN q = 1 .. n + 1 /\ q[n + 1] = sent + 1
          /\ \A i \in 1 .. n : q[i] = inputQueue[i]
        BY <1>1, <2>2, <2>5, <2>6 DEF QueuesTyped
    <3>2. \A i \in 1 .. n : inputQueue[i] \in 1 .. sent
        BY <1>1, <3>1 DEF QueuesTyped, ToSet
    <3> QED
        BY <2>2, <3>1, <3>2
  <2>8. \A i \in DOMAIN handled : handled[i] < sent + 1
    <3>1. \A i \in DOMAIN handled : handled[i] \in 1 .. sent
        BY <1>1 DEF QueuesTyped, ToSet
    <3> QED
        BY <2>2, <3>1
  <2>9. \A i \in 1 .. n + 1 : i \in 1 .. n \/ i = n + 1
      BY <2>7
  <2>10. InOrder(q)
      BY <1>1, <2>7, <2>9 DEF QueuesFit, InOrder
  <2>11. Before(handled, q)
      BY <1>1, <2>7, <2>8, <2>9 DEF QueuesFit, Before
  <2>12. QueuesFit'
      BY <1>1, <2>1, <2>5, <2>10, <2>11 DEF QueuesFit, InOrder, Before
  <2> QED
      BY <2>4, <2>12 DEF ActingInv
<1>5. ASSUME NEW hasHandler \in BOOLEAN, ProcessInput(hasHandler) PROVE ActingInv'
  <2>1. /\ acting = 0 /\ working = << >> /\ life = "active" /\ inputQueue' = << >>
        /\ working' \in {inputQueue, << >>} /\ endedWhileActing' = FALSE
        /\ UNCHANGED <<life, bodyNumber, acting, sent, handled>>
      BY <1>5 DEF ProcessInput, BodyStays
  <2>2. QueuesTyped'
      BY <1>1, <1>2, <2>1 DEF QueuesTyped
  <2>3. QueuesFit'
      BY <1>1, <1>2, <2>1 DEF QueuesFit, InOrder, Before
  <2> QED
      BY <2>2, <2>3 DEF ActingInv
<1>6. CASE HandleAction
  <2>1. PICK a : a = Head(working)
      OBVIOUS
  <2>2. PICK r : r = Tail(working)
      OBVIOUS
  <2>3. PICK h : h = Append(handled, a)
      OBVIOUS
  <2>4. /\ working # << >> /\ acting' = a /\ working' = r /\ handled' = h
        /\ UNCHANGED <<life, bodyNumber, inputQueue, sent, endedWhileActing>>
      BY <1>6, <2>1, <2>2, <2>3 DEF HandleAction, BodyStays
  <2>5. /\ r \in Seq(Nat) /\ a \in Nat /\ a = working[1] /\ 1 \in DOMAIN working
        /\ \A i \in DOMAIN r : i + 1 \in DOMAIN working /\ r[i] = working[i + 1] /\ i \in Nat /\ i >= 1
    <3>1. working \in Seq(Nat)
        BY <1>1 DEF QueuesTyped
    <3>2. /\ r \in Seq(Nat) /\ a \in Nat /\ a = working[1] /\ 1 \in DOMAIN working
          /\ \A i \in DOMAIN r : i + 1 \in DOMAIN working /\ r[i] = working[i + 1]
        BY <2>1, <2>2, <2>4, <3>1, HeadGoes
    <3>3. \A i \in DOMAIN r : i \in Nat /\ i >= 1
        BY <3>2
    <3> QED
        BY <3>2, <3>3
  <2>6. PICK n : n = Len(handled)
      OBVIOUS
  <2>7. /\ n \in Nat /\ h \in Seq(Nat) /\ DOMAIN handled = 1 .. n /\ DOMAIN h = 1 .. n + 1
        /\ h[n + 1] = a /\ \A i \in 1 .. n : h[i] = handled[i]
      BY <1>1, <2>3, <2>5, <2>6 DEF QueuesTyped
  <2>8. \A i \in 1 .. n + 1 : i \in 1 .. n \/ i = n + 1
      BY <2>7
  <2>9. ToSet(r) \cup ToSet(h) \subseteq 1 .. sent
    <3>1. ToSet(working) \subseteq 1 .. sent /\ ToSet(handled) \subseteq 1 .. sent
        BY <1>1 DEF QueuesTyped
    <3>2. ToSet(r) \subseteq ToSet(working) /\ a \in ToSet(working)
        BY <2>5 DEF ToSet
    <3>3. ToSet(h) = ToSet(handled) \cup {a}
        BY <1>1, <2>3, <2>5, AppendIs DEF QueuesTyped
    <3> QED
        BY <3>1, <3>2, <3>3
  <2>10. QueuesTyped'
      BY <1>1, <2>4, <2>5, <2>7, <2>9 DEF QueuesTyped
  <2>11. /\ \A i \in DOMAIN r : a < r[i]
         /\ \A i, j \in DOMAIN r : i < j => r[i] < r[j]
    <3>1. \A i, j \in DOMAIN working : i < j => working[i] < working[j]
        BY <1>1 DEF QueuesFit, InOrder
    <3>2. \A i \in DOMAIN r : 1 < i + 1
        BY <2>5
    <3>3. \A i, j \in DOMAIN r : i < j => i + 1 < j + 1
        BY <2>5
    <3> QED
        BY <2>5, <3>1, <3>2, <3>3
  <2>12. InOrder(h) /\ InOrder(r)
    <3>1. \A i \in 1 .. n : handled[i] < a
        BY <1>1, <2>5, <2>7 DEF QueuesFit, Before
    <3> QED
        BY <1>1, <2>7, <2>8, <2>11, <3>1 DEF QueuesFit, InOrder
  <2>13. Before(h, r)
    <3>1. \A i \in 1 .. n, j \in DOMAIN r : handled[i] < r[j]
        BY <1>1, <2>5, <2>7 DEF QueuesFit, Before
    <3> QED
        BY <2>7, <2>8, <2>11, <3>1 DEF Before
  <2>14. inputQueue = << >> /\ (life = "active" \/ endedWhileActing)
      BY <1>1, <2>4 DEF QueuesFit
  <2>15. QueuesFit'
      BY <1>1, <1>2, <2>4, <2>12, <2>13, <2>14 DEF QueuesFit, InOrder, Before
  <2> QED
      BY <2>10, <2>15 DEF ActingInv
<1>7. CASE HandlerReturns
    BY <1>1, <1>7 DEF HandlerReturns, BodyStays, ActingInv, QueuesTyped, QueuesFit, InOrder, Before
<1>8. CASE BeginMigration
  <2>1. bodyNumber < MaxMoves
      BY <1>8 DEF BeginMigration
  <2> QED
      BY <1>1, <1>8, <2>1 DEF BeginMigration, ActingInv, QueuesTyped, QueuesFit, InOrder, Before
<1>9. CASE CommitMigration
  <2>1. /\ bodyNumber' = bodyNumber + 1 /\ life = "migrating" /\ life' = "active" /\ inputQueue' = << >>
        /\ UNCHANGED <<working, acting, sent, handled, endedWhileActing>> /\ acting = 0 /\ working = << >>
      BY <1>9 DEF CommitMigration
  <2>2. bodyNumber + 1 \in BodyNumbers
      BY <1>1, <2>1, ActionsAssumption DEF QueuesTyped, BodyNumbers
  <2> QED
      BY <1>1, <1>2, <2>1, <2>2 DEF ActingInv, QueuesTyped, QueuesFit, InOrder, Before
<1>10. CASE Destroy
    BY <1>1, <1>2, <1>10 DEF Destroy, ActingInv, QueuesTyped, QueuesFit, InOrder, Before
<1>11. CASE RemoveBody
    BY <1>1, <1>11
       DEF RemoveBody, QueueAsItWas, ActingInv, QueuesTyped, QueuesFit, InOrder, Before
<1>12. CASE \/ UNCHANGED actionVars \/ EmitToClient \/ PlayerLeaves
            \/ \E lostIt \in BOOLEAN : FlushClientEvents(lostIt)
            \/ \E b \in 0 .. MaxMoves : HandleClientEvent(b)
  <2>1. UNCHANGED <<life, bodyNumber, inputQueue, working, acting, sent, handled, endedWhileActing>>
      BY <1>12 DEF actionVars, EmitToClient, PlayerLeaves, FlushClientEvents, HandleClientEvent,
         QueueAsItWas, BodyStays
  <2> QED
      BY <1>3, <2>1
<1> QED
    BY <1>4, <1>5, <1>6, <1>7, <1>8, <1>9, <1>10, <1>11, <1>12 DEF ActionsNext

\* The members of a list, in a set and in a larger one.
LEMMA ListIs ==
    ASSUME NEW S, NEW q \in Seq(S)
    PROVE  /\ \A i \in DOMAIN q : q[i] \in S
           /\ \A T : S \subseteq T => q \in Seq(T)
OBVIOUS

\* What is pending is given up.
LEMMA PendingIsLost ==
    ASSUME ServingInv, pendingClientEvents' = << >>,
           vain' = vain \cup ToSet(pendingClientEvents), UNCHANGED <<line, emitted, shown>>
    PROVE  ServingInv'
<1>1. EventsTyped /\ LinesFit /\ ShownFits /\ EventsFit /\ DOMAIN << >> = {} /\ ToSet(<< >>) = {}
    BY DEF ServingInv, ToSet
<1>2. EventsTyped'
  <2>1. << >> \in Seq(1 .. emitted)
      OBVIOUS
  <2>2. \A i \in DOMAIN pendingClientEvents : pendingClientEvents[i] \in 1 .. emitted
      BY <1>1, ListIs DEF EventsTyped
  <2>3. ToSet(pendingClientEvents) \subseteq 1 .. emitted
      BY <2>2 DEF ToSet
  <2> QED
      BY <1>1, <2>1, <2>3 DEF EventsTyped
<1>3. LinesFit' /\ ShownFits'
  <2>1. InOrder(pendingClientEvents') /\ \A a : Before(a, pendingClientEvents')
      BY <1>1 DEF InOrder, Before
  <2>2. LinesFit'
      BY <1>1, <2>1 DEF LinesFit
  <2>3. ShownFits'
      BY <1>1 DEF ShownFits
  <2> QED
      BY <2>2, <2>3
<1>4. EventsFit'
    BY <1>1 DEF EventsFit
<1> QED
    BY <1>2, <1>3, <1>4 DEF ServingInv

\* One event more is pending.
LEMMA EmitStep ==
    ASSUME ServingInv, EmitToClient
    PROVE  ServingInv'
<1>1. EventsTyped /\ LinesFit /\ ShownFits /\ EventsFit
    BY DEF ServingInv
<1>2. PICK n : n = emitted + 1
    OBVIOUS
<1>3. PICK q : q = Append(pendingClientEvents, n)
    OBVIOUS
<1>4. emitted' = n /\ pendingClientEvents' = q /\ UNCHANGED <<line, shown, vain>>
    BY <1>2, <1>3 DEF EmitToClient
<1>5. PICK m : m = Len(pendingClientEvents)
    OBVIOUS
<1>6. /\ emitted \in Nat /\ n \in Nat /\ n \in 1 .. n /\ 1 .. n = 1 .. emitted \cup {n}
      /\ n \notin 1 .. emitted
    BY <1>1, <1>2 DEF EventsTyped
<1>7. pendingClientEvents \in Seq(1 .. emitted) /\ pendingClientEvents \in Seq(1 .. n)
  <2>1. pendingClientEvents \in Seq(1 .. emitted)
      BY <1>1 DEF EventsTyped
  <2>2. 1 .. emitted \subseteq 1 .. n
      BY <1>6
  <2> QED
      BY <2>1, <2>2, ListIs
<1>8. q \in Seq(1 .. n) /\ ToSet(q) = ToSet(pendingClientEvents) \cup {n}
    BY <1>3, <1>6, <1>7, AppendIs
<1>9. /\ m \in Nat /\ DOMAIN pendingClientEvents = 1 .. m /\ DOMAIN q = 1 .. m + 1 /\ q[m + 1] = n
      /\ \A i \in 1 .. m : q[i] = pendingClientEvents[i]
    BY <1>3, <1>5, <1>7
<1>10. \A i \in 1 .. m + 1 : i \in 1 .. m \/ i = m + 1
    BY <1>9
<1>11. \A i \in 1 .. m : pendingClientEvents[i] \in 1 .. emitted
  <2>1. \A i \in DOMAIN pendingClientEvents : pendingClientEvents[i] \in 1 .. emitted
      BY <1>7, ListIs
  <2> QED
      BY <1>9, <2>1
<1>12. \A e \in 1 .. emitted : e < n
    BY <1>2, <1>6
<1>13. EventsTyped'
  <2>1. Seq(Seq(1 .. emitted)) \subseteq Seq(Seq(1 .. n))
    <3>1. Seq(1 .. emitted) \subseteq Seq(1 .. n)
        BY <1>6
    <3> QED
        BY <3>1
  <2>2. line \in [BodyNumbers -> Seq(Seq(1 .. n))]
      BY <1>1, <2>1 DEF EventsTyped
  <2>3. vain \subseteq 1 .. n /\ \A i \in DOMAIN shown : shown[i].event \in 1 .. n
      BY <1>1, <1>6 DEF EventsTyped
  <2> QED
      BY <1>1, <1>4, <1>6, <1>8, <2>2, <2>3 DEF EventsTyped
<1>14. \A b \in BodyNumbers : \A k \in DOMAIN line[b] : \A j \in DOMAIN line[b][k] : line[b][k][j] < n
  <2> SUFFICES ASSUME NEW b \in BodyNumbers, NEW k \in DOMAIN line[b], NEW j \in DOMAIN line[b][k]
               PROVE  line[b][k][j] \in 1 .. emitted
      BY <1>12
  <2>1. line[b] \in Seq(Seq(1 .. emitted))
      BY <1>1 DEF EventsTyped
  <2>2. line[b][k] \in Seq(1 .. emitted)
      BY <2>1, ListIs
  <2> QED
      BY <2>2, ListIs
<1>15. LinesFit'
  <2>1. InOrder(q)
      BY <1>1, <1>9, <1>10, <1>11, <1>12 DEF LinesFit, InOrder
  <2>2. ASSUME NEW b \in BodyNumbers, NEW k \in DOMAIN line[b] PROVE Before(line[b][k], q)
      BY <1>1, <1>9, <1>10, <1>14 DEF LinesFit, Before
  <2>3. /\ InOrder(pendingClientEvents') /\ line' = line
        /\ \A b \in BodyNumbers : \A k \in DOMAIN line[b] : Before(line[b][k], pendingClientEvents')
      BY <1>4, <2>1, <2>2
  <2> QED
      BY <1>1, <2>3 DEF LinesFit
<1>16. ShownFits'
  <2>1. \A i \in DOMAIN shown : shown[i].event < n
      BY <1>1, <1>12 DEF EventsTyped
  <2>2. \A i \in DOMAIN shown : \A j \in DOMAIN q : shown[i].event < q[j]
      BY <1>1, <1>9, <1>10, <2>1 DEF ShownFits
  <2> QED
      BY <1>1, <1>4, <2>2 DEF ShownFits
<1>17. EventsFit'
    BY <1>1, <1>4, <1>6, <1>8 DEF EventsFit
<1> QED
    BY <1>13, <1>15, <1>16, <1>17 DEF ServingInv

\* The lines hold the same events, of which those of one batch more.
LEMMA FlushStep ==
    ASSUME ServingInv, bodyNumber \in BodyNumbers, FlushClientEvents(FALSE)
    PROVE  ServingInv'
<1>1. EventsTyped /\ LinesFit /\ ShownFits /\ EventsFit /\ DOMAIN << >> = {} /\ ToSet(<< >>) = {}
      /\ << >> \in Seq(1 .. emitted)
    BY DEF ServingInv, ToSet
<1>2. PICK p : p = pendingClientEvents
    OBVIOUS
<1>3. PICK a : a = bodyNumber
    OBVIOUS
<1>4. PICK q : q = Append(line[a], p)
    OBVIOUS
<1>5. /\ line' = [line EXCEPT ![a] = q] /\ pendingClientEvents' = << >>
      /\ UNCHANGED <<emitted, shown, vain>> /\ a \in BodyNumbers
    BY <1>2, <1>3, <1>4 DEF FlushClientEvents
<1>6. p \in Seq(1 .. emitted) /\ line[a] \in Seq(Seq(1 .. emitted))
      /\ line \in [BodyNumbers -> Seq(Seq(1 .. emitted))]
    BY <1>1, <1>2, <1>5 DEF EventsTyped
<1>7. PICK m : m = Len(line[a])
    OBVIOUS
<1>8. /\ m \in Nat /\ DOMAIN line[a] = 1 .. m /\ DOMAIN q = 1 .. m + 1 /\ q[m + 1] = p
      /\ q \in Seq(Seq(1 .. emitted)) /\ \A k \in 1 .. m : q[k] = line[a][k]
    BY <1>4, <1>6, <1>7
<1>9. \A k \in 1 .. m + 1 : k \in 1 .. m \/ k = m + 1
    BY <1>8
<1>10. /\ line' \in [BodyNumbers -> Seq(Seq(1 .. emitted))]
       /\ line'[a] = q /\ \A b \in BodyNumbers \ {a} : line'[b] = line[b]
    BY <1>5, <1>6, <1>8
<1>11. EventsTyped'
    BY <1>1, <1>5, <1>10 DEF EventsTyped
\* What is on the lines now was there before, or is the last batch of its line.
<1>12. ASSUME NEW b \in BodyNumbers, NEW k \in DOMAIN line'[b]
       PROVE  \/ k \in DOMAIN line[b] /\ line'[b][k] = line[b][k]
              \/ b = a /\ k = m + 1 /\ line'[b][k] = p
    BY <1>8, <1>9, <1>10
<1>13. \A b \in BodyNumbers : \A k \in DOMAIN line[b] :
          Before(line[b][k], p) /\ ToSet(line[b][k]) \cap ToSet(p) = {}
  <2> SUFFICES ASSUME NEW b \in BodyNumbers, NEW k \in DOMAIN line[b]
               PROVE  Before(line[b][k], p) /\ ToSet(line[b][k]) \cap ToSet(p) = {}
      OBVIOUS
  <2>1. Before(line[b][k], p)
      BY <1>1, <1>2 DEF LinesFit
  <2>2. line[b][k] \in Seq(1 .. emitted)
    <3>1. line[b] \in Seq(Seq(1 .. emitted))
        BY <1>6
    <3> QED
        BY <3>1
  <2>3. \A i \in DOMAIN line[b][k], j \in DOMAIN p : line[b][k][i] # p[j]
    <3>1. \A i \in DOMAIN line[b][k] : line[b][k][i] \in 1 .. emitted
        BY <2>2, ListIs
    <3>2. \A j \in DOMAIN p : p[j] \in 1 .. emitted
        BY <1>6, ListIs
    <3> QED
        BY <2>1, <3>1, <3>2 DEF Before
  <2> QED
      BY <2>1, <2>3 DEF ToSet
<1>14. LinesFit'
  <2>1. InOrder(p) /\ InOrder(<< >>)
      BY <1>1, <1>2 DEF LinesFit, InOrder
  <2>2. ASSUME NEW b \in BodyNumbers, NEW k \in DOMAIN line'[b]
        PROVE  /\ InOrder(line'[b][k]) /\ Before(line'[b][k], << >>)
               /\ \A l \in DOMAIN line'[b] : k < l => Before(line'[b][k], line'[b][l])
               /\ \A c \in BodyNumbers : \A l \in DOMAIN line'[c] :
                     b # c => ToSet(line'[b][k]) \cap ToSet(line'[c][l]) = {}
    <3>1. InOrder(line'[b][k])
        BY <1>1, <1>12, <2>1, <2>2 DEF LinesFit
    <3>2. Before(line'[b][k], << >>)
        BY <1>1 DEF Before
    <3>3. ASSUME NEW l \in DOMAIN line'[b], k < l PROVE Before(line'[b][k], line'[b][l])
      <4>1. CASE b = a
        <5>1. k \in 1 .. m + 1 /\ l \in 1 .. m + 1 /\ k \in 1 .. m
            BY <1>8, <1>10, <2>2, <3>3, <4>1
        <5>2. line'[b][k] = line[b][k] /\ k \in DOMAIN line[b]
            BY <1>8, <1>10, <4>1, <5>1
        <5>3. CASE l = m + 1
            BY <1>8, <1>10, <1>13, <4>1, <5>2, <5>3
        <5>4. CASE l \in 1 .. m
          <6>1. line'[b][l] = line[b][l] /\ l \in DOMAIN line[b]
              BY <1>8, <1>10, <4>1, <5>4
          <6> QED
              BY <1>1, <3>3, <5>2, <6>1 DEF LinesFit
        <5> QED
            BY <1>9, <5>1, <5>3, <5>4
      <4>2. CASE b # a
        <5>1. line'[b] = line[b]
            BY <1>10, <4>2
        <5> QED
            BY <1>1, <2>2, <3>3, <5>1 DEF LinesFit
      <4> QED
          BY <4>1, <4>2
    <3>4. ASSUME NEW c \in BodyNumbers, NEW l \in DOMAIN line'[c], b # c
          PROVE  ToSet(line'[b][k]) \cap ToSet(line'[c][l]) = {}
      <4>1. \/ k \in DOMAIN line[b] /\ line'[b][k] = line[b][k]
            \/ b = a /\ line'[b][k] = p
          BY <1>12, <2>2
      <4>2. \/ l \in DOMAIN line[c] /\ line'[c][l] = line[c][l]
            \/ c = a /\ line'[c][l] = p
          BY <1>12, <3>4
      <4>3. CASE k \in DOMAIN line[b] /\ line'[b][k] = line[b][k]
                 /\ l \in DOMAIN line[c] /\ line'[c][l] = line[c][l]
        <5>1. ToSet(line[b][k]) \cap ToSet(line[c][l]) = {}
            BY <1>1, <3>4, <4>3 DEF LinesFit
        <5> QED
            BY <4>3, <5>1
      <4>4. CASE k \in DOMAIN line[b] /\ line'[b][k] = line[b][k] /\ c = a /\ line'[c][l] = p
        <5>1. ToSet(line[b][k]) \cap ToSet(p) = {}
            BY <1>13, <4>4
        <5> QED
            BY <4>4, <5>1
      <4>5. CASE b = a /\ line'[b][k] = p /\ l \in DOMAIN line[c] /\ line'[c][l] = line[c][l]
        <5>1. ToSet(line[c][l]) \cap ToSet(p) = {}
            BY <1>13, <4>5
        <5> QED
            BY <4>5, <5>1
      <4> QED
          BY <3>4, <4>1, <4>2, <4>3, <4>4, <4>5
    <3> QED
        BY <3>1, <3>2, <3>3, <3>4
  <2>3. /\ InOrder(pendingClientEvents')
        /\ \A b \in BodyNumbers : \A k \in DOMAIN line'[b] : Before(line'[b][k], pendingClientEvents')
      BY <1>5, <2>1, <2>2
  <2> QED
      BY <2>2, <2>3 DEF LinesFit
<1>15. ShownFits'
  <2>1. ASSUME NEW i \in DOMAIN shown
        PROVE  /\ \A j \in DOMAIN p : shown[i].event < p[j]
               /\ shown[i].event \notin ToSet(p)
    <3>1. \A j \in DOMAIN p : shown[i].event < p[j]
        BY <1>1, <1>2 DEF ShownFits
    <3>2. shown[i].event \in Nat /\ \A j \in DOMAIN p : p[j] \in Nat
        BY <1>1, <1>6 DEF EventsTyped
    <3> QED
        BY <3>1, <3>2 DEF ToSet
  <2>2. ASSUME NEW i \in DOMAIN shown, NEW b \in BodyNumbers, NEW k \in DOMAIN line'[b]
        PROVE  /\ shown[i].event \notin ToSet(line'[b][k])
               /\ shown[i].body = b => \A j \in DOMAIN line'[b][k] : shown[i].event < line'[b][k][j]
    <3>1. CASE k \in DOMAIN line[b] /\ line'[b][k] = line[b][k]
      <4>1. /\ shown[i].event \notin ToSet(line[b][k])
            /\ shown[i].body = b => \A j \in DOMAIN line[b][k] : shown[i].event < line[b][k][j]
          BY <1>1, <3>1 DEF ShownFits
      <4> QED
          BY <3>1, <4>1
    <3>2. CASE line'[b][k] = p
        BY <2>1, <3>2
    <3> QED
        BY <1>12, <2>2, <3>1, <3>2
  <2>3. \A i, j \in DOMAIN shown : i < j =>
           /\ shown[i].event # shown[j].event
           /\ shown[i].body = shown[j].body => shown[i].event < shown[j].event
      BY <1>1 DEF ShownFits
  <2> QED
      BY <1>1, <1>5, <2>2, <2>3 DEF ShownFits
<1>16. EventsFit'
  <2>1. ASSUME NEW e
        PROVE  (\E b \in BodyNumbers : \E k \in DOMAIN line'[b] : e \in ToSet(line'[b][k]))
               <=> \/ \E b \in BodyNumbers : \E k \in DOMAIN line[b] : e \in ToSet(line[b][k])
                   \/ e \in ToSet(p)
    <3>1. ASSUME NEW b \in BodyNumbers, NEW k \in DOMAIN line[b]
          PROVE  k \in DOMAIN line'[b] /\ line'[b][k] = line[b][k]
      <4>1. CASE b = a
          BY <1>8, <1>10, <4>1
      <4>2. CASE b # a
          BY <1>10, <4>2
      <4> QED
          BY <4>1, <4>2
    <3>2. m + 1 \in DOMAIN line'[a] /\ line'[a][m + 1] = p
        BY <1>8, <1>10
    <3>3. ASSUME NEW b \in BodyNumbers, NEW k \in DOMAIN line'[b], e \in ToSet(line'[b][k])
          PROVE  e \in ToSet(p) \/ \E l \in DOMAIN line[b] : e \in ToSet(line[b][l])
      <4>1. CASE k \in DOMAIN line[b] /\ line'[b][k] = line[b][k]
          BY <3>3, <4>1
      <4>2. CASE line'[b][k] = p
          BY <3>3, <4>2
      <4> QED
          BY <1>12, <3>3, <4>1, <4>2
    <3> QED
        BY <1>5, <3>1, <3>2, <3>3
  <2> QED
      BY <1>1, <1>2, <1>5, <2>1 DEF EventsFit
<1> QED
    BY <1>11, <1>14, <1>15, <1>16 DEF ServingInv

\* The first batch of a line arrives, and the client hears it, or nobody.
LEMMA HearStep ==
    ASSUME ServingInv, NEW b \in BodyNumbers, HandleClientEvent(b)
    PROVE  ServingInv'
<1>1. EventsTyped /\ LinesFit /\ ShownFits /\ EventsFit
    BY DEF ServingInv
<1>2. PICK h : h = Head(line[b])
    OBVIOUS
<1>3. PICK r : r = Tail(line[b])
    OBVIOUS
<1>4. PICK g : g = [k \in DOMAIN h |-> [event |-> h[k], body |-> b]]
    OBVIOUS
<1>5. /\ line[b] # << >> /\ line' = [line EXCEPT ![b] = r]
      /\ \/ vain' = vain /\ shown' = shown \o g
         \/ vain' = vain \cup ToSet(h) /\ shown' = shown
      /\ UNCHANGED <<pendingClientEvents, emitted>>
    BY <1>2, <1>3, <1>4 DEF HandleClientEvent
<1>6. line \in [BodyNumbers -> Seq(Seq(1 .. emitted))] /\ line[b] \in Seq(Seq(1 .. emitted))
    BY <1>1 DEF EventsTyped
<1>7. PICK m : m = Len(line[b])
    OBVIOUS
<1>8. /\ m \in Nat /\ m >= 1 /\ DOMAIN line[b] = 1 .. m /\ h = line[b][1] /\ DOMAIN r = 1 .. m - 1
      /\ r \in Seq(Seq(1 .. emitted)) /\ \A k \in 1 .. m - 1 : r[k] = line[b][k + 1]
    BY <1>2, <1>3, <1>5, <1>6, <1>7
<1>9. /\ line' \in [BodyNumbers -> Seq(Seq(1 .. emitted))]
      /\ line'[b] = r /\ \A c \in BodyNumbers \ {b} : line'[c] = line[c]
    BY <1>5, <1>6, <1>8
<1>10. h \in Seq(1 .. emitted)
  <2>1. 1 \in DOMAIN line[b]
      BY <1>8
  <2> QED
      BY <1>6, <1>8, <2>1, ListIs
<1>11. \A i \in DOMAIN h : h[i] \in 1 .. emitted /\ h[i] \in Nat
  <2>1. \A i \in DOMAIN h : h[i] \in 1 .. emitted
      BY <1>10, ListIs
  <2> QED
      BY <2>1
\* What is on the lines now was there before, behind the batch that arrived.
<1>12. ASSUME NEW c \in BodyNumbers, NEW k \in DOMAIN line'[c]
       PROVE  /\ (IF c = b THEN k + 1 ELSE k) \in DOMAIN line[c]
              /\ line'[c][k] = line[c][IF c = b THEN k + 1 ELSE k]
              /\ (c = b => k \in Nat /\ k >= 1)
  <2>1. CASE c = b
    <3>1. k \in 1 .. m - 1
        BY <1>8, <1>9, <1>12, <2>1
    <3>2. k + 1 \in 1 .. m /\ line'[c][k] = line[b][k + 1] /\ k \in Nat /\ k >= 1
        BY <1>8, <1>9, <2>1, <3>1
    <3> QED
        BY <1>8, <2>1, <3>2
  <2>2. CASE c # b
      BY <1>9, <1>12, <2>2
  <2> QED
      BY <2>1, <2>2
<1>13. ASSUME NEW c \in BodyNumbers, NEW k \in DOMAIN line'[c]
       PROVE  /\ (c = b => Before(h, line'[c][k]))
              /\ ToSet(h) \cap ToSet(line'[c][k]) = {}
  <2>1. 1 \in DOMAIN line[b]
      BY <1>8
  <2>2. CASE c = b
    <3>1. k + 1 \in DOMAIN line[b] /\ line'[c][k] = line[b][k + 1] /\ 1 < k + 1
        BY <1>12, <1>13, <2>2
    <3>2. Before(h, line[b][k + 1])
        BY <1>1, <1>8, <2>1, <3>1 DEF LinesFit
    <3>3. line[b][k + 1] \in Seq(1 .. emitted)
        BY <1>6, <3>1, ListIs
    <3>4. \A j \in DOMAIN line[b][k + 1] : line[b][k + 1][j] \in 1 .. emitted
        BY <3>3, ListIs
    <3>5. \A i \in DOMAIN h, j \in DOMAIN line[b][k + 1] : h[i] # line[b][k + 1][j]
        BY <1>11, <3>2, <3>4 DEF Before
    <3>6. ToSet(h) \cap ToSet(line[b][k + 1]) = {}
        BY <3>5 DEF ToSet
    <3> QED
        BY <3>1, <3>2, <3>6
  <2>3. CASE c # b
    <3>1. k \in DOMAIN line[c] /\ line'[c][k] = line[c][k]
        BY <1>12, <1>13, <2>3
    <3>2. ToSet(line[b][1]) \cap ToSet(line[c][k]) = {}
        BY <1>1, <2>1, <2>3, <3>1 DEF LinesFit
    <3> QED
        BY <1>8, <2>3, <3>1, <3>2
  <2> QED
      BY <2>2, <2>3
<1>14. LinesFit'
  <2>1. ASSUME NEW c \in BodyNumbers, NEW k \in DOMAIN line'[c]
        PROVE  /\ InOrder(line'[c][k]) /\ Before(line'[c][k], pendingClientEvents)
               /\ \A l \in DOMAIN line'[c] : k < l => Before(line'[c][k], line'[c][l])
               /\ \A d \in BodyNumbers : \A l \in DOMAIN line'[d] :
                     c # d => ToSet(line'[c][k]) \cap ToSet(line'[d][l]) = {}
    <3>1. PICK i : i = IF c = b THEN k + 1 ELSE k
        OBVIOUS
    <3>2. i \in DOMAIN line[c] /\ line'[c][k] = line[c][i] /\ (c = b => k \in Nat)
        BY <1>12, <2>1, <3>1
    <3>3. InOrder(line[c][i]) /\ Before(line[c][i], pendingClientEvents)
        BY <1>1, <3>2 DEF LinesFit
    <3>4. ASSUME NEW l \in DOMAIN line'[c], k < l PROVE Before(line'[c][k], line'[c][l])
      <4>1. PICK j : j = IF c = b THEN l + 1 ELSE l
          OBVIOUS
      <4>2. j \in DOMAIN line[c] /\ line'[c][l] = line[c][j] /\ (c = b => l \in Nat)
          BY <1>12, <3>4, <4>1
      <4>3. i < j
          BY <3>1, <3>2, <3>4, <4>1, <4>2
      <4>4. Before(line[c][i], line[c][j])
          BY <1>1, <3>2, <4>2, <4>3 DEF LinesFit
      <4> QED
          BY <3>2, <4>2, <4>4
    <3>5. ASSUME NEW d \in BodyNumbers, NEW l \in DOMAIN line'[d], c # d
          PROVE  ToSet(line'[c][k]) \cap ToSet(line'[d][l]) = {}
      <4>1. PICK j : j \in DOMAIN line[d] /\ line'[d][l] = line[d][j]
          BY <1>12, <3>5
      <4>2. ToSet(line[c][i]) \cap ToSet(line[d][j]) = {}
          BY <1>1, <3>2, <3>5, <4>1 DEF LinesFit
      <4> QED
          BY <3>2, <4>1, <4>2
    <3> QED
        BY <3>2, <3>3, <3>4, <3>5
  <2>2. InOrder(pendingClientEvents)
      BY <1>1 DEF LinesFit
  <2>3. pendingClientEvents' = pendingClientEvents
      BY <1>5
  <2> QED
      BY <2>1, <2>2, <2>3 DEF LinesFit
\* What was shown before.
<1>15. ASSUME NEW i \in DOMAIN shown
       PROVE  /\ shown[i] \in Showings /\ shown[i].event \in 1 .. emitted
              /\ \A j \in DOMAIN pendingClientEvents : shown[i].event < pendingClientEvents[j]
              /\ \A c \in BodyNumbers : \A k \in DOMAIN line'[c] :
                    /\ shown[i].event \notin ToSet(line'[c][k])
                    /\ shown[i].body = c => \A j \in DOMAIN line'[c][k] : shown[i].event < line'[c][k][j]
              /\ shown[i].event \notin ToSet(h)
              /\ shown[i].body = b => \A j \in DOMAIN h : shown[i].event < h[j]
  <2>1. shown[i] \in Showings /\ shown[i].event \in 1 .. emitted
      BY <1>1, ListIs DEF EventsTyped
  <2>2. \A j \in DOMAIN pendingClientEvents : shown[i].event < pendingClientEvents[j]
      BY <1>1 DEF ShownFits
  <2>3. ASSUME NEW c \in BodyNumbers, NEW k \in DOMAIN line'[c]
        PROVE  /\ shown[i].event \notin ToSet(line'[c][k])
               /\ shown[i].body = c => \A j \in DOMAIN line'[c][k] : shown[i].event < line'[c][k][j]
    <3>1. PICK l \in DOMAIN line[c] : line'[c][k] = line[c][l]
        BY <1>12, <2>3
    <3>2. /\ shown[i].event \notin ToSet(line[c][l])
          /\ shown[i].body = c => \A j \in DOMAIN line[c][l] : shown[i].event < line[c][l][j]
        BY <1>1, <3>1 DEF ShownFits
    <3> QED
        BY <3>1, <3>2
  <2>4. /\ shown[i].event \notin ToSet(h)
        /\ shown[i].body = b => \A j \in DOMAIN h : shown[i].event < h[j]
    <3>1. 1 \in DOMAIN line[b]
        BY <1>8
    <3>2. /\ shown[i].event \notin ToSet(line[b][1])
          /\ shown[i].body = b => \A j \in DOMAIN line[b][1] : shown[i].event < line[b][1][j]
        BY <1>1, <3>1 DEF ShownFits
    <3> QED
        BY <1>8, <3>2
  <2> QED
      BY <2>1, <2>2, <2>3, <2>4
<1>16. ASSUME NEW e
       PROVE  (\E c \in BodyNumbers : \E k \in DOMAIN line[c] : e \in ToSet(line[c][k]))
              <=> \/ \E c \in BodyNumbers : \E k \in DOMAIN line'[c] : e \in ToSet(line'[c][k])
                  \/ e \in ToSet(h)
  <2>1. ASSUME NEW c \in BodyNumbers, NEW k \in DOMAIN line[c], e \in ToSet(line[c][k])
        PROVE  e \in ToSet(h) \/ \E l \in DOMAIN line'[c] : e \in ToSet(line'[c][l])
    <3>1. CASE c # b
        BY <1>9, <2>1, <3>1
    <3>2. CASE c = b /\ k = 1
        BY <1>8, <2>1, <3>2
    <3>3. CASE c = b /\ k # 1
      <4>1. k - 1 \in 1 .. m - 1 /\ (k - 1) + 1 = k
          BY <1>8, <2>1, <3>3
      <4>2. k - 1 \in DOMAIN line'[c] /\ line'[c][k - 1] = line[c][k]
          BY <1>8, <1>9, <3>3, <4>1
      <4> QED
          BY <2>1, <4>2
    <3> QED
        BY <3>1, <3>2, <3>3
  <2>2. ASSUME NEW c \in BodyNumbers, NEW k \in DOMAIN line'[c], e \in ToSet(line'[c][k])
        PROVE  \E l \in DOMAIN line[c] : e \in ToSet(line[c][l])
      BY <1>12, <2>2
  <2>3. 1 \in DOMAIN line[b]
      BY <1>8
  <2> QED
      BY <1>8, <2>1, <2>2, <2>3
<1>17. CASE vain' = vain \cup ToSet(h) /\ shown' = shown
  <2>1. ToSet(h) \subseteq 1 .. emitted
      BY <1>11 DEF ToSet
  <2>2. EventsTyped'
      BY <1>1, <1>5, <1>9, <1>17, <2>1 DEF EventsTyped
  <2>3. ShownFits'
    <3>1. \A i, j \in DOMAIN shown : i < j =>
             /\ shown[i].event # shown[j].event
             /\ shown[i].body = shown[j].body => shown[i].event < shown[j].event
        BY <1>1 DEF ShownFits
    <3> QED
        BY <1>5, <1>15, <1>17, <3>1 DEF ShownFits
  <2>4. EventsFit'
      BY <1>1, <1>5, <1>16, <1>17 DEF EventsFit
  <2> QED
      BY <1>14, <2>2, <2>3, <2>4 DEF ServingInv
<1>18. CASE vain' = vain /\ shown' = shown \o g
  <2>1. PICK s : s = shown \o g
      OBVIOUS
  <2>2. PICK n : n = Len(shown)
      OBVIOUS
  <2>3. PICK z : z = Len(h)
      OBVIOUS
  <2>4. /\ shown \in Seq(Showings) /\ n \in Nat /\ DOMAIN shown = 1 .. n
        /\ z \in Nat /\ DOMAIN h = 1 .. z
      BY <1>1, <1>10, <2>2, <2>3 DEF EventsTyped
  <2>5. \A k \in 1 .. z : g[k] \in Showings /\ g[k].event = h[k] /\ g[k].body = b
      BY <1>4, <1>11, <2>4 DEF Showings
  <2>6. g \in Seq(Showings) /\ Len(g) = z
    <3>1. g = [k \in 1 .. z |-> [event |-> h[k], body |-> b]]
        BY <1>4, <2>4
    <3>2. DOMAIN g = 1 .. z
        BY <3>1
    <3>3. g \in [1 .. z -> Showings]
        BY <2>5, <3>1
    <3> QED
        BY <2>4, <3>3
  <2>7. /\ s \in Seq(Showings) /\ DOMAIN s = 1 .. n + z
        /\ \A i \in 1 .. n + z : s[i] = IF i <= n THEN shown[i] ELSE g[i - n]
    <3>1. s \in Seq(Showings) /\ Len(s) = n + z
      <4>1. shown \in Seq(Showings) /\ g \in Seq(Showings)
          BY <2>4, <2>6
      <4>2. shown \o g \in Seq(Showings) /\ Len(shown \o g) = Len(shown) + Len(g)
          BY <4>1
      <4>3. Len(s) = n + z
          BY <2>1, <2>2, <2>6, <4>2
      <4> QED
          BY <2>1, <4>2, <4>3
    <3>2. \A i \in 1 .. n + z : s[i] = IF i <= n THEN shown[i] ELSE g[i - n]
        BY <2>1, <2>2, <2>4, <2>6
    <3> QED
        BY <3>1, <3>2
  <2>8. ASSUME NEW i \in 1 .. n + z
        PROVE  \/ i \in 1 .. n /\ s[i] = shown[i]
               \/ i > n /\ i - n \in 1 .. z /\ s[i].event = h[i - n] /\ s[i].body = b
    <3>1. CASE i <= n
        BY <2>4, <2>7, <3>1
    <3>2. CASE i > n
      <4>1. i - n \in 1 .. z /\ ~(i <= n)
          BY <2>4, <3>2
      <4>2. s[i] = g[i - n]
          BY <2>7, <4>1
      <4> QED
          BY <2>5, <3>2, <4>1, <4>2
    <3> QED
        BY <2>4, <3>1, <3>2
  <2>9. \A i \in DOMAIN s : s[i].event \in 1 .. emitted
      BY <1>11, <1>15, <2>4, <2>7, <2>8
  <2>10. EventsTyped'
      BY <1>1, <1>5, <1>9, <1>18, <2>1, <2>7, <2>9 DEF EventsTyped
  <2>11. \A i, j \in 1 .. z : i < j => h[i] < h[j]
    <3>1. InOrder(h)
      <4>1. 1 \in DOMAIN line[b]
          BY <1>8
      <4> QED
          BY <1>1, <1>8, <4>1 DEF LinesFit
    <3> QED
        BY <2>4, <3>1 DEF InOrder
  <2>12. ASSUME NEW i \in DOMAIN s, NEW j \in DOMAIN s, i < j
         PROVE  /\ s[i].event # s[j].event
                /\ s[i].body = s[j].body => s[i].event < s[j].event
    <3>1. i \in 1 .. n + z /\ j \in 1 .. n + z
        BY <2>7
    <3>2. CASE j \in 1 .. n
      <4>1. i \in 1 .. n /\ s[i] = shown[i] /\ s[j] = shown[j]
        <5>1. i \in 1 .. n
            BY <2>4, <2>12, <3>1, <3>2
        <5> QED
            BY <2>4, <2>7, <3>1, <3>2, <5>1
      <4> QED
          BY <1>1, <2>4, <2>12, <3>2, <4>1 DEF ShownFits
    <3>3. CASE i \in 1 .. n /\ j > n
      <4>1. s[i] = shown[i] /\ j - n \in 1 .. z /\ s[j].event = h[j - n] /\ s[j].body = b
          BY <2>4, <2>8, <3>1, <3>3
      <4>2. h[j - n] \in ToSet(h)
          BY <2>4, <4>1 DEF ToSet
      <4>3. shown[i].event \notin ToSet(h)
            /\ (shown[i].body = b => \A k \in DOMAIN h : shown[i].event < h[k])
          BY <1>15, <2>4, <3>3
      <4> QED
          BY <2>4, <4>1, <4>2, <4>3
    <3>4. CASE i > n /\ j > n
      <4>1. /\ i - n \in 1 .. z /\ s[i].event = h[i - n]
            /\ j - n \in 1 .. z /\ s[j].event = h[j - n]
          BY <2>4, <2>8, <3>1, <3>4
      <4>2. i - n < j - n
          BY <2>4, <2>12, <3>1
      <4>3. h[i - n] < h[j - n] /\ h[i - n] \in Nat /\ h[j - n] \in Nat
          BY <1>11, <2>4, <2>11, <4>1, <4>2
      <4> QED
          BY <4>1, <4>3
    <3> QED
        BY <2>4, <2>12, <3>1, <3>2, <3>3, <3>4
  <2>13. ASSUME NEW i \in 1 .. z
         PROVE  /\ \A j \in DOMAIN pendingClientEvents : h[i] < pendingClientEvents[j]
                /\ \A c \in BodyNumbers : \A k \in DOMAIN line'[c] :
                      /\ h[i] \notin ToSet(line'[c][k])
                      /\ b = c => \A j \in DOMAIN line'[c][k] : h[i] < line'[c][k][j]
    <3>1. Before(h, pendingClientEvents)
      <4>1. 1 \in DOMAIN line[b]
          BY <1>8
      <4> QED
          BY <1>1, <1>8, <4>1 DEF LinesFit
    <3>2. h[i] \in ToSet(h)
        BY <2>4 DEF ToSet
    <3>3. ASSUME NEW c \in BodyNumbers, NEW k \in DOMAIN line'[c]
          PROVE  /\ h[i] \notin ToSet(line'[c][k])
                 /\ b = c => \A j \in DOMAIN line'[c][k] : h[i] < line'[c][k][j]
      <4>1. (c = b => Before(h, line'[c][k])) /\ ToSet(h) \cap ToSet(line'[c][k]) = {}
          BY <1>13, <3>3
      <4> QED
          BY <2>4, <3>2, <4>1 DEF Before
    <3> QED
        BY <2>4, <3>1, <3>3 DEF Before
  <2>14. ASSUME NEW i \in DOMAIN s
         PROVE  /\ \A j \in DOMAIN pendingClientEvents : s[i].event < pendingClientEvents[j]
                /\ \A c \in BodyNumbers : \A k \in DOMAIN line'[c] :
                      /\ s[i].event \notin ToSet(line'[c][k])
                      /\ s[i].body = c => \A j \in DOMAIN line'[c][k] : s[i].event < line'[c][k][j]
    <3>1. CASE i \in 1 .. n /\ s[i] = shown[i]
      <4>1. i \in DOMAIN shown
          BY <2>4, <3>1
      <4> QED
          BY <1>15, <3>1, <4>1
    <3>2. CASE i - n \in 1 .. z /\ s[i].event = h[i - n] /\ s[i].body = b
        BY <2>13, <3>2
    <3> QED
        BY <2>7, <2>8, <3>1, <3>2
  <2>15. ShownFits'
    <3>1. shown' = s /\ pendingClientEvents' = pendingClientEvents
        BY <1>5, <1>18, <2>1
    <3>2. \A i \in DOMAIN s :
             /\ \A j \in DOMAIN pendingClientEvents : s[i].event < pendingClientEvents[j]
             /\ \A c \in BodyNumbers : \A k \in DOMAIN line'[c] :
                   /\ s[i].event \notin ToSet(line'[c][k])
                   /\ s[i].body = c => \A j \in DOMAIN line'[c][k] : s[i].event < line'[c][k][j]
        BY <2>14
    <3>3. \A i, j \in DOMAIN s : i < j =>
             /\ s[i].event # s[j].event
             /\ s[i].body = s[j].body => s[i].event < s[j].event
        BY <2>12
    <3>4. \A i \in DOMAIN shown' :
             /\ \A j \in DOMAIN pendingClientEvents' : shown'[i].event < pendingClientEvents'[j]
             /\ \A c \in BodyNumbers : \A k \in DOMAIN line'[c] :
                   /\ shown'[i].event \notin ToSet(line'[c][k])
                   /\ shown'[i].body = c => \A j \in DOMAIN line'[c][k] : shown'[i].event < line'[c][k][j]
        BY <3>1, <3>2
    <3>5. \A i, j \in DOMAIN shown' : i < j =>
             /\ shown'[i].event # shown'[j].event
             /\ shown'[i].body = shown'[j].body => shown'[i].event < shown'[j].event
        BY <3>1, <3>3
    <3>6. BodyNumbers' = BodyNumbers
        BY DEF BodyNumbers
    <3> QED
        BY <3>4, <3>5 DEF ShownFits, BodyNumbers
  <2>16. \A e : (\E i \in DOMAIN s : e = s[i].event) <=>
                   (\E i \in DOMAIN shown : e = shown[i].event) \/ e \in ToSet(h)
    <3>1. ASSUME NEW i \in DOMAIN s
          PROVE  (\E k \in DOMAIN shown : s[i].event = shown[k].event) \/ s[i].event \in ToSet(h)
      <4>1. \/ i \in 1 .. n /\ s[i] = shown[i]
            \/ i - n \in 1 .. z /\ s[i].event = h[i - n]
          BY <2>7, <2>8
      <4> QED
          BY <2>4, <4>1 DEF ToSet
    <3>2. ASSUME NEW k \in DOMAIN shown PROVE k \in DOMAIN s /\ s[k].event = shown[k].event
      <4>1. k \in 1 .. n + z /\ k <= n
          BY <2>4
      <4> QED
          BY <2>7, <4>1
    <3>3. ASSUME NEW k \in 1 .. z PROVE n + k \in DOMAIN s /\ s[n + k].event = h[k]
      <4>1. n + k \in 1 .. n + z /\ ~(n + k <= n) /\ (n + k) - n = k
          BY <2>4
      <4>2. s[n + k] = g[k]
          BY <2>7, <4>1
      <4> QED
          BY <2>5, <2>7, <4>1, <4>2
    <3>4. ToSet(h) = {h[k] : k \in 1 .. z}
        BY <2>4 DEF ToSet
    <3> QED
        BY <3>1, <3>2, <3>3, <3>4
  <2>17. EventsFit'
      BY <1>1, <1>5, <1>16, <1>18, <2>1, <2>16 DEF EventsFit
  <2> QED
      BY <1>14, <2>10, <2>15, <2>17 DEF ServingInv
<1> QED
    BY <1>5, <1>17, <1>18

\* What a step does to the events.
LEMMA ServingStep ==
    ASSUME ActingInv, ServingInv, [ActionsNext]_actionVars
    PROVE  ServingInv'
<1>1. CASE UNCHANGED <<pendingClientEvents, line, emitted, shown, vain>>
    BY <1>1 DEF ServingInv, EventsTyped, LinesFit, ShownFits, EventsFit
<1>2. CASE \/ UNCHANGED actionVars \/ HandleEntityAction \/ HandleAction \/ HandlerReturns
           \/ BeginMigration \/ Destroy \/ PlayerLeaves
           \/ \E hasHandler \in BOOLEAN : ProcessInput(hasHandler)
  <2>1. UNCHANGED <<pendingClientEvents, line, emitted, shown, vain>>
      BY <1>2 DEF actionVars, HandleEntityAction, HandleAction, HandlerReturns, BeginMigration, Destroy,
         PlayerLeaves, ProcessInput, EventsAsTheyWere
  <2> QED
      BY <1>1, <2>1
<1>3. CASE CommitMigration \/ RemoveBody \/ FlushClientEvents(TRUE)
  <2>1. /\ pendingClientEvents' = << >> /\ vain' = vain \cup ToSet(pendingClientEvents)
        /\ UNCHANGED <<line, emitted, shown>>
      BY <1>3 DEF CommitMigration, RemoveBody, FlushClientEvents
  <2> QED
      BY <2>1, PendingIsLost
<1>4. CASE FlushClientEvents(FALSE)
  <2>1. bodyNumber \in BodyNumbers
      BY DEF ActingInv, QueuesTyped
  <2> QED
      BY <1>4, <2>1, FlushStep
<1>5. CASE \E b \in 0 .. MaxMoves : HandleClientEvent(b)
    BY <1>5, HearStep DEF BodyNumbers
<1>6. CASE EmitToClient
    BY <1>6, EmitStep
<1> QED
    BY <1>2, <1>3, <1>4, <1>5, <1>6 DEF ActionsNext

-----------------------------------------------------------------------------
(* Groups *)

RosterTyped ==
    /\ lives \in [MemberIds -> Nat] /\ roster \in [MemberIds -> Nat]
    /\ alive = kept /\ alive \subseteq MemberIds
    /\ here \in MemberIds \cup {Nobody} /\ inCast \in BOOLEAN /\ lost \in BOOLEAN
    /\ throughout \subseteq MemberIds

\* Whoever was in the group all along, and whose body lives, is yet to be visited
\* or has heard the broadcast.
CastFits ==
    /\ lost => inCast
    /\ \A i \in Enlisted : <<i, roster[i]>> \in enrolled
    /\ inCast /\ ~lost => throughout \subseteq toVisit \cup {h[1] : h \in hearers}
    /\ inCast => \A i \in throughout : IsValid(i)

GroupsInv == GroupsHearTheirOwn /\ RosterTyped /\ CastFits

LEMMA GroupsStart == GroupInit => GroupsInv
<1> SUFFICES ASSUME GroupInit PROVE GroupsInv
    OBVIOUS
<1>1. Enlisted = {}
    BY DEF GroupInit, Enlisted
<1>2. RosterTyped
    BY DEF GroupInit, RosterTyped
<1>3. CastFits
    BY <1>1 DEF GroupInit, CastFits
<1>4. GroupsHearTheirOwn
    BY DEF GroupInit, GroupsHearTheirOwn
<1> QED
    BY <1>2, <1>3, <1>4 DEF GroupsInv

\* An entity is made, or destroyed.
LEMMA EntityStep ==
    ASSUME GroupsInv, NEW i \in MemberIds, CreateEntity(i) \/ DestroyEntity(i)
    PROVE  GroupsInv'
<1>1. /\ GroupsHearTheirOwn /\ RosterTyped /\ CastFits
      /\ UNCHANGED <<roster, enrolled, lost, toVisit, here, inCast, casts, hearers>>
      /\ lives' \in [MemberIds -> Nat] /\ \A j \in MemberIds : lives[j] \in Nat
      /\ throughout' \subseteq throughout
    BY DEF GroupsInv, RosterTyped, CreateEntity, DestroyEntity, CastStays
<1>2. Enlisted' = Enlisted
    BY <1>1 DEF Enlisted
<1>3. RosterTyped'
    BY <1>1 DEF RosterTyped, CreateEntity, DestroyEntity
<1>4. /\ \A j \in MemberIds : lives'[j] >= lives[j] /\ (j \in alive' => lives'[j] > 0)
      /\ \A j \in throughout' : IsValid(j) => IsValid(j)'
  <2>1. CASE CreateEntity(i)
    <3>1. /\ i \notin alive /\ alive' = alive \cup {i} /\ lives' = [lives EXCEPT ![i] = @ + 1]
          /\ throughout' = throughout
        BY <1>1, <2>1 DEF CreateEntity, RosterTyped
    <3>2. lives'[i] = lives[i] + 1 /\ \A j \in MemberIds \ {i} : lives'[j] = lives[j]
        BY <1>1, <3>1 DEF RosterTyped
    <3>3. \A j \in throughout' : IsValid(j) => IsValid(j)'
        BY <1>1, <3>1, <3>2 DEF IsValid, RefersToNewest, RosterTyped
    <3> QED
        BY <1>1, <3>1, <3>2, <3>3 DEF GroupsHearTheirOwn
  <2>2. CASE DestroyEntity(i)
    <3>1. alive' = alive \ {i} /\ lives' = lives /\ throughout' = throughout \ {i}
        BY <2>2 DEF DestroyEntity
    <3> QED
        BY <1>1, <3>1 DEF GroupsHearTheirOwn, IsValid, RefersToNewest
  <2> QED
      BY <2>1, <2>2
<1>5. CastFits'
    BY <1>1, <1>2, <1>4 DEF CastFits
<1>6. GroupsHearTheirOwn'
  <2>1. \A j \in MemberIds : roster[j] <= lives'[j]
      BY <1>1, <1>4 DEF GroupsHearTheirOwn, RosterTyped
  <2> QED
      BY <1>1, <1>2, <1>4, <2>1 DEF GroupsHearTheirOwn
<1> QED
    BY <1>3, <1>5, <1>6 DEF GroupsInv

\* An entry is added.
LEMMA AddMemberStep ==
    ASSUME GroupsInv, NEW i \in MemberIds, AddMember(i)
    PROVE  GroupsInv'
<1>1. /\ GroupsHearTheirOwn /\ RosterTyped /\ CastFits /\ i \in alive /\ roster[i] = 0 /\ ~lost
      /\ roster' = [roster EXCEPT ![i] = lives[i]] /\ enrolled' = enrolled \cup {<<i, lives[i]>>}
      /\ lost' = Disturbed
      /\ UNCHANGED <<lives, alive, kept, throughout, toVisit, here, inCast, casts, hearers>>
    BY DEF GroupsInv, AddMember, RosterTyped, CastStays, Change, ScriptsRun
<1>2. /\ lives[i] \in Nat /\ lives[i] > 0 /\ roster' \in [MemberIds -> Nat]
      /\ roster'[i] = lives[i] /\ \A j \in MemberIds \ {i} : roster'[j] = roster[j]
    BY <1>1 DEF RosterTyped, GroupsHearTheirOwn
<1>3. Enlisted' = Enlisted \cup {i} /\ i \notin Enlisted
    BY <1>1, <1>2 DEF Enlisted
<1>4. RosterTyped'
    BY <1>1, <1>2 DEF RosterTyped, Disturbed
<1>5. CastFits'
  <2>1. \A j \in Enlisted' : <<j, roster'[j]>> \in enrolled'
      BY <1>1, <1>2, <1>3 DEF CastFits, Enlisted
  <2>2. inCast' => \A j \in throughout' : IsValid(j)'
      BY <1>1, <1>2 DEF CastFits, IsValid, RefersToNewest, RosterTyped
  <2> QED
      BY <1>1, <2>1, <2>2 DEF CastFits, Disturbed
<1>6. GroupsHearTheirOwn'
    BY <1>1, <1>2, <1>3 DEF GroupsHearTheirOwn, RosterTyped
<1> QED
    BY <1>4, <1>5, <1>6 DEF GroupsInv

\* Entries are taken out: one, or all whose body is gone.
LEMMA LeaveStep ==
    ASSUME GroupsInv, Cleanup \/ \E i \in MemberIds : RemoveMember(i)
    PROVE  GroupsInv'
<1>1. PICK out : /\ out \subseteq Enlisted
                 /\ \A j \in MemberIds : roster'[j] = IF j \in out THEN 0 ELSE roster[j]
                 /\ roster' \in [MemberIds -> Nat]
                 /\ toVisit' = toVisit \ out /\ throughout' = throughout \ out
                 /\ lost' = (inCast /\ here \in out)
  <2>1. CASE Cleanup
      BY <2>1 DEF Cleanup, GroupsInv, RosterTyped, Enlisted
  <2>2. ASSUME NEW i \in MemberIds, RemoveMember(i)
        PROVE  /\ {i} \subseteq Enlisted
               /\ \A j \in MemberIds : roster'[j] = IF j \in {i} THEN 0 ELSE roster[j]
               /\ roster' \in [MemberIds -> Nat]
               /\ toVisit' = toVisit \ {i} /\ throughout' = throughout \ {i}
               /\ lost' = (inCast /\ here \in {i})
      BY <2>2 DEF RemoveMember, GroupsInv, RosterTyped
  <2> QED
      BY <2>1, <2>2
<1>2. /\ GroupsHearTheirOwn /\ RosterTyped /\ CastFits /\ ~lost
      /\ UNCHANGED <<lives, alive, kept, here, inCast, casts, hearers, enrolled>>
    BY DEF GroupsInv, RemoveMember, Cleanup, Change, ScriptsRun
<1>3. Enlisted' = Enlisted \ out
    BY <1>1 DEF Enlisted
<1>4. RosterTyped'
    BY <1>1, <1>2 DEF RosterTyped
<1>5. CastFits'
  <2>1. \A j \in Enlisted' : <<j, roster'[j]>> \in enrolled'
      BY <1>1, <1>2, <1>3 DEF CastFits, Enlisted
  <2>2. inCast' => \A j \in throughout' : IsValid(j)'
      BY <1>1, <1>2 DEF CastFits, IsValid, RefersToNewest, RosterTyped
  <2> QED
      BY <1>1, <1>2, <2>1, <2>2 DEF CastFits
<1>6. GroupsHearTheirOwn'
  <2>1. \A j \in MemberIds : roster'[j] <= lives[j]
      BY <1>1, <1>2 DEF GroupsHearTheirOwn, RosterTyped
  <2> QED
      BY <1>1, <1>2, <1>3, <2>1 DEF GroupsHearTheirOwn
<1> QED
    BY <1>4, <1>5, <1>6 DEF GroupsInv

\* A broadcast begins, visits an entry, goes on, and ends.
LEMMA CastStep ==
    ASSUME GroupsInv,
           \/ Broadcast \/ HandlerOfMemberReturns \/ BroadcastEnds
           \/ \E i \in MemberIds : VisitEntry(i)
    PROVE  GroupsInv'
<1>1. /\ GroupsHearTheirOwn /\ RosterTyped /\ CastFits
      /\ UNCHANGED <<lives, alive, kept, roster, enrolled>>
    BY DEF GroupsInv, Broadcast, HandlerOfMemberReturns, BroadcastEnds, VisitEntry
<1>2. /\ Enlisted' = Enlisted /\ Enlisted \subseteq MemberIds
      /\ \A i : IsValid(i)' <=> IsValid(i)
    BY <1>1 DEF Enlisted, IsValid, RefersToNewest
<1>3. CASE Broadcast
    BY <1>1, <1>2, <1>3
       DEF Broadcast, GroupsInv, GroupsHearTheirOwn, RosterTyped, CastFits
<1>4. CASE HandlerOfMemberReturns
    BY <1>1, <1>2, <1>4
       DEF HandlerOfMemberReturns, GroupsInv, GroupsHearTheirOwn, RosterTyped, CastFits, Nobody
<1>5. CASE BroadcastEnds
    BY <1>1, <1>2, <1>5
       DEF BroadcastEnds, GroupsInv, GroupsHearTheirOwn, RosterTyped, CastFits, Nobody
<1>6. ASSUME NEW i \in MemberIds, VisitEntry(i) PROVE GroupsInv'
  <2>1. /\ inCast /\ ~lost /\ i \in toVisit /\ toVisit' = toVisit \ {i}
        /\ here' = (IF IsValid(i) THEN i ELSE Nobody)
        /\ hearers' = IF IsValid(i) THEN hearers \cup {<<i, lives[i]>>} ELSE hearers
        /\ UNCHANGED <<inCast, throughout, lost>>
      BY <1>6 DEF VisitEntry
  <2>2. IsValid(i) => <<i, lives[i]>> \in enrolled
      BY <1>1, <1>6 DEF CastFits, IsValid, RefersToNewest, Enlisted
  <2>3. RosterTyped'
      BY <1>1, <1>6, <2>1 DEF RosterTyped
  <2>4. {h[1] : h \in hearers'} = {h[1] : h \in hearers} \cup (IF IsValid(i) THEN {i} ELSE {})
    <3>1. PICK e : e = <<i, lives[i]>>
        OBVIOUS
    <3>2. e[1] = i /\ hearers' = IF IsValid(i) THEN hearers \cup {e} ELSE hearers
        BY <2>1, <3>1
    <3>3. CASE IsValid(i)
        BY <3>2, <3>3
    <3>4. CASE ~IsValid(i)
        BY <3>2, <3>4
    <3> QED
        BY <3>3, <3>4
  <2>5. CastFits'
    <3>1. throughout \subseteq toVisit' \cup {h[1] : h \in hearers'}
        BY <1>1, <2>1, <2>4 DEF CastFits
    <3> QED
        BY <1>1, <1>2, <2>1, <3>1 DEF CastFits
  <2>6. GroupsHearTheirOwn'
      BY <1>1, <1>2, <2>1, <2>2 DEF GroupsHearTheirOwn
  <2> QED
      BY <2>3, <2>5, <2>6 DEF GroupsInv
<1> QED
    BY <1>3, <1>4, <1>5, <1>6

LEMMA GroupsStep == GroupsInv /\ [GroupNext]_groupVars => GroupsInv'
<1> SUFFICES ASSUME GroupsInv, [GroupNext]_groupVars PROVE GroupsInv'
    OBVIOUS
<1>1. CASE UNCHANGED groupVars
    BY <1>1 DEF groupVars, GroupsInv, GroupsHearTheirOwn, RosterTyped, CastFits, Enlisted, IsValid,
       RefersToNewest
<1>2. CASE GroupNext
    BY <1>2, EntityStep, AddMemberStep, LeaveStep, CastStep DEF GroupNext
<1> QED
    BY <1>1, <1>2

-----------------------------------------------------------------------------
(* Metrics *)

Made == 1 .. Len(kindOf)
Samples == [entry : Made \cup {0}, amount : Nat, low : Nat, top : Nat]

MetricsTyped ==
    /\ kindOf \in Seq({"counter", "histogram"})
    /\ entryOf \in [MetricNames -> Made \cup {0}]
    /\ amount \in [Made -> Nat] /\ low \in [Made -> Nat]
    /\ top \in [Made -> Nat] /\ counted \in [Made -> Nat]
    /\ reference \in [Writers -> Made \cup {0}]
    /\ observing \in [Writers -> {NotObserving} \cup [entry : Made, isLow : BOOLEAN]]
    /\ sample \in [MetricNames -> Samples] /\ backend \in [MetricNames -> Samples]
    /\ countedBefore \in Seq(Nat) /\ Len(countedBefore) <= Len(kindOf)

\* A metric counts what returned, and a histogram what its one observer is about to
\* put into a bucket.
EntriesFit ==
    /\ \A e \in Made :
          /\ low[e] <= top[e]
          /\ kindOf[e] = "counter" => counted[e] = amount[e]
          /\ kindOf[e] = "histogram" =>
                counted[e] = top[e] /\ amount[e] = top[e] + (IF IsLocked(e) THEN 1 ELSE 0)
    /\ \A w, u \in Writers :
          ~Free(w) /\ ~Free(u) /\ observing[w].entry = observing[u].entry => w = u

\* The registry has not grown since a collection began, and nothing is sampled
\* outside of one.
CollectionFits ==
    /\ exportState = "idle" => \A n \in MetricNames : sample[n] = NoSample
    /\ exportState = "collecting" =>
          /\ Len(countedBefore) = Len(kindOf)
          /\ \A n \in toRead : n \in MetricNames /\ entryOf[n] # 0
    /\ \A n \in MetricNames : sample[n].entry <= Len(countedBefore)
    /\ \A e \in 1 .. Len(countedBefore) : countedBefore[e] <= counted[e]

MetricsInv == SamplesAreSound /\ MetricsTyped /\ EntriesFit /\ CollectionFits

LEMMA MetricsStart == MetricsInit => MetricsInv
<1> SUFFICES ASSUME MetricsInit PROVE MetricsInv
    OBVIOUS
<1>1. kindOf = << >> /\ Made = {} /\ countedBefore = << >> /\ Len(countedBefore) = 0
    BY DEF MetricsInit, Made
<1>2. NoSample \in Samples /\ NoSample.entry = 0
    BY DEF NoSample, Samples
<1>3. MetricsTyped
    BY <1>1, <1>2 DEF MetricsInit, MetricsTyped
<1>4. EntriesFit
    BY <1>1 DEF MetricsInit, EntriesFit, Free
<1>5. CollectionFits
    BY <1>1, <1>2 DEF MetricsInit, CollectionFits
<1>6. SamplesAreSound
    BY <1>2 DEF MetricsInit, SamplesAreSound, Sound, Free
<1> QED
    BY <1>3, <1>4, <1>5, <1>6 DEF MetricsInv

\* What a step that leaves the samples alone, and takes nothing back, does to them.
LEMMA SamplesStay ==
    ASSUME MetricsInv, MetricsTyped', ExportStays,
           \A e \in Made : /\ e \in Made' /\ kindOf'[e] = kindOf[e] /\ amount[e] <= amount'[e]
                           /\ counted[e] <= counted'[e],
           exportState = "collecting" => RegistryStays,
           \A w \in Writers : (~Free(w))' => kindOf'[observing'[w].entry] = "histogram"
    PROVE  SamplesAreSound' /\ CollectionFits'
<1>1. /\ MetricsTyped /\ SamplesAreSound /\ CollectionFits
      /\ sample' = sample /\ backend' = backend /\ countedBefore' = countedBefore
      /\ exportState' = exportState /\ toRead' = toRead
    BY DEF MetricsInv, ExportStays
<1>2. ASSUME NEW s \in Samples, Sound(s) PROVE Sound(s)'
  <2> SUFFICES ASSUME s.entry # 0
               PROVE  /\ s.amount <= amount'[s.entry]
                      /\ kindOf'[s.entry] = "histogram" => s.top = s.amount /\ s.low <= s.top
      BY DEF Sound
  <2>1. s.entry \in Made /\ s.amount \in Nat /\ s.entry \in Made'
      BY DEF Samples
  <2>2. amount[s.entry] \in Nat /\ amount'[s.entry] \in Nat /\ amount[s.entry] <= amount'[s.entry]
        /\ kindOf'[s.entry] = kindOf[s.entry]
      BY <1>1, <2>1 DEF MetricsTyped
  <2> QED
      BY <1>2, <2>1, <2>2 DEF Sound
<1>3. SamplesAreSound'
  <2>1. \A n \in MetricNames : sample[n] \in Samples /\ backend[n] \in Samples
      BY <1>1 DEF MetricsTyped
  <2>2. \A n \in MetricNames : Sound(sample[n])' /\ Sound(backend[n])'
    <3> SUFFICES ASSUME NEW n \in MetricNames PROVE Sound(sample[n])' /\ Sound(backend[n])'
        OBVIOUS
    <3>1. PICK s : s = sample[n]
        OBVIOUS
    <3>2. PICK b : b = backend[n]
        OBVIOUS
    <3>3. Sound(s)' /\ Sound(b)'
        BY <1>1, <1>2, <2>1, <3>1, <3>2 DEF SamplesAreSound
    <3>4. s = sample'[n] /\ b = backend'[n]
        BY <1>1, <3>1, <3>2
    <3> QED
        BY <3>3, <3>4 DEF Sound
  <2> QED
      BY <1>1, <2>2 DEF SamplesAreSound
<1>4. CollectionFits'
  <2>1. ASSUME NEW e \in 1 .. Len(countedBefore) PROVE countedBefore[e] <= counted'[e]
    <3>1. e \in Made /\ counted[e] \in Nat /\ counted'[e] \in Nat /\ countedBefore[e] \in Nat
          /\ countedBefore[e] <= counted[e] /\ counted[e] <= counted'[e]
        BY <1>1 DEF MetricsTyped, CollectionFits, Made
    <3> QED
        BY <3>1
  <2> QED
      BY <1>1, <2>1 DEF CollectionFits, RegistryStays
<1> QED
    BY <1>3, <1>4

\* A writer looks up or makes a metric.
LEMMA GetMetricStep ==
    ASSUME MetricsInv, NEW w \in Writers, NEW n \in MetricNames,
           NEW kind \in {"counter", "histogram"}, GetMetric(w, n, kind)
    PROVE  MetricsInv'
<1>1. MetricsTyped /\ ExportStays /\ exportState # "collecting" /\ observing' = observing
    BY DEF MetricsInv, GetMetric, RegistryIsFree
<1>2. CASE entryOf[n] # 0 /\ kindOf[entryOf[n]] = kind
  <2>1. /\ reference' = [reference EXCEPT ![w] = entryOf[n]] /\ UNCHANGED <<entryOf, kindOf>>
        /\ CountsStay
      BY <1>2 DEF GetMetric
  <2>2. MetricsTyped'
      BY <1>1, <2>1 DEF MetricsTyped, CountsStay, ExportStays, Made, Samples
  <2>3. EntriesFit'
      BY <1>1, <2>1 DEF MetricsInv, EntriesFit, CountsStay, Made, IsLocked, Free
  <2>4. SamplesAreSound' /\ CollectionFits'
    <3>1. \A e \in Made : /\ e \in Made' /\ kindOf'[e] = kindOf[e] /\ amount[e] <= amount'[e]
                          /\ counted[e] <= counted'[e]
        BY <1>1, <2>1 DEF MetricsTyped, CountsStay, Made
    <3>2. \A u \in Writers : (~Free(u))' => kindOf'[observing'[u].entry] = "histogram"
        BY <1>1, <2>1 DEF MetricsInv, SamplesAreSound, Free
    <3> QED
        BY <1>1, <2>2, <3>1, <3>2, SamplesStay
  <2> QED
      BY <2>2, <2>3, <2>4 DEF MetricsInv
<1>3. CASE ~ (entryOf[n] # 0 /\ kindOf[entryOf[n]] = kind)
  <2>1. PICK fresh : fresh = Len(kindOf) + 1
      OBVIOUS
  <2>2. /\ entryOf' = [entryOf EXCEPT ![n] = fresh] /\ kindOf' = Append(kindOf, kind)
        /\ reference' = [reference EXCEPT ![w] = fresh]
        /\ amount' = Append(amount, 0) /\ low' = Append(low, 0) /\ top' = Append(top, 0)
        /\ counted' = Append(counted, 0)
      BY <1>3, <2>1 DEF GetMetric
  <2>3. /\ Len(kindOf) \in Nat /\ kindOf' \in Seq({"counter", "histogram"}) /\ Len(kindOf') = fresh
        /\ Made' = Made \cup {fresh} /\ fresh \notin Made /\ fresh \in Nat /\ fresh # 0
        /\ \A e \in Made : kindOf'[e] = kindOf[e]
        /\ kindOf'[fresh] = kind
      BY <1>1, <2>1, <2>2 DEF MetricsTyped, Made
  <2>4. ASSUME NEW q \in [Made -> Nat]
        PROVE  /\ Append(q, 0) \in [Made' -> Nat] /\ Append(q, 0)[fresh] = 0
               /\ \A e \in Made : Append(q, 0)[e] = q[e]
    <3>0. Len(kindOf) \in Nat /\ DOMAIN q = 1 .. Len(kindOf)
        BY <1>1 DEF Made, MetricsTyped
    <3>1. q \in Seq(Nat) /\ Len(q) = Len(kindOf)
      <4>1. \A i \in 1 .. Len(kindOf) : q[i] \in Nat
          BY DEF Made
      <4> QED
          BY <3>0, <4>1
    <3>2. Append(q, 0) \in Seq(Nat) /\ Len(Append(q, 0)) = fresh
        BY <2>1, <3>1
    <3>3. DOMAIN Append(q, 0) = Made'
        BY <2>3, <3>2 DEF Made
    <3>4. PICK r : r = Append(q, 0)
        OBVIOUS
    <3>5. DOMAIN r = Made' /\ r[fresh] = 0 /\ \A e \in Made : r[e] = q[e]
        BY <2>1, <3>0, <3>1, <3>3, <3>4 DEF Made
    <3>6. r \in Seq(Nat)
        BY <3>2, <3>4
    <3>7. r \in [Made' -> Nat]
        BY <3>5, <3>6
    <3> QED
        BY <3>4, <3>5, <3>7
  <2>5. /\ amount' \in [Made' -> Nat] /\ low' \in [Made' -> Nat]
        /\ top' \in [Made' -> Nat] /\ counted' \in [Made' -> Nat]
        /\ amount'[fresh] = 0 /\ low'[fresh] = 0 /\ top'[fresh] = 0 /\ counted'[fresh] = 0
        /\ \A e \in Made : /\ amount'[e] = amount[e] /\ low'[e] = low[e]
                           /\ top'[e] = top[e] /\ counted'[e] = counted[e]
      BY <1>1, <2>2, <2>4 DEF MetricsTyped
  <2>6. MetricsTyped'
    <3>1. Samples \subseteq Samples'
        BY <2>3 DEF Samples
    <3>2. entryOf' \in [MetricNames -> Made' \cup {0}] /\ reference' \in [Writers -> Made' \cup {0}]
        BY <1>1, <2>2, <2>3 DEF MetricsTyped
    <3>3. observing' \in [Writers -> {NotObserving} \cup [entry : Made', isLow : BOOLEAN]]
        BY <1>1, <2>3 DEF MetricsTyped
    <3>4. Len(countedBefore) <= Len(kindOf')
        BY <1>1, <2>1, <2>3 DEF MetricsTyped
    <3> QED
        BY <1>1, <2>3, <2>5, <3>1, <3>2, <3>3, <3>4 DEF MetricsTyped, ExportStays
  <2>7. ~IsLocked(fresh)
      BY <1>1, <2>3 DEF MetricsTyped, IsLocked
  <2>8. EntriesFit'
    <3>1. \A e \in Made' : IsLocked(e)' <=> IsLocked(e)
        BY <1>1 DEF IsLocked
    <3>2. ASSUME NEW e \in Made'
          PROVE  /\ low'[e] <= top'[e]
                 /\ kindOf'[e] = "counter" => counted'[e] = amount'[e]
                 /\ kindOf'[e] = "histogram" =>
                       counted'[e] = top'[e] /\ amount'[e] = top'[e] + (IF IsLocked(e) THEN 1 ELSE 0)
      <4>1. CASE e = fresh
          BY <2>5, <2>7, <4>1
      <4>2. CASE e \in Made
          BY <2>3, <2>5, <4>2 DEF MetricsInv, EntriesFit
      <4> QED
          BY <2>3, <4>1, <4>2
    <3>3. \A v, u \in Writers :
            (~Free(v))' /\ (~Free(u))' /\ observing'[v].entry = observing'[u].entry => v = u
        BY <1>1 DEF MetricsInv, EntriesFit, Free
    <3> QED
        BY <3>1, <3>2, <3>3 DEF EntriesFit
  <2>9. SamplesAreSound' /\ CollectionFits'
    <3>1. \A e \in Made : /\ e \in Made' /\ kindOf'[e] = kindOf[e] /\ amount[e] <= amount'[e]
                          /\ counted[e] <= counted'[e]
        BY <1>1, <2>3, <2>5 DEF MetricsTyped
    <3>2. \A u \in Writers : (~Free(u))' => kindOf'[observing'[u].entry] = "histogram"
      <4> SUFFICES ASSUME NEW u \in Writers, ~Free(u)
                   PROVE  kindOf'[observing[u].entry] = "histogram"
          BY <1>1 DEF Free
      <4>1. observing[u].entry \in Made /\ kindOf[observing[u].entry] = "histogram"
          BY <1>1 DEF MetricsInv, MetricsTyped, SamplesAreSound, Free
      <4> QED
          BY <2>3, <4>1
    <3> QED
        BY <1>1, <2>6, <3>1, <3>2, SamplesStay
  <2> QED
      BY <2>6, <2>8, <2>9 DEF MetricsInv
<1> QED
    BY <1>2, <1>3

\* A counter counts.
LEMMA IncrementStep ==
    ASSUME MetricsInv, NEW w \in Writers, IncrementCounter(w)
    PROVE  MetricsInv'
<1>1. PICK e : e = reference[w]
    OBVIOUS
<1>2. /\ MetricsTyped /\ RegistryStays /\ ExportStays /\ UNCHANGED <<low, top, observing>>
      /\ e # 0 /\ kindOf[e] = "counter"
      /\ amount' = [amount EXCEPT ![e] = @ + 1] /\ counted' = [counted EXCEPT ![e] = @ + 1]
    BY <1>1 DEF MetricsInv, IncrementCounter, CanCount
<1>3. e \in Made /\ Made' = Made /\ kindOf' = kindOf
    BY <1>1, <1>2 DEF MetricsTyped, RegistryStays, Made
<1>4. /\ amount' \in [Made -> Nat] /\ counted' \in [Made -> Nat]
      /\ \A k \in Made : amount[k] <= amount'[k] /\ counted[k] <= counted'[k]
      /\ \A k \in Made \ {e} : amount'[k] = amount[k] /\ counted'[k] = counted[k]
      /\ amount'[e] = amount[e] + 1 /\ counted'[e] = counted[e] + 1
    BY <1>2, <1>3 DEF MetricsTyped
<1>5. MetricsTyped'
    BY <1>2, <1>3, <1>4 DEF MetricsTyped, RegistryStays, ExportStays, Samples
<1>6. EntriesFit'
  <2>1. ASSUME NEW k \in Made
        PROVE  /\ kindOf[k] = "counter" => counted'[k] = amount'[k]
               /\ kindOf[k] = "histogram" =>
                     counted'[k] = top[k] /\ amount'[k] = top[k] + (IF IsLocked(k) THEN 1 ELSE 0)
      BY <1>2, <1>4 DEF MetricsInv, EntriesFit
  <2> QED
      BY <1>2, <1>3, <2>1 DEF MetricsInv, EntriesFit, IsLocked, Free
<1>7. SamplesAreSound' /\ CollectionFits'
  <2>1. \A u \in Writers : (~Free(u))' => kindOf'[observing'[u].entry] = "histogram"
      BY <1>2, <1>3 DEF MetricsInv, SamplesAreSound, Free
  <2> QED
      BY <1>2, <1>3, <1>4, <1>5, <2>1, SamplesStay
<1> QED
    BY <1>5, <1>6, <1>7 DEF MetricsInv

\* A histogram takes an observation into its count.
LEMMA ObserveBeginsStep ==
    ASSUME MetricsInv, NEW w \in Writers, NEW isLow \in BOOLEAN, ObserveBegins(w, isLow)
    PROVE  MetricsInv'
<1>1. PICK e : e = reference[w]
    OBVIOUS
<1>2. /\ MetricsTyped /\ RegistryStays /\ ExportStays /\ UNCHANGED <<low, top, counted>>
      /\ e # 0 /\ kindOf[e] = "histogram" /\ ~IsLocked(e) /\ Free(w)
      /\ observing' = [observing EXCEPT ![w] = [entry |-> e, isLow |-> isLow]]
      /\ amount' = [amount EXCEPT ![e] = @ + 1]
    BY <1>1 DEF MetricsInv, ObserveBegins, CanCount
<1>3. e \in Made /\ Made' = Made /\ kindOf' = kindOf
    BY <1>1, <1>2 DEF MetricsTyped, RegistryStays, Made
<1>4. /\ amount' \in [Made -> Nat] /\ \A k \in Made : amount[k] <= amount'[k]
      /\ \A k \in Made \ {e} : amount'[k] = amount[k]
      /\ amount'[e] = amount[e] + 1
    BY <1>2, <1>3 DEF MetricsTyped
<1>5. PICK r : r = [entry |-> e, isLow |-> isLow]
    OBVIOUS
<1>6. r \in [entry : Made, isLow : BOOLEAN] /\ r.entry = e /\ r # NotObserving
    BY <1>2, <1>3, <1>5 DEF NotObserving
<1>7. /\ observing'[w] = r /\ \A u \in Writers \ {w} : observing'[u] = observing[u]
      /\ observing' \in [Writers -> {NotObserving} \cup [entry : Made, isLow : BOOLEAN]]
    BY <1>2, <1>5, <1>6 DEF MetricsTyped
<1>8. MetricsTyped'
    BY <1>2, <1>3, <1>4, <1>7 DEF MetricsTyped, RegistryStays, ExportStays, Samples
<1>9. IsLocked(e)' /\ \A k \in Made \ {e} : IsLocked(k)' <=> IsLocked(k)
  <2>1. \A u \in Writers : (~(observing'[u] = NotObserving) /\ observing'[u].entry = e) <=> u = w
      BY <1>2, <1>6, <1>7 DEF IsLocked
  <2>2. ASSUME NEW k \in Made \ {e}
        PROVE  \A u \in Writers : (~(observing'[u] = NotObserving) /\ observing'[u].entry = k)
                                  <=> (~(observing[u] = NotObserving) /\ observing[u].entry = k)
      BY <1>2, <1>6, <1>7 DEF Free
  <2> QED
      BY <2>1, <2>2 DEF IsLocked
<1>10. EntriesFit'
  <2>1. ASSUME NEW k \in Made
        PROVE  /\ low[k] <= top[k]
               /\ kindOf[k] = "counter" => counted[k] = amount'[k]
               /\ kindOf[k] = "histogram" =>
                     counted[k] = top[k] /\ amount'[k] = top[k] + (IF IsLocked(k)' THEN 1 ELSE 0)
    <3>1. /\ low[k] <= top[k] /\ (kindOf[k] = "counter" => counted[k] = amount[k])
          /\ (kindOf[k] = "histogram" =>
                 counted[k] = top[k] /\ amount[k] = top[k] + (IF IsLocked(k) THEN 1 ELSE 0))
        BY DEF MetricsInv, EntriesFit
    <3>2. top[k] \in Nat
        BY <1>2 DEF MetricsTyped
    <3>3. CASE k = e
        BY <1>2, <1>4, <1>9, <3>1, <3>2, <3>3
    <3>4. CASE k # e
        BY <1>4, <1>9, <3>1, <3>4
    <3> QED
        BY <3>3, <3>4
  <2>2. ASSUME NEW v \in Writers, NEW u \in Writers, (~Free(v))', (~Free(u))',
               observing'[v].entry = observing'[u].entry
        PROVE  v = u
    <3>1. \A t \in Writers : t # w => observing'[t].entry # e \/ Free(t)'
        BY <1>2, <1>7 DEF IsLocked, Free
    <3>2. CASE v # w /\ u # w
        BY <1>7, <2>2, <3>2 DEF MetricsInv, EntriesFit, Free
    <3> QED
        BY <1>6, <1>7, <2>2, <3>1, <3>2
  <2> QED
      BY <1>2, <1>3, <2>1, <2>2 DEF EntriesFit
<1>11. SamplesAreSound' /\ CollectionFits'
  <2>1. \A u \in Writers : (~Free(u))' => kindOf'[observing'[u].entry] = "histogram"
      BY <1>2, <1>3, <1>6, <1>7 DEF MetricsInv, SamplesAreSound, Free
  <2>2. \A k \in Made : counted[k] <= counted'[k]
      BY <1>2 DEF MetricsTyped
  <2> QED
      BY <1>2, <1>3, <1>4, <1>8, <2>1, <2>2, SamplesStay
<1> QED
    BY <1>8, <1>10, <1>11 DEF MetricsInv

\* It has put the observation into its buckets, and gives its lock back.
LEMMA ObserveEndsStep ==
    ASSUME MetricsInv, NEW w \in Writers, ObserveEnds(w)
    PROVE  MetricsInv'
<1>1. PICK e : e = observing[w].entry
    OBVIOUS
<1>2. /\ MetricsTyped /\ RegistryStays /\ ExportStays /\ amount' = amount /\ ~Free(w)
      /\ observing' = [observing EXCEPT ![w] = NotObserving]
      /\ low' = [low EXCEPT ![e] = IF observing[w].isLow THEN @ + 1 ELSE @]
      /\ top' = [top EXCEPT ![e] = @ + 1] /\ counted' = [counted EXCEPT ![e] = @ + 1]
    BY <1>1 DEF MetricsInv, ObserveEnds
<1>3. e \in Made /\ Made' = Made /\ kindOf' = kindOf /\ kindOf[e] = "histogram"
  <2>1. observing[w] \in [entry : Made, isLow : BOOLEAN]
      BY <1>2 DEF MetricsTyped, Free
  <2> QED
      BY <1>1, <1>2, <2>1 DEF RegistryStays, Made, MetricsInv, SamplesAreSound
<1>4. /\ low' \in [Made -> Nat] /\ top' \in [Made -> Nat] /\ counted' \in [Made -> Nat]
      /\ \A k \in Made : counted[k] <= counted'[k]
      /\ \A k \in Made \ {e} : low'[k] = low[k] /\ top'[k] = top[k] /\ counted'[k] = counted[k]
      /\ low'[e] \in {low[e], low[e] + 1} /\ top'[e] = top[e] + 1 /\ counted'[e] = counted[e] + 1
    BY <1>2, <1>3 DEF MetricsTyped
<1>5. /\ observing'[w] = NotObserving /\ \A u \in Writers \ {w} : observing'[u] = observing[u]
      /\ observing' \in [Writers -> {NotObserving} \cup [entry : Made, isLow : BOOLEAN]]
    BY <1>2 DEF MetricsTyped
<1>6. MetricsTyped'
    BY <1>2, <1>3, <1>4, <1>5 DEF MetricsTyped, RegistryStays, ExportStays, Samples
<1>7. IsLocked(e) /\ ~IsLocked(e)' /\ \A k \in Made \ {e} : IsLocked(k)' <=> IsLocked(k)
  <2>1. IsLocked(e)
      BY <1>1, <1>2 DEF IsLocked, Free
  <2>2. \A u \in Writers : ~(observing[u] = NotObserving) /\ observing[u].entry = e => u = w
      BY <1>1, <1>2 DEF MetricsInv, EntriesFit, Free
  <2>3. ~IsLocked(e)'
      BY <1>5, <2>2 DEF IsLocked
  <2>4. ASSUME NEW k \in Made \ {e}
        PROVE  \A u \in Writers : (~(observing'[u] = NotObserving) /\ observing'[u].entry = k)
                                  <=> (~(observing[u] = NotObserving) /\ observing[u].entry = k)
      BY <1>1, <1>5
  <2> QED
      BY <2>1, <2>3, <2>4 DEF IsLocked
<1>8. EntriesFit'
  <2>1. ASSUME NEW k \in Made
        PROVE  /\ low'[k] <= top'[k]
               /\ kindOf[k] = "counter" => counted'[k] = amount[k]
               /\ kindOf[k] = "histogram" =>
                     counted'[k] = top'[k] /\ amount[k] = top'[k] + (IF IsLocked(k)' THEN 1 ELSE 0)
    <3>1. /\ low[k] <= top[k] /\ (kindOf[k] = "counter" => counted[k] = amount[k])
          /\ (kindOf[k] = "histogram" =>
                 counted[k] = top[k] /\ amount[k] = top[k] + (IF IsLocked(k) THEN 1 ELSE 0))
        BY DEF MetricsInv, EntriesFit
    <3>2. top[k] \in Nat /\ low[k] \in Nat /\ counted[k] \in Nat
        BY <1>2 DEF MetricsTyped
    <3>3. CASE k = e
        BY <1>3, <1>4, <1>7, <3>1, <3>2, <3>3
    <3>4. CASE k # e
        BY <1>4, <1>7, <3>1, <3>4
    <3> QED
        BY <3>3, <3>4
  <2>2. \A v, u \in Writers :
            (~Free(v))' /\ (~Free(u))' /\ observing'[v].entry = observing'[u].entry => v = u
      BY <1>5 DEF MetricsInv, EntriesFit, Free
  <2> QED
      BY <1>2, <1>3, <2>1, <2>2 DEF EntriesFit
<1>9. SamplesAreSound' /\ CollectionFits'
  <2>1. \A u \in Writers : (~Free(u))' => kindOf'[observing'[u].entry] = "histogram"
      BY <1>3, <1>5 DEF MetricsInv, SamplesAreSound, Free
  <2>2. \A k \in Made : amount[k] <= amount'[k]
      BY <1>2 DEF MetricsTyped
  <2> QED
      BY <1>2, <1>3, <1>4, <1>6, <2>1, <2>2, SamplesStay
<1> QED
    BY <1>6, <1>8, <1>9 DEF MetricsInv

\* A collection begins, reads a metric, ends, and is posted.
LEMMA CollectionStep ==
    ASSUME MetricsInv,
           \/ BeginCollect \/ CollectEnds
           \/ \E n \in MetricNames : ReadMetric(n)
           \/ \E arrived \in BOOLEAN : PostMetrics(arrived)
    PROVE  MetricsInv'
<1>1. /\ MetricsTyped /\ RegistryStays /\ CountsStay /\ observing' = observing
      /\ SamplesAreSound /\ EntriesFit /\ CollectionFits
    BY DEF MetricsInv, BeginCollect, CollectEnds, ReadMetric, PostMetrics
<1>2. /\ Made' = Made /\ kindOf' = kindOf /\ entryOf' = entryOf /\ reference' = reference
      /\ amount' = amount /\ low' = low /\ top' = top /\ counted' = counted
    BY <1>1 DEF RegistryStays, CountsStay, Made
<1>3. EntriesFit'
    BY <1>1, <1>2 DEF EntriesFit, IsLocked, Free
<1>4. \A w \in Writers : (~Free(w))' => kindOf'[observing'[w].entry] = "histogram"
    BY <1>1, <1>2 DEF SamplesAreSound, Free
<1>5. \A n \in MetricNames : Sound(sample[n]) /\ Sound(backend[n])
    BY <1>1 DEF SamplesAreSound
<1>6. NoSample \in Samples /\ NoSample.entry = 0 /\ Sound(NoSample)
    BY DEF NoSample, Samples, Sound
<1>7. CASE BeginCollect
  <2>1. /\ exportState = "idle" /\ exportState' = "collecting"
        /\ toRead' = {n \in MetricNames : entryOf[n] # 0} /\ countedBefore' = counted
        /\ sample' = sample /\ backend' = backend
        /\ \A n \in MetricNames : sample[n] = NoSample
      BY <1>1, <1>7 DEF BeginCollect, CollectionFits
  <2>2. counted \in Seq(Nat) /\ Len(counted) = Len(kindOf) /\ Len(kindOf) \in Nat
    <3>1. Len(kindOf) \in Nat /\ counted \in [1 .. Len(kindOf) -> Nat]
        BY <1>1 DEF MetricsTyped, Made
    <3> QED
        BY <3>1
  <2>3. MetricsTyped'
      BY <1>1, <1>2, <2>1, <2>2 DEF MetricsTyped, Samples
  <2>4. CollectionFits'
    <3>1. \A e \in 1 .. Len(counted) : counted[e] <= counted[e]
        BY <2>2
    <3> QED
        BY <1>2, <1>6, <2>1, <2>2, <3>1 DEF CollectionFits
  <2>5. SamplesAreSound'
    <3> \A n \in MetricNames : sample'[n].entry = 0
        BY <1>6, <2>1
    <3> QED
        BY <1>2, <1>4, <1>5, <2>1 DEF SamplesAreSound, Sound
  <2> QED
      BY <1>3, <2>3, <2>4, <2>5 DEF MetricsInv
<1>8. CASE CollectEnds
  <2>1. /\ exportState' = "posting" /\ UNCHANGED <<toRead, sample, backend, countedBefore>>
      BY <1>8 DEF CollectEnds
  <2>2. MetricsTyped'
      BY <1>1, <1>2, <2>1 DEF MetricsTyped, Samples
  <2>3. CollectionFits'
      BY <1>1, <1>2, <2>1 DEF CollectionFits
  <2>4. SamplesAreSound'
      BY <1>1, <1>2, <1>4, <2>1 DEF SamplesAreSound, Sound, Free
  <2> QED
      BY <1>3, <2>2, <2>3, <2>4 DEF MetricsInv
<1>9. ASSUME NEW n \in MetricNames, ReadMetric(n) PROVE MetricsInv'
  <2>1. PICK e : e = entryOf[n]
      OBVIOUS
  <2>2. PICK s : s = [entry |-> e, amount |-> amount[e], low |-> low[e], top |-> top[e]]
      OBVIOUS
  <2>3. /\ exportState = "collecting" /\ n \in toRead
        /\ (kindOf[e] = "histogram" => ~IsLocked(e))
        /\ sample' = [sample EXCEPT ![n] = s] /\ toRead' = toRead \ {n}
        /\ UNCHANGED <<exportState, backend, countedBefore>>
      BY <1>9, <2>1, <2>2 DEF ReadMetric, Snapshots
  <2>4. e \in Made /\ e # 0 /\ Len(countedBefore) = Len(kindOf)
      BY <1>1, <2>1, <2>3 DEF MetricsTyped, CollectionFits
  <2>5. /\ s.entry = e /\ s.amount = amount[e] /\ s.low = low[e] /\ s.top = top[e]
        /\ amount[e] \in Nat /\ low[e] \in Nat /\ top[e] \in Nat /\ s \in Samples
      BY <1>1, <2>2, <2>4 DEF MetricsTyped, Samples
  <2>6. kindOf[e] = "histogram" => top[e] = amount[e] /\ low[e] <= top[e]
      BY <1>1, <2>3, <2>4, <2>5 DEF EntriesFit
  <2>7. Sound(s)
      BY <2>5, <2>6 DEF Sound
  <2>8. /\ sample'[n] = s /\ \A m \in MetricNames \ {n} : sample'[m] = sample[m]
        /\ sample' \in [MetricNames -> Samples]
      BY <1>1, <2>3, <2>5 DEF MetricsTyped
  <2>9. countedBefore[e] <= amount[e]
    <3>1. counted[e] <= amount[e]
      <4>1. kindOf[e] \in {"counter", "histogram"}
          BY <1>1, <2>4 DEF MetricsTyped, Made
      <4>2. (kindOf[e] = "counter" => counted[e] = amount[e])
            /\ (kindOf[e] = "histogram" => counted[e] = top[e])
          BY <1>1, <2>4 DEF EntriesFit
      <4> QED
          BY <2>5, <2>6, <4>1, <4>2
    <3>2. e \in 1 .. Len(countedBefore) /\ countedBefore[e] \in Nat /\ counted[e] \in Nat
      <4>1. e \in 1 .. Len(countedBefore)
          BY <2>4 DEF Made
      <4>2. countedBefore \in Seq(Nat) /\ counted \in [Made -> Nat]
          BY <1>1 DEF MetricsTyped
      <4> QED
          BY <2>4, <4>1, <4>2
    <3>3. countedBefore[e] <= counted[e]
        BY <1>1, <3>2 DEF CollectionFits
    <3> QED
        BY <2>5, <3>1, <3>2, <3>3
  <2>10. MetricsTyped'
      BY <1>1, <1>2, <2>3, <2>8 DEF MetricsTyped, Samples
  <2>11. CollectionFits'
    <3>1. e <= Len(countedBefore)
        BY <1>1, <2>4 DEF MetricsTyped, Made
    <3> QED
        BY <1>1, <1>2, <2>3, <2>5, <2>8, <3>1 DEF CollectionFits
  <2>12. SamplesAreSound'
    <3>1. ASSUME NEW m \in MetricNames
          PROVE  /\ Sound(sample'[m]) /\ Sound(backend[m])
                 /\ sample'[m].entry # 0 => countedBefore[sample'[m].entry] <= sample'[m].amount
                 /\ sample'[m].entry # 0 /\ sample'[m].entry = backend[m].entry =>
                       backend[m].amount <= sample'[m].amount
      <4>1. CASE m = n
        <5>1. Sound(backend[n])
            BY <1>1 DEF SamplesAreSound
        <5> QED
            BY <2>4, <2>5, <2>7, <2>8, <2>9, <4>1, <5>1 DEF Sound
      <4>2. CASE m # n
          BY <1>1, <2>8, <4>2 DEF SamplesAreSound
      <4> QED
          BY <4>1, <4>2
    <3> QED
        BY <1>2, <1>4, <2>3, <3>1 DEF SamplesAreSound, Sound
  <2> QED
      BY <1>3, <2>10, <2>11, <2>12 DEF MetricsInv
<1>10. ASSUME NEW arrived \in BOOLEAN, PostMetrics(arrived) PROVE MetricsInv'
  <2>1. /\ exportState' = "idle" /\ toRead' = toRead /\ countedBefore' = << >>
        /\ sample' = [n \in MetricNames |-> NoSample]
        /\ backend' = IF arrived
                      THEN [n \in MetricNames |-> IF sample[n] = NoSample THEN backend[n] ELSE sample[n]]
                      ELSE backend
      BY <1>10 DEF PostMetrics
  <2>2. /\ backend' \in [MetricNames -> Samples]
        /\ \A n \in MetricNames : backend'[n] = sample[n] \/ backend'[n] = backend[n]
      BY <1>1, <2>1 DEF MetricsTyped
  <2>3. /\ \A n \in MetricNames : sample'[n] = NoSample
        /\ sample' \in [MetricNames -> Samples]
      BY <1>6, <2>1
  <2>4. countedBefore' \in Seq(Nat) /\ Len(countedBefore') = 0 /\ Len(kindOf) \in Nat
      BY <1>1, <2>1 DEF MetricsTyped
  <2>5. MetricsTyped'
    <3>1. Samples' = Samples /\ Len(countedBefore') <= Len(kindOf')
        BY <1>2, <2>4 DEF Samples
    <3> QED
        BY <1>1, <1>2, <2>2, <2>3, <2>4, <3>1 DEF MetricsTyped
  <2>6. CollectionFits'
      BY <1>6, <2>1, <2>3, <2>4 DEF CollectionFits
  <2>7. SamplesAreSound'
    <3>1. \A n \in MetricNames : Sound(sample'[n]) /\ Sound(backend'[n])
        BY <1>1, <1>6, <2>2, <2>3 DEF SamplesAreSound
    <3>2. \A n \in MetricNames : sample'[n].entry = 0
        BY <1>6, <2>3
    <3> QED
        BY <1>2, <1>4, <3>1, <3>2 DEF SamplesAreSound, Sound
  <2> QED
      BY <1>3, <2>5, <2>6, <2>7 DEF MetricsInv
<1> QED
    BY <1>7, <1>8, <1>9, <1>10

LEMMA MetricsStep == MetricsInv /\ [MetricsNext]_metricVars => MetricsInv'
<1> SUFFICES ASSUME MetricsInv, [MetricsNext]_metricVars PROVE MetricsInv'
    OBVIOUS
<1>1. CASE UNCHANGED metricVars
    BY <1>1 DEF metricVars, MetricsInv, MetricsTyped, EntriesFit, CollectionFits, SamplesAreSound,
       Made, Samples, Sound, IsLocked, Free
<1>2. CASE MetricsNext
    BY <1>2, GetMetricStep, IncrementStep, ObserveBeginsStep, ObserveEndsStep, CollectionStep
       DEF MetricsNext
<1> QED
    BY <1>1, <1>2

-----------------------------------------------------------------------------
(* All of them *)

\* A facility that does nothing keeps what it kept.
LEMMA StayingKeeps ==
    /\ SpansInv /\ UNCHANGED spanVars => SpansInv'
    /\ BotsInv /\ UNCHANGED botVars => BotsInv'
    /\ StatesInv /\ UNCHANGED machineVars => StatesInv'
<1>1. ASSUME SpansInv, UNCHANGED spanVars PROVE SpansInv'
  <2>1. SpansTyped' /\ WorkerFits'
      BY <1>1 DEF spanVars, SpansInv, SpansTyped, WorkerFits, Attempts, SpanScopes, NoSpan
  <2>2. SpansOwned /\ scope' = scope /\ spanCount' = spanCount /\ queue' = queue /\ batch' = batch
        /\ exportedOk' = exportedOk /\ exportFailed' = exportFailed
      BY <1>1 DEF spanVars, SpansInv
  <2>3. SpansOwned'
      BY <2>2 DEF SpansOwned, Taken, Doing
  <2>4. HostHearsEverySpan'
      BY <1>1 DEF spanVars, SpansInv, HostHearsEverySpan, SpanTypeOK, InFlight
  <2> QED
      BY <2>1, <2>3, <2>4 DEF SpansInv
<1>2. ASSUME BotsInv, UNCHANGED botVars PROVE BotsInv'
    BY <1>2 DEF botVars, BotsInv, RetriesAreCounted, BotTypeOK
<1>3. ASSUME StatesInv, UNCHANGED machineVars PROVE StatesInv'
    BY <1>3 DEF machineVars, StatesInv, HooksKnowTheState
<1> QED
    BY <1>1, <1>2, <1>3

Foci == {"wheel", "loop", "movement", "spans", "rate", "topology",
         "versions", "bots", "tree", "states", "actions", "groups", "metrics"}

\* The invariant of the facility that the behaviour follows.
BooksInv ==
    /\ focus \in Foci
    /\ focus = "spans" => SpansInv
    /\ focus = "rate" => RateInv
    /\ focus = "topology" => TopologyInv
    /\ focus = "versions" => VersionsInv
    /\ focus = "bots" => BotsInv
    /\ focus = "states" => StatesInv
    /\ focus = "actions" => ActingInv /\ ServingInv
    /\ focus = "metrics" => MetricsInv
    /\ focus = "groups" => GroupsInv

\* What is kept is part of what each facility keeps.
LEMMA BooksAreKeptWhenFit == BooksInv => BooksAreKept
<1> SUFFICES ASSUME BooksInv PROVE BooksAreKept
    OBVIOUS
<1>1. focus = "spans" => HostHearsEverySpan
    BY DEF BooksInv, SpansInv
<1>3. focus = "topology" => PrimedBeforePromoted
    BY DEF BooksInv, TopologyInv
<1>4. focus = "versions" => StoresMatchHistory
    BY DEF BooksInv, VersionsInv
<1>5. focus = "bots" => RetriesAreCounted
    BY DEF BooksInv, BotsInv
<1>6. focus = "states" => HooksKnowTheState
    BY DEF BooksInv, StatesInv
<1>7. focus = "actions" => PlayersAreServed
    BY ServedWhenFit DEF BooksInv
<1>8. focus = "metrics" => SamplesAreSound
    BY DEF BooksInv, MetricsInv
<1>9. focus = "groups" => GroupsHearTheirOwn
    BY DEF BooksInv, GroupsInv
<1> QED
    BY <1>1, <1>3, <1>4, <1>5, <1>6, <1>7, <1>8, <1>9 DEF BooksAreKept

\* Every facility begins with its books in order.
LEMMA BooksStart == Init => BooksInv
<1> SUFFICES ASSUME Init PROVE BooksInv
    OBVIOUS
<1>1. /\ focus \in Foci
      /\ focus = "spans" => SpanInit
      /\ focus = "rate" => RateInit
      /\ focus = "topology" => TopologyInit
      /\ focus = "versions" => VersionInit
      /\ focus = "bots" => BotInit
      /\ focus = "states" => MachineInit
      /\ focus = "actions" => ActionsInit
      /\ focus = "metrics" => MetricsInit
      /\ focus = "groups" => GroupInit
    BY DEF Init, Foci
<1> QED
    BY <1>1, SpansStart, RateStart, TopologyStart, VersionsStart, BotsStart, StatesStart, ActionsStart,
       MetricsStart, GroupsStart DEF BooksInv

\* A step is one of the facility in focus, or leaves its variables alone.
LEMMA BooksStep == BooksInv /\ [Next]_servicesVars => BooksInv'
<1> SUFFICES ASSUME BooksInv, [Next]_servicesVars PROVE BooksInv'
    OBVIOUS
<1>1. /\ focus' = focus
      /\ focus = "spans" => [SpanNext]_spanVars
      /\ focus = "rate" => [RateNext]_rateVars
      /\ focus = "topology" => [TopologyNext]_topologyVars
      /\ focus = "versions" => [VersionNext]_versionVars
      /\ focus = "bots" => [BotNext]_botVars
      /\ focus = "states" => [MachineNext]_machineVars
      /\ focus = "actions" => [ActionsNext]_actionVars
      /\ focus = "metrics" => [MetricsNext]_metricVars
      /\ focus = "groups" => [GroupNext]_groupVars
    BY DEF Next, servicesVars
<1>2. focus = "spans" => SpansInv'
    BY <1>1, SpansStep, StayingKeeps DEF BooksInv
<1>3. focus = "rate" => RateInv'
    BY <1>1, RateStep DEF BooksInv
<1>4. focus = "topology" => TopologyInv'
    BY <1>1, TopologyStep DEF BooksInv
<1>5. focus = "versions" => VersionsInv'
    BY <1>1, VersionsStep DEF BooksInv
<1>6. focus = "bots" => BotsInv'
    BY <1>1, BotsStep, StayingKeeps DEF BooksInv
<1>7. focus = "states" => StatesInv'
    BY <1>1, StatesStep, StayingKeeps DEF BooksInv
<1>8. focus = "actions" => (ActingInv /\ ServingInv)'
    BY <1>1, ActingStep, ServingStep DEF BooksInv
<1>9. focus = "metrics" => MetricsInv'
    BY <1>1, MetricsStep DEF BooksInv
<1>10. focus = "groups" => GroupsInv'
    BY <1>1, GroupsStep DEF BooksInv
<1> QED
    BY <1>1, <1>2, <1>3, <1>4, <1>5, <1>6, <1>7, <1>8, <1>9, <1>10 DEF BooksInv, Foci

\* Whatever the numbers of spans, processes, versions, retries, states, moves,
\* members and metrics: the host hears of every span that is not in flight or lost at
\* shutdown, no backup is promoted that was not primed, the stores
\* are what the history says, retries are counted, and hooks, players and groups hear
\* what is theirs.
THEOREM BooksStayKept == Spec => []BooksAreKept
<1>1. Init => BooksInv
    BY BooksStart
<1>2. BooksInv /\ [Next]_servicesVars => BooksInv'
    BY BooksStep
<1>3. BooksInv => BooksAreKept
    BY BooksAreKeptWhenFit
<1> QED
    BY <1>1, <1>2, <1>3, PTL DEF Spec

\* Whatever the number of callers, the capacity, the rate and the digits of the row:
\* callers get, in any stretch of time, no more than a full bucket, what that time
\* refills and what rounding up added to the row meanwhile, even when the lock lapses
\* inside a call; and rounding adds nothing to a bucket of fewer units than Precision.
THEOREM RatesStayKept == Spec => []RatesAreKept
<1>1. Init => BooksInv
    BY BooksStart
<1>2. BooksInv /\ [Next]_servicesVars => BooksInv'
    BY BooksStep
<1>3. BooksInv => RatesAreKept
    BY DEF BooksInv, RateInv, RatesAreKept
<1> QED
    BY <1>1, <1>2, <1>3, PTL DEF Spec

-----------------------------------------------------------------------------
(* Movement *)

MoveTyped ==
    /\ position \in Positions /\ velocity \in {-Speed, 0, Speed}
    /\ order \in Seq(Ids) /\ left \in Seq(Ids) /\ IsInjective(order) /\ IsInjective(left)
    /\ nextId \in 1 .. MaxControllers + 1
    /\ moving \in {"idle", "ticking", "callback", "crashed"}
    /\ ended \in [Ids -> {0, 1}]

\* A tick visits who is active; between ticks nobody is left to visit or erase; who
\* is active has not ended, and who was not added has neither begun nor ended.
VisitsFit ==
    /\ velocity # 0 => Active # {}
    /\ ToSet(left) \subseteq Active
    /\ Managed \cup inactive \subseteq 1 .. nextId - 1
    /\ moving = "idle" => left = << >> /\ inactive = {}
    /\ \A c \in Ids : c \in Active \/ c >= nextId => ended[c] = 0

MoveInv == MoveTyped /\ VisitsFit

LEMMA MovesWhenFit == MoveInv => MovesUnderControl
<1> SUFFICES ASSUME MoveInv PROVE MovesUnderControl
    OBVIOUS
<1>1. Managed \subseteq Ids /\ ToSet(left) \subseteq Ids
    BY DEF MoveInv, MoveTyped, Managed, ToSet
<1>2. inactive \subseteq Ids
    BY MoveAssumption DEF MoveInv, MoveTyped, VisitsFit, Ids
<1> QED
    BY <1>1, <1>2 DEF MoveInv, MoveTyped, VisitsFit, MovesUnderControl, MoveTypeOK

LEMMA MoveStart == MoveInit => MoveInv
<1> SUFFICES ASSUME MoveInit PROVE MoveInv
    OBVIOUS
<1>1. ToSet(<< >>) = {} /\ IsInjective(<< >>)
    BY DEF ToSet, IsInjective
<1>2. /\ order = << >> /\ left = << >> /\ inactive = {} /\ nextId = 1 /\ velocity = 0 /\ position = 0
      /\ ended = [c \in Ids |-> 0] /\ moving = "idle"
    BY DEF MoveInit
<1>3. Managed = {} /\ Active = {}
    BY <1>1, <1>2 DEF Managed, Active
<1>4. << >> \in Seq(Ids) /\ 1 \in 1 .. MaxControllers + 1 /\ 0 \in Positions
    BY MoveAssumption
<1> QED
    BY <1>1, <1>2, <1>3, <1>4 DEF MoveInv, MoveTyped, VisitsFit

\* A controller is added: it is done at once, or is one of the active ones.
LEMMA AddKeeps ==
    ASSUME MoveInv, NEW goal, Add(goal)
    PROVE  MoveInv'
<1>1. /\ moving \in {"idle", "callback"} /\ nextId \in Ids /\ nextId' = nextId + 1
      /\ position' = position /\ inactive' = inactive /\ moving' = moving
    BY DEF Add, MayAct
<1>2. /\ nextId' \in 1 .. MaxControllers + 1
      /\ \A c \in Ids : c >= nextId' => c >= nextId /\ c # nextId
      /\ 1 .. nextId - 1 \subseteq 1 .. nextId' - 1 /\ nextId \in 1 .. nextId' - 1
      /\ nextId \notin 1 .. nextId - 1
    BY <1>1, MoveAssumption DEF Ids
<1>3. MoveTyped /\ VisitsFit
    BY DEF MoveInv
<1>4. nextId \notin Managed /\ nextId \notin inactive /\ ended[nextId] = 0
    BY <1>1, <1>2, <1>3, MoveAssumption DEF VisitsFit, Ids
<1>5. CASE Done(goal)
  <2>1. /\ velocity' = velocity /\ order' = order /\ left' = left
        /\ ended' = [c \in Ids |-> ended[c] + (IF c \in {nextId} THEN 1 ELSE 0)]
      BY <1>5 DEF Add, Counted
  <2>2. \A c \in Ids : ended'[c] = IF c = nextId THEN 1 ELSE ended[c]
      BY <1>3, <1>4, <2>1 DEF MoveTyped
  <2>3. ended' \in [Ids -> {0, 1}]
      BY <1>3, <2>1, <2>2 DEF MoveTyped
  <2>4. Managed' = Managed /\ Active' = Active
      BY <1>1, <2>1 DEF Managed, Active
  <2>5. MoveTyped'
      BY <1>1, <1>2, <1>3, <2>1, <2>3 DEF MoveTyped
  <2>6. \A c \in Ids : c \in Active \/ c >= nextId' => ended'[c] = 0
      BY <1>2, <1>3, <1>4, <2>2 DEF VisitsFit, Active
  <2>7. VisitsFit'
      BY <1>1, <1>2, <1>3, <2>1, <2>4, <2>6 DEF VisitsFit
  <2> QED
      BY <2>5, <2>7 DEF MoveInv
<1>6. CASE ~Done(goal)
  <2>1. /\ velocity' = Toward(goal) /\ ended' = ended
        /\ \E k \in 1 .. Len(order) + 1 : order' = InsertAt(order, k, nextId)
      BY <1>6 DEF Add
  <2>2. velocity' \in {-Speed, 0, Speed}
      BY <2>1 DEF Toward
  <2>3. order' \in Seq(Ids) /\ IsInjective(order') /\ ToSet(order') = Managed \cup {nextId}
    <3>1. order \in Seq(Ids) /\ IsInjective(order) /\ nextId \notin ToSet(order)
        BY <1>3, <1>4 DEF MoveTyped, Managed
    <3> QED
        BY <1>1, <2>1, <3>1, InsertAtIs DEF Managed
  <2>4. Managed' = Managed \cup {nextId} /\ Active' = Active \cup {nextId}
      BY <1>1, <1>4, <2>3 DEF Managed, Active
  <2>5. left' \in Seq(Ids) /\ IsInjective(left') /\ ToSet(left') \subseteq Active'
        /\ (moving = "idle" => left' = left)
    <3>1. CASE moving = "idle"
      <4>1. left' = left
          BY <1>6, <3>1 DEF Add
      <4> QED
          BY <1>3, <2>4, <4>1 DEF MoveTyped, VisitsFit
    <3>2. CASE moving # "idle"
      <4>1. PICK visit \in SUBSET (Active \cup {nextId}) : left' = Others(order', ToSet(order') \ visit)
          BY <1>6, <3>2 DEF Add
      <4>2. /\ left' \in Seq(Ids) /\ IsInjective(left')
            /\ ToSet(left') = ToSet(order') \ (ToSet(order') \ visit)
          BY <2>3, <4>1, OthersAre
      <4> QED
          BY <2>4, <3>2, <4>2
    <3> QED
        BY <3>1, <3>2
  <2>6. MoveTyped'
      BY <1>1, <1>2, <1>3, <2>1, <2>2, <2>3, <2>5 DEF MoveTyped
  <2>7. \A c \in Ids : c \in Active' \/ c >= nextId' => ended'[c] = 0
      BY <1>2, <1>3, <1>4, <2>1, <2>4 DEF VisitsFit
  <2>8. VisitsFit'
      BY <1>1, <1>2, <1>3, <2>4, <2>5, <2>7 DEF VisitsFit
  <2> QED
      BY <2>6, <2>8 DEF MoveInv
<1> QED
    BY <1>5, <1>6

\* Controllers are removed, one or all of them.
LEMMA RemoveKeeps ==
    ASSUME MoveInv, (\E c \in Ids : RemoveActive(c) \/ RemoveCompleted(c)) \/ Clear
    PROVE  MoveInv'
<1>1. MoveTyped /\ VisitsFit
    BY DEF MoveInv
<1>2. /\ order \in Seq(Ids) /\ left \in Seq(Ids) /\ IsInjective(order) /\ IsInjective(left)
      /\ ended \in [Ids -> {0, 1}]
    BY <1>1 DEF MoveTyped
<1>3. ASSUME NEW c \in Ids, RemoveActive(c) PROVE MoveInv'
  <2>1. /\ c \in Active /\ velocity' = 0 /\ order' = Others(order, {c}) /\ left' = Others(left, {c})
        /\ ended' = [d \in Ids |-> ended[d] + (IF d \in {c} THEN 1 ELSE 0)]
        /\ UNCHANGED <<position, inactive, nextId, moving>>
      BY <1>3 DEF RemoveActive, DroppedFrom, Counted
  <2>2. order' \in Seq(Ids) /\ IsInjective(order') /\ ToSet(order') = Managed \ {c}
      BY <1>2, <2>1, OthersAre DEF Managed
  <2>3. left' \in Seq(Ids) /\ IsInjective(left') /\ ToSet(left') = ToSet(left) \ {c}
      BY <1>2, <2>1, OthersAre
  <2>4. Managed' = Managed \ {c} /\ Active' = Active \ {c}
      BY <2>1, <2>2 DEF Managed, Active
  <2>5. \A d \in Ids : ended'[d] = IF d = c THEN ended[c] + 1 ELSE ended[d]
      BY <1>2, <2>1
  <2>6. ended[c] = 0 /\ c < nextId
      BY <1>1, <2>1, MoveAssumption DEF VisitsFit, Active, Ids, MoveTyped
  <2>7. ended' \in [Ids -> {0, 1}]
      BY <1>2, <2>1, <2>5, <2>6
  <2>8. MoveTyped'
      BY <1>1, <2>1, <2>2, <2>3, <2>7 DEF MoveTyped
  <2>9. \A d \in Ids : d \in Active' \/ d >= nextId => ended'[d] = 0
      BY <1>1, <2>4, <2>5, <2>6, MoveAssumption DEF VisitsFit, Ids, MoveTyped
  <2>10. moving' = "idle" => left' = << >>
    <3>1. ASSUME moving = "idle" PROVE ToSet(left') = {}
        BY <1>1, <2>3, <3>1 DEF VisitsFit, ToSet
    <3>2. ASSUME ToSet(left') = {} PROVE left' = << >>
      <4>1. Len(left') = 0
          BY <2>3, <3>2 DEF ToSet
      <4> QED
          BY <2>3, <4>1
    <3> QED
        BY <2>1, <3>1, <3>2
  <2>11. VisitsFit'
      BY <1>1, <2>1, <2>3, <2>4, <2>9, <2>10 DEF VisitsFit
  <2> QED
      BY <2>8, <2>11 DEF MoveInv
<1>4. ASSUME NEW c \in Ids, RemoveCompleted(c) PROVE MoveInv'
  <2>1. /\ moving \in {"idle", "callback"} /\ c \in Managed \cap inactive
        /\ order' = Others(order, {c}) /\ inactive' = inactive \ {c}
        /\ moving' = "crashed" \/ moving' = moving
        /\ UNCHANGED <<position, velocity, nextId, left, ended>>
      BY <1>4 DEF RemoveCompleted, MayAct, DroppedFrom
  <2>2. order' \in Seq(Ids) /\ IsInjective(order') /\ ToSet(order') = Managed \ {c}
      BY <1>2, <2>1, OthersAre DEF Managed
  <2>3. Managed' = Managed \ {c} /\ Active' = Active
      BY <2>1, <2>2 DEF Managed, Active
  <2>4. MoveTyped'
      BY <1>1, <2>1, <2>2 DEF MoveTyped
  <2>5. VisitsFit'
      BY <1>1, <2>1, <2>3 DEF VisitsFit
  <2> QED
      BY <2>4, <2>5 DEF MoveInv
<1>5. ASSUME Clear PROVE MoveInv'
  <2>1. /\ velocity' = (IF Active = {} THEN velocity ELSE 0)
        /\ order' = << >> /\ left' = << >> /\ inactive' = {} /\ moving' \in {"crashed", moving}
        /\ ended' = [d \in Ids |-> ended[d] + (IF d \in Active THEN 1 ELSE 0)]
        /\ UNCHANGED <<position, nextId>>
      BY <1>5 DEF Clear, Counted
  <2>2. velocity' = 0
      BY <1>1, <2>1 DEF VisitsFit
  <2>3. ToSet(<< >>) = {} /\ IsInjective(<< >>) /\ << >> \in Seq(Ids)
      BY DEF ToSet, IsInjective
  <2>4. Managed' = {} /\ Active' = {}
      BY <2>1, <2>3 DEF Managed, Active
  <2>5. \A d \in Ids : d \in Active => ended[d] = 0 /\ d < nextId
      BY <1>1, MoveAssumption DEF VisitsFit, Active, Ids, MoveTyped
  <2>6. ended' \in [Ids -> {0, 1}]
    <3>1. \A d \in Ids : ended[d] + (IF d \in Active THEN 1 ELSE 0) \in {0, 1}
        BY <1>2, <2>5
    <3> QED
        BY <2>1, <3>1
  <2>7. MoveTyped'
      BY <1>1, <2>1, <2>2, <2>3, <2>6 DEF MoveTyped
  <2>8. \A d \in Ids : d >= nextId => ended'[d] = 0
    <3>1. \A d \in Ids : d >= nextId => d \notin Active /\ ended[d] = 0
        BY <1>1, <2>5, MoveAssumption DEF VisitsFit, Ids, MoveTyped
    <3> QED
        BY <2>1, <3>1
  <2>9. VisitsFit'
      BY <1>1, <2>1, <2>2, <2>3, <2>4, <2>8 DEF VisitsFit
  <2> QED
      BY <2>7, <2>9 DEF MoveInv
<1> QED
    BY <1>3, <1>4, <1>5

\* The tick of the space, action by action.
LEMMA TickKeeps ==
    ASSUME MoveInv, MoveTick
    PROVE  MoveInv'
<1>1. MoveTyped /\ VisitsFit
    BY DEF MoveInv
<1>2. /\ order \in Seq(Ids) /\ left \in Seq(Ids) /\ IsInjective(order) /\ IsInjective(left)
      /\ ended \in [Ids -> {0, 1}]
    BY <1>1 DEF MoveTyped
<1>3. CASE BeginMove
  <2>1. /\ moving = "idle" /\ position' \in Positions /\ left' = order /\ moving' = "ticking"
        /\ UNCHANGED <<velocity, order, inactive, nextId, ended>>
      BY <1>3 DEF BeginMove
  <2>2. inactive = {} /\ Managed' = Managed /\ Active' = Active /\ ToSet(left') = Active
      BY <1>1, <2>1 DEF VisitsFit, Managed, Active
  <2>3. MoveTyped'
      BY <1>1, <2>1 DEF MoveTyped
  <2>4. VisitsFit'
      BY <1>1, <2>1, <2>2 DEF VisitsFit
  <2> QED
      BY <2>3, <2>4 DEF MoveInv
<1>4. ASSUME Visit
      PROVE  /\ left' \in Seq(Ids) /\ IsInjective(left') /\ ToSet(left') = ToSet(left) \ {Head(left)}
             /\ Head(left) \in Active /\ Head(left) \in Ids /\ moving = "ticking"
             /\ UNCHANGED <<position, order, nextId>>
  <2>1. /\ left # << >> /\ left' = Tail(left) /\ moving = "ticking"
        /\ UNCHANGED <<position, order, nextId>>
      BY <1>4 DEF Visit
  <2>2. /\ left' \in Seq(Ids) /\ Head(left) \in Ids /\ Head(left) \in ToSet(left)
      BY <1>2, <2>1, TailIs
  <2>3. IsInjective(left') /\ ToSet(left') = ToSet(left) \ {Head(left)}
      BY <1>2, <2>1, RestIs
  <2> QED
      BY <1>1, <2>1, <2>2, <2>3 DEF VisitsFit
<1>5. CASE Steer
  <2>1. velocity' = Toward(goals[Head(left)]) /\ UNCHANGED <<inactive, moving, ended>> /\ Visit
      BY <1>5 DEF Steer
  <2>2. velocity' \in {-Speed, 0, Speed}
      BY <2>1 DEF Toward
  <2>3. Managed' = Managed /\ Active' = Active /\ Active # {}
      BY <1>4, <2>1 DEF Managed, Active
  <2>4. MoveTyped'
      BY <1>1, <1>4, <2>1, <2>2 DEF MoveTyped
  <2>5. VisitsFit'
      BY <1>1, <1>4, <2>1, <2>3 DEF VisitsFit
  <2> QED
      BY <2>4, <2>5 DEF MoveInv
<1>6. CASE Complete
  <2>1. PICK c : c = Head(left)
      OBVIOUS
  <2>2. /\ velocity' = 0 /\ inactive' = inactive \cup {c} /\ moving' = "callback" /\ Visit
        /\ ended' = [d \in Ids |-> ended[d] + (IF d \in {c} THEN 1 ELSE 0)]
      BY <1>6, <2>1 DEF Complete, Counted
  <2>3. c \in Active /\ c \in Ids /\ ToSet(left') = ToSet(left) \ {c}
      BY <1>4, <2>1, <2>2
  <2>4. Managed' = Managed /\ Active' = Active \ {c}
      BY <1>4, <2>2 DEF Managed, Active
  <2>5. \A d \in Ids : ended'[d] = IF d = c THEN ended[c] + 1 ELSE ended[d]
      BY <1>2, <2>2
  <2>6. ended[c] = 0 /\ c \in 1 .. nextId - 1
      BY <1>1, <2>3 DEF VisitsFit, Active
  <2>7. ended' \in [Ids -> {0, 1}]
      BY <1>2, <2>2, <2>5, <2>6
  <2>8. MoveTyped'
      BY <1>1, <1>4, <2>2, <2>7 DEF MoveTyped
  <2>9. \A d \in Ids : d \in Active' \/ d >= nextId => ended'[d] = 0
      BY <1>1, <2>4, <2>5, <2>6, MoveAssumption DEF VisitsFit, Ids, MoveTyped
  <2>10. VisitsFit'
      BY <1>1, <1>4, <2>2, <2>3, <2>4, <2>6, <2>9 DEF VisitsFit
  <2> QED
      BY <2>8, <2>10 DEF MoveInv
<1>7. CASE CompletionReturns
  <2>1. moving' = "ticking" /\ UNCHANGED <<position, velocity, order, inactive, nextId, left, ended>>
      BY <1>7 DEF CompletionReturns
  <2> QED
      BY <1>1, <2>1 DEF MoveInv, MoveTyped, VisitsFit, Managed, Active
<1>8. CASE EndMove
  <2>1. /\ left = << >> /\ order' = Others(order, inactive) /\ inactive' = {} /\ moving' = "idle"
        /\ UNCHANGED <<position, velocity, nextId, left, ended>>
      BY <1>8 DEF EndMove
  <2>2. order' \in Seq(Ids) /\ IsInjective(order') /\ ToSet(order') = Active
      BY <1>2, <2>1, OthersAre DEF Active, Managed
  <2>3. Managed' = Active /\ Active' = Active /\ Active \subseteq Managed
      BY <2>1, <2>2 DEF Managed, Active
  <2>4. MoveTyped'
      BY <1>1, <2>1, <2>2 DEF MoveTyped
  <2>5. VisitsFit'
      BY <1>1, <2>1, <2>3 DEF VisitsFit
  <2> QED
      BY <2>4, <2>5 DEF MoveInv
<1> QED
    BY <1>3, <1>5, <1>6, <1>7, <1>8 DEF MoveTick

LEMMA MoveStep == MoveInv /\ [MoveNext]_moveVars => MoveInv'
<1> SUFFICES ASSUME MoveInv, [MoveNext]_moveVars PROVE MoveInv'
    OBVIOUS
<1>1. CASE UNCHANGED moveVars
    BY <1>1 DEF moveVars, MoveInv, MoveTyped, VisitsFit, Managed, Active
<1>2. ASSUME NEW p \in Targets, Displace(p) PROVE MoveInv'
  <2>1. /\ position' = p \/ position' = position
        /\ UNCHANGED <<velocity, order, inactive, nextId, left, moving, ended>>
      BY <1>2 DEF Displace
  <2>2. p \in Positions
      BY MoveAssumption
  <2> QED
      BY <2>1, <2>2 DEF MoveInv, MoveTyped, VisitsFit, Managed, Active
<1> QED
    BY <1>1, <1>2, AddKeeps, RemoveKeeps, TickKeeps DEF MoveNext

-----------------------------------------------------------------------------
(* The loop *)

Pumps == [pump : {"io", "ingress", "timers", "refresh", "sync", "build", "flush"},
          space : Spaces \cup {NoSpace}]
Tasks == {"nothing", "requestStop"}

LoopTyped ==
    /\ tickables \in [PhaseSet -> Seq(Pumps)] /\ pendingTasks \in Seq(Tasks)
    /\ stage \in [at : {"out", "top", "tasks", "phase", "crashed"}, phase : 1 .. Len(Phases),
                  left : Seq(Pumps) \cup Seq(Tasks), shouldStop : BOOLEAN]
    /\ LoopAt("phase") => stage.left \in Seq(Pumps)
    /\ spaces \subseteq Spaces /\ owed \subseteq Spaces

\* Spaces sync, then the cell builds.
BuildLast(pumps) ==
    /\ IsInjective(pumps)
    /\ \A i \in DOMAIN pumps : /\ pumps[i].pump \in {"sync", "build"}
                               /\ pumps[i] = BuildPump => i = Len(pumps)

InSyncBuild == LoopAt("phase") /\ Phases[stage.phase] = "SyncBuild"

\* Every space there is has its pump before the build, in the list and in what the
\* phase has still to run: no space comes or goes in that phase.
PumpsInOrder ==
    /\ BuildLast(tickables["SyncBuild"])
    /\ \A s \in spaces : SyncPump(s) \in ToSet(tickables["SyncBuild"])
    /\ InSyncBuild =>
          /\ BuildLast(stage.left)
          /\ stage.left # << >> => \A s \in owed \cap spaces : SyncPump(s) \in ToSet(stage.left)
    /\ LoopAt("phase") /\ ~InSyncBuild => owed = {}

LoopInv == LoopTyped /\ PumpsInOrder

LEMMA PhasesAre ==
    /\ Len(Phases) = 6 /\ "SyncBuild" \in PhaseSet /\ "Entity" \in PhaseSet
    /\ \A k \in 1 .. 6 : Phases[k] \in PhaseSet
    /\ Phases[1] = "Network" /\ Phases[2] = "Timer" /\ Phases[3] = "Entity"
    /\ Phases[4] = "Script" /\ Phases[5] = "SyncBuild" /\ Phases[6] = "Flush"
    /\ PhaseSet = {"Network", "Timer", "Entity", "Script", "SyncBuild", "Flush"}
<1>1. /\ Len(Phases) = 6 /\ DOMAIN Phases = 1 .. 6
      /\ Phases[1] = "Network" /\ Phases[2] = "Timer" /\ Phases[3] = "Entity"
      /\ Phases[4] = "Script" /\ Phases[5] = "SyncBuild" /\ Phases[6] = "Flush"
    BY DEF Phases
<1>2. 1 .. 6 = {1, 2, 3, 4, 5, 6}
    OBVIOUS
<1>3. PhaseSet = {Phases[i] : i \in {1, 2, 3, 4, 5, 6}}
    BY <1>1, <1>2 DEF PhaseSet, ToSet
<1>4. PhaseSet = {"Network", "Timer", "Entity", "Script", "SyncBuild", "Flush"}
    BY <1>1, <1>3
<1>5. \A k \in 1 .. 6 : Phases[k] \in PhaseSet
    BY <1>2, <1>3
<1> QED
    BY <1>1, <1>4, <1>5

LEMMA BuildWhenInOrder == LoopInv => BuildComesLast
<1> SUFFICES ASSUME LoopInv PROVE BuildComesLast
    OBVIOUS
<1>1. LoopTyped /\ PumpsInOrder
    BY DEF LoopInv
<1>2. LoopTypeOK
  <2>1. ASSUME NEW p \in PhaseSet, NEW t \in ToSet(tickables[p]) PROVE t.space \in Spaces \cup {NoSpace}
    <3>1. tickables[p] \in Seq(Pumps)
        BY <1>1 DEF LoopTyped
    <3>2. t \in Pumps
        BY <2>1, <3>1 DEF ToSet
    <3> QED
        BY <3>2 DEF Pumps
  <2> QED
      BY <1>1, <2>1 DEF LoopTypeOK, LoopTyped
<1>3. ASSUME LoopAt("phase"), stage.left # << >>, CurrentPump = BuildPump
      PROVE  owed \cap spaces = {}
  <2>1. CASE InSyncBuild
    <3>1. /\ stage.left \in Seq(Pumps) /\ stage.left # << >> /\ BuildLast(stage.left)
          /\ stage.left[1] = BuildPump
        BY <1>1, <1>3, <2>1 DEF LoopTyped, PumpsInOrder, CurrentPump
    <3>2. DOMAIN stage.left = {1}
        BY <3>1 DEF BuildLast
    <3>3. ToSet(stage.left) = {BuildPump}
        BY <3>1, <3>2 DEF ToSet
    <3>4. \A s \in owed \cap spaces : SyncPump(s) # BuildPump
        BY DEF SyncPump, BuildPump, Pump
    <3> QED
        BY <1>1, <1>3, <2>1, <3>3, <3>4 DEF PumpsInOrder
  <2> QED
      BY <1>1, <1>3, <2>1 DEF PumpsInOrder
<1> QED
    BY <1>1, <1>2, <1>3 DEF BuildComesLast, PumpsInOrder, BuildLast

LEMMA LoopStart == LoopInit => LoopInv
<1> SUFFICES ASSUME LoopInit PROVE LoopInv
    OBVIOUS
<1>1. /\ pendingTasks = << >> /\ stage = Out /\ spaces = {} /\ owed = {}
      /\ tickables = [p \in PhaseSet |->
         CASE p = "Network"   -> <<Pump("io", NoSpace), Pump("ingress", NoSpace)>>
           [] p = "Timer"     -> <<Pump("timers", NoSpace)>>
           [] p = "Entity"    -> << >>
           [] p = "Script"    -> << >>
           [] p = "SyncBuild" -> <<BuildPump>>
           [] p = "Flush"     -> <<Pump("flush", NoSpace)>>]
    BY DEF LoopInit
<1>2. /\ << >> \in Seq(Pumps) /\ << >> \in Seq(Tasks)
      /\ <<Pump("io", NoSpace), Pump("ingress", NoSpace)>> \in Seq(Pumps)
      /\ <<Pump("timers", NoSpace)>> \in Seq(Pumps)
      /\ <<BuildPump>> \in Seq(Pumps) /\ <<Pump("flush", NoSpace)>> \in Seq(Pumps)
    BY DEF Pumps, Pump, BuildPump
<1>3. tickables["SyncBuild"] = <<BuildPump>>
    BY <1>1, PhasesAre
<1>4. BuildLast(<<BuildPump>>)
    BY DEF BuildLast, IsInjective, BuildPump, Pump
<1>5. tickables \in [PhaseSet -> Seq(Pumps)]
    BY <1>1, <1>2, PhasesAre
<1>6. LoopTyped
    BY <1>1, <1>2, <1>5, PhasesAre DEF LoopTyped, Out, LoopAt
<1>7. PumpsInOrder
    BY <1>1, <1>3, <1>4 DEF PumpsInOrder, InSyncBuild, LoopAt, Out
<1> QED
    BY <1>6, <1>7 DEF LoopInv

\* A pump is registered once, behind the others.
LEMMA RegisteredIs ==
    ASSUME NEW S, NEW q \in Seq(S), NEW t \in S, IsInjective(q)
    PROVE  /\ Registered(q, t) \in Seq(S) /\ IsInjective(Registered(q, t))
           /\ ToSet(Registered(q, t)) = ToSet(q) \cup {t}
           /\ t \notin ToSet(q) => /\ Registered(q, t)[Len(Registered(q, t))] = t
                                   /\ Registered(q, t) # << >>
<1>1. CASE t \in ToSet(q)
    BY <1>1 DEF Registered
<1>2. CASE t \notin ToSet(q)
  <2>1. PICK r : r = Append(q, t)
      OBVIOUS
  <2>2. r \in Seq(S) /\ Len(r) = Len(q) + 1 /\ ToSet(r) = ToSet(q) \cup {t} /\ IsInjective(r)
      BY <1>2, <2>1, AppendIs
  <2>3. r[Len(r)] = t /\ r # << >>
      BY <2>1, <2>2
  <2>4. Registered(q, t) = r
      BY <1>2, <2>1 DEF Registered
  <2> QED
      BY <2>2, <2>3, <2>4
<1> QED
    BY <1>1, <1>2

\* What the creation and the destruction of a space do to the lists of pumps.
LEMMA SpacesKeep ==
    ASSUME LoopInv, NEW s \in Spaces, CreateSpace(s) \/ DestroySpace(s)
    PROVE  /\ tickables' \in [PhaseSet -> Seq(Pumps)] /\ spaces' \subseteq Spaces
           /\ BuildLast(tickables'["SyncBuild"])
           /\ \A z \in spaces' : SyncPump(z) \in ToSet(tickables'["SyncBuild"])
<1>1. LoopTyped /\ PumpsInOrder
    BY DEF LoopInv
<1>2. PICK q : q = tickables["SyncBuild"]
    OBVIOUS
<1>3. PICK w : w = tickables["Entity"]
    OBVIOUS
<1>4. /\ q \in Seq(Pumps) /\ w \in Seq(Pumps) /\ BuildLast(q) /\ IsInjective(q)
      /\ \A z \in spaces : SyncPump(z) \in ToSet(q)
    BY <1>1, <1>2, <1>3, PhasesAre DEF LoopTyped, PumpsInOrder, BuildLast
<1>5. SyncPump(s) \in Pumps /\ BuildPump \in Pumps /\ Pump("refresh", s) \in Pumps
      /\ SyncPump(s) # BuildPump
    BY DEF Pumps, SyncPump, BuildPump, Pump
<1>6. CASE CreateSpace(s)
  <2>1. PICK a : a = Registered(q, SyncPump(s))
      OBVIOUS
  <2>2. a \in Seq(Pumps) /\ IsInjective(a) /\ ToSet(a) = ToSet(q) \cup {SyncPump(s)}
    <3>1. q \in Seq(Pumps) /\ SyncPump(s) \in Pumps /\ IsInjective(q)
        BY <1>4, <1>5
    <3> QED
        BY <2>1, <3>1, RegisteredIs
  <2>3. PICK b : b = Others(a, {BuildPump})
      OBVIOUS
  <2>4. b \in Seq(Pumps) /\ ToSet(b) = ToSet(a) \ {BuildPump} /\ IsInjective(b)
      BY <2>2, <2>3, OthersAre
  <2>5. PICK c : c = Registered(b, BuildPump)
      OBVIOUS
  <2>6. /\ c \in Seq(Pumps) /\ IsInjective(c) /\ ToSet(c) = ToSet(b) \cup {BuildPump}
        /\ c[Len(c)] = BuildPump /\ c # << >>
    <3>1. BuildPump \notin ToSet(b)
        BY <2>4
    <3>2. b \in Seq(Pumps) /\ BuildPump \in Pumps /\ IsInjective(b)
        BY <1>5, <2>4
    <3>3. PICK t : t = BuildPump
        OBVIOUS
    <3>4. /\ Registered(b, t) \in Seq(Pumps) /\ IsInjective(Registered(b, t))
          /\ ToSet(Registered(b, t)) = ToSet(b) \cup {t}
          /\ Registered(b, t)[Len(Registered(b, t))] = t /\ Registered(b, t) # << >>
        BY <3>1, <3>2, <3>3, RegisteredIs
    <3> QED
        BY <2>5, <3>3, <3>4
  <2>7. PICK d : d = Registered(w, Pump("refresh", s))
      OBVIOUS
  <2>8. d \in Seq(Pumps)
    <3>1. CASE Pump("refresh", s) \in ToSet(w)
        BY <1>4, <2>7, <3>1 DEF Registered
    <3>2. CASE Pump("refresh", s) \notin ToSet(w)
      <4>1. d = Append(w, Pump("refresh", s))
          BY <2>7, <3>2 DEF Registered
      <4> QED
          BY <1>4, <1>5, <4>1
    <3> QED
        BY <3>1, <3>2
  <2>9. tickables' = [tickables EXCEPT !["Entity"] = d, !["SyncBuild"] = c] /\ spaces' = spaces \cup {s}
      BY <1>2, <1>3, <1>6, <2>1, <2>3, <2>5, <2>7 DEF CreateSpace, WithSpace, Unregistered
  <2>10. tickables' \in [PhaseSet -> Seq(Pumps)] /\ tickables'["SyncBuild"] = c
      BY <1>1, <2>6, <2>8, <2>9, PhasesAre DEF LoopTyped
  <2>11. \A z \in spaces' : SyncPump(z) \in ToSet(c)
    <3>1. \A z : SyncPump(z) # BuildPump
        BY DEF SyncPump, BuildPump, Pump
    <3> QED
        BY <1>4, <2>2, <2>4, <2>6, <2>9, <3>1
  <2>12. \A i \in DOMAIN c : c[i].pump \in {"sync", "build"}
    <3>1. \A t \in ToSet(q) : t.pump \in {"sync", "build"}
        BY <1>4 DEF BuildLast, ToSet
    <3>2. ToSet(c) \subseteq ToSet(q) \cup {SyncPump(s), BuildPump}
        BY <2>2, <2>4, <2>6
    <3>3. SyncPump(s).pump = "sync" /\ BuildPump.pump = "build"
        BY DEF SyncPump, BuildPump, Pump
    <3>4. \A t \in ToSet(c) : t.pump \in {"sync", "build"}
        BY <3>1, <3>2, <3>3
    <3> QED
        BY <3>4 DEF ToSet
  <2>13. \A i \in DOMAIN c : c[i] = BuildPump => i = Len(c)
    <3>1. DOMAIN c = 1 .. Len(c) /\ Len(c) \in DOMAIN c
        BY <2>6
    <3> QED
        BY <2>6, <3>1 DEF IsInjective
  <2>14. BuildLast(c)
      BY <2>6, <2>12, <2>13 DEF BuildLast
  <2> QED
      BY <1>1, <2>9, <2>10, <2>11, <2>14 DEF LoopTyped
<1>7. CASE DestroySpace(s)
  <2>1. PICK a : a = Others(q, {SyncPump(s)})
      OBVIOUS
  <2>2. /\ a \in Seq(Pumps) /\ ToSet(a) = ToSet(q) \ {SyncPump(s)} /\ IsInjective(a)
        /\ \A k, m \in DOMAIN a : k < m =>
              \E i, j \in DOMAIN q : i < j /\ a[k] = q[i] /\ a[m] = q[j]
    <3>1. q \in Seq(Pumps) /\ IsInjective(q)
        BY <1>4
    <3>2. PICK g : g = {SyncPump(s)}
        OBVIOUS
    <3>3. a = Others(q, g)
        BY <2>1, <3>2
    <3>4. /\ Others(q, g) \in Seq(Pumps) /\ ToSet(Others(q, g)) = ToSet(q) \ g
          /\ IsInjective(Others(q, g))
          /\ \A k, m \in DOMAIN Others(q, g) : k < m =>
                \E i, j \in DOMAIN q : i < j /\ Others(q, g)[k] = q[i] /\ Others(q, g)[m] = q[j]
        BY <3>1, OthersAre
    <3>5. /\ a \in Seq(Pumps) /\ ToSet(a) = ToSet(q) \ g /\ IsInjective(a)
          /\ \A k, m \in DOMAIN a : k < m =>
                \E i, j \in DOMAIN q : i < j /\ a[k] = q[i] /\ a[m] = q[j]
        BY <3>3, <3>4
    <3>6. ToSet(a) = ToSet(q) \ {SyncPump(s)}
        BY <3>2, <3>5
    <3> QED
        BY <3>5, <3>6
  <2>3. PICK d : d = Others(w, {Pump("refresh", s)})
      OBVIOUS
  <2>4. d \in Seq(Pumps)
      BY <1>4, <2>3, OthersAre
  <2>5. tickables' = [tickables EXCEPT !["Entity"] = d, !["SyncBuild"] = a] /\ spaces' = spaces \ {s}
      BY <1>2, <1>3, <1>7, <2>1, <2>3 DEF DestroySpace, Unregistered
  <2>6. tickables' \in [PhaseSet -> Seq(Pumps)] /\ tickables'["SyncBuild"] = a
      BY <1>1, <2>2, <2>4, <2>5, PhasesAre DEF LoopTyped
  <2>7. \A z \in spaces' : SyncPump(z) \in ToSet(a)
    <3>1. \A z : SyncPump(z) = SyncPump(s) => z = s
        BY DEF SyncPump, Pump
    <3> QED
        BY <1>4, <2>2, <2>5, <3>1
  <2>8. \A i \in DOMAIN a : a[i].pump \in {"sync", "build"}
    <3>1. \A t \in ToSet(q) : t.pump \in {"sync", "build"}
        BY <1>4 DEF BuildLast, ToSet
    <3>4. \A t \in ToSet(a) : t.pump \in {"sync", "build"}
        BY <2>2, <3>1
    <3> QED
        BY <3>4 DEF ToSet
  <2>9. ASSUME NEW i \in DOMAIN a, a[i] = BuildPump PROVE i = Len(a)
    <3>1. DOMAIN a = 1 .. Len(a) /\ Len(a) \in Nat /\ DOMAIN q = 1 .. Len(q) /\ Len(q) \in Nat
        BY <1>4, <2>2
    <3>2. SUFFICES ASSUME i < Len(a) PROVE FALSE
        BY <3>1
    <3>3. Len(a) \in DOMAIN a
        BY <3>1, <3>2
    <3>4. PICK k \in DOMAIN q, j \in DOMAIN q : k < j /\ a[i] = q[k] /\ a[Len(a)] = q[j]
        BY <2>2, <3>2, <3>3
    <3>5. k = Len(q)
        BY <1>4, <2>9, <3>4 DEF BuildLast
    <3> QED
        BY <3>1, <3>4, <3>5
  <2>10. BuildLast(a)
      BY <2>2, <2>8, <2>9 DEF BuildLast
  <2> QED
      BY <1>1, <2>5, <2>6, <2>7, <2>10 DEF LoopTyped
<1> QED
    BY <1>6, <1>7

\* Spaces that come and go outside the phase SyncBuild.
LEMMA WithSpaces ==
    ASSUME LoopInv, SpacesStay \/ \E s \in Spaces : CreateSpace(s) \/ DestroySpace(s)
    PROVE  /\ tickables' \in [PhaseSet -> Seq(Pumps)] /\ spaces' \subseteq Spaces
           /\ BuildLast(tickables'["SyncBuild"])
           /\ \A z \in spaces' : SyncPump(z) \in ToSet(tickables'["SyncBuild"])
<1>1. CASE SpacesStay
    BY <1>1 DEF SpacesStay, LoopInv, LoopTyped, PumpsInOrder
<1> QED
    BY <1>1, SpacesKeep

\* What is behind the head of the pumps of a phase.
LEMMA RestBuilds ==
    ASSUME NEW q \in Seq(Pumps), q # << >>, BuildLast(q)
    PROVE  /\ Tail(q) \in Seq(Pumps) /\ BuildLast(Tail(q)) /\ ToSet(Tail(q)) = ToSet(q) \ {Head(q)}
           /\ Head(q) \in Pumps /\ Head(q).pump \in {"sync", "build"}
<1>1. PICK r : r = Tail(q)
    OBVIOUS
<1>2. /\ r \in Seq(Pumps) /\ Len(r) = Len(q) - 1 /\ Head(q) = q[1] /\ Len(q) >= 1
      /\ \A i \in 1 .. Len(q) - 1 : r[i] = q[i + 1]
    BY <1>1
<1>3. IsInjective(r) /\ ToSet(r) = ToSet(q) \ {Head(q)}
  <2>1. IsInjective(q)
      BY DEF BuildLast
  <2>2. IsInjective(Tail(q)) /\ ToSet(Tail(q)) = ToSet(q) \ {Head(q)}
      BY <2>1, RestIs
  <2> QED
      BY <1>1, <2>2
<1>4. ASSUME NEW i \in DOMAIN r
      PROVE  r[i].pump \in {"sync", "build"} /\ (r[i] = BuildPump => i = Len(r))
  <2>1. i + 1 \in DOMAIN q /\ r[i] = q[i + 1] /\ i \in Int
      BY <1>2
  <2>2. q[i + 1].pump \in {"sync", "build"} /\ (q[i + 1] = BuildPump => i + 1 = Len(q))
      BY <2>1 DEF BuildLast
  <2> QED
      BY <1>2, <2>1, <2>2
<1>5. BuildLast(r)
    BY <1>3, <1>4 DEF BuildLast
<1>6. 1 \in DOMAIN q
    BY <1>2
<1>7. Head(q) \in Pumps /\ Head(q).pump \in {"sync", "build"}
    BY <1>2, <1>6 DEF BuildLast
<1> QED
    BY <1>1, <1>2, <1>3, <1>5, <1>7

LEMMA TickPumpKeeps ==
    ASSUME LoopInv, NEW made \in Calls, TickPump(made)
    PROVE  LoopInv'
<1>1. LoopTyped /\ PumpsInOrder
    BY DEF LoopInv
<1>2. /\ LoopAt("phase") /\ stage.left # << >> /\ stage.left \in Seq(Pumps)
      /\ pendingTasks' = pendingTasks /\ owed' = owed \ {CurrentPump.space}
    BY <1>1 DEF TickPump, LoopTyped
<1>3. SpacesStay \/ \E s \in Spaces : CreateSpace(s) \/ DestroySpace(s)
    BY DEF TickPump
<1>4. /\ tickables' \in [PhaseSet -> Seq(Pumps)] /\ spaces' \subseteq Spaces
      /\ BuildLast(tickables'["SyncBuild"])
      /\ \A z \in spaces' : SyncPump(z) \in ToSet(tickables'["SyncBuild"])
    BY <1>3, WithSpaces
<1>5. PICK r : r = Tail(stage.left)
    OBVIOUS
<1>6. r \in Seq(Pumps) /\ << >> \in Seq(Pumps)
    BY <1>2, <1>5
<1>7. /\ stage' \in [at : {"out", "top", "tasks", "phase", "crashed"}, phase : 1 .. Len(Phases),
                     left : Seq(Pumps) \cup Seq(Tasks), shouldStop : BOOLEAN]
      /\ stage'.at = "phase" /\ stage'.phase = stage.phase /\ stage'.left \in {r, << >>}
  <2>1. stage' = [stage EXCEPT !.left = << >>, !.shouldStop = TRUE] \/ stage' = [stage EXCEPT !.left = r]
      BY <1>5 DEF TickPump, PumpDone
  <2>2. stage.at = "phase"
      BY <1>2 DEF LoopAt
  <2> QED
      BY <1>1, <1>6, <2>1, <2>2 DEF LoopTyped
<1>8. LoopTyped'
    BY <1>1, <1>2, <1>4, <1>6, <1>7 DEF LoopTyped, LoopAt
<1>9. CASE InSyncBuild
  <2>1. BuildLast(stage.left) /\ \A s \in owed \cap spaces : SyncPump(s) \in ToSet(stage.left)
      BY <1>1, <1>2, <1>9 DEF PumpsInOrder
  <2>2. /\ BuildLast(r) /\ ToSet(r) = ToSet(stage.left) \ {CurrentPump}
        /\ CurrentPump \in Pumps /\ CurrentPump.pump \in {"sync", "build"}
      BY <1>2, <1>5, <2>1, RestBuilds DEF CurrentPump
  <2>3. spaces' = spaces
      BY <2>2 DEF TickPump, SpacesStay
  <2>4. BuildLast(<< >>)
      BY DEF BuildLast, IsInjective
  <2>5. \A s : SyncPump(s) = CurrentPump => s = CurrentPump.space
      BY DEF SyncPump, Pump
  <2>6. \A s \in owed' \cap spaces' : SyncPump(s) \in ToSet(r)
      BY <1>2, <2>1, <2>2, <2>3, <2>5
  <2>7. InSyncBuild'
      BY <1>7, <1>9 DEF InSyncBuild, LoopAt
  <2>8. /\ BuildLast(stage'.left)
        /\ stage'.left # << >> => \A s \in owed' \cap spaces' : SyncPump(s) \in ToSet(stage'.left)
      BY <1>7, <2>2, <2>4, <2>6
  <2>9. PumpsInOrder'
      BY <1>4, <2>7, <2>8 DEF PumpsInOrder
  <2> QED
      BY <1>8, <2>9 DEF LoopInv
<1>10. CASE ~InSyncBuild
  <2>1. owed' = {} /\ ~InSyncBuild'
      BY <1>1, <1>2, <1>7, <1>10 DEF PumpsInOrder, InSyncBuild, LoopAt
  <2>2. PumpsInOrder'
      BY <1>4, <2>1 DEF PumpsInOrder
  <2> QED
      BY <1>8, <2>2 DEF LoopInv
<1> QED
    BY <1>9, <1>10

LEMMA FreedPumpKeeps == LoopInv /\ TickFreed => LoopInv'
<1> SUFFICES ASSUME LoopInv, TickFreed PROVE LoopInv'
    OBVIOUS
<1>1. LoopTyped /\ PumpsInOrder
    BY DEF LoopInv
<1>2. /\ LoopAt("phase") /\ stage.left # << >> /\ stage.left \in Seq(Pumps) /\ CurrentPump.space \notin spaces
      /\ pendingTasks' = pendingTasks /\ owed' = owed /\ spaces' = spaces /\ tickables' = tickables
    BY <1>1 DEF TickFreed, LoopTyped, Freed, SpacesStay
<1>3. CASE stage' = [Out EXCEPT !.at = "crashed"]
  <2>1. stage'.at = "crashed" /\ stage' \in [at : {"out", "top", "tasks", "phase", "crashed"},
           phase : 1 .. Len(Phases), left : Seq(Pumps) \cup Seq(Tasks), shouldStop : BOOLEAN]
    <3>1. 1 \in 1 .. Len(Phases) /\ << >> \in Seq(Pumps)
        BY PhasesAre
    <3> QED
        BY <1>3, <3>1 DEF Out
  <2> QED
      BY <1>1, <1>2, <2>1 DEF LoopInv, LoopTyped, PumpsInOrder, InSyncBuild, LoopAt
<1>4. CASE stage' = PumpDone
  <2>1. PICK r : r = Tail(stage.left)
      OBVIOUS
  <2>2. r \in Seq(Pumps)
      BY <1>2, <2>1
  <2>3. /\ stage' \in [at : {"out", "top", "tasks", "phase", "crashed"}, phase : 1 .. Len(Phases),
                       left : Seq(Pumps) \cup Seq(Tasks), shouldStop : BOOLEAN]
        /\ stage'.at = "phase" /\ stage'.phase = stage.phase /\ stage'.left = r
      BY <1>1, <1>2, <1>4, <2>1, <2>2 DEF LoopTyped, PumpDone, LoopAt
  <2>4. LoopTyped'
      BY <1>1, <1>2, <2>2, <2>3 DEF LoopTyped, LoopAt
  <2>5. InSyncBuild' <=> InSyncBuild
      BY <1>2, <2>3 DEF InSyncBuild, LoopAt
  <2>6. ASSUME InSyncBuild
        PROVE  BuildLast(r) /\ \A s \in owed \cap spaces : SyncPump(s) \in ToSet(r)
    <3>1. BuildLast(stage.left) /\ \A s \in owed \cap spaces : SyncPump(s) \in ToSet(stage.left)
        BY <1>1, <1>2, <2>6 DEF PumpsInOrder
    <3>2. BuildLast(r) /\ ToSet(r) = ToSet(stage.left) \ {CurrentPump}
        BY <1>2, <2>1, <3>1, RestBuilds DEF CurrentPump
    <3>3. \A s : SyncPump(s) = CurrentPump => s = CurrentPump.space
        BY DEF SyncPump, Pump
    <3> QED
        BY <1>2, <3>1, <3>2, <3>3
  <2>7. PumpsInOrder'
      BY <1>1, <1>2, <2>3, <2>5, <2>6 DEF PumpsInOrder
  <2> QED
      BY <2>4, <2>7 DEF LoopInv
<1> QED
    BY <1>3, <1>4 DEF TickFreed

LEMMA BeginPhaseKeeps == LoopInv /\ BeginPhase => LoopInv'
<1> SUFFICES ASSUME LoopInv, BeginPhase PROVE LoopInv'
    OBVIOUS
<1>1. LoopTyped /\ PumpsInOrder
    BY DEF LoopInv
<1>2. /\ pendingTasks' = pendingTasks /\ spaces' = spaces /\ tickables' = tickables
      /\ owed' = IF Phases[stage'.phase] = "SyncBuild" THEN spaces ELSE {}
    BY DEF BeginPhase, SpacesStay
<1>3. PICK k \in 1 .. Len(Phases) : stage' = [stage EXCEPT !.at = "phase", !.phase = k, !.left = tickables[Phases[k]]]
  <2>1. CASE stage' = Enter(1)
    <3>1. 1 \in 1 .. Len(Phases)
        BY PhasesAre
    <3> QED
        BY <2>1, <3>1 DEF Enter
  <2>2. CASE stage.phase < Len(Phases) /\ stage' = Enter(stage.phase + 1)
    <3>1. stage.phase + 1 \in 1 .. Len(Phases)
        BY <1>1, <2>2, PhasesAre DEF LoopTyped
    <3> QED
        BY <2>2, <3>1 DEF Enter
  <2> QED
      BY <2>1, <2>2 DEF BeginPhase
<1>4. PICK q : q = tickables[Phases[k]]
    OBVIOUS
<1>5. q \in Seq(Pumps)
    BY <1>1, <1>4, PhasesAre DEF LoopTyped
<1>6. /\ stage' \in [at : {"out", "top", "tasks", "phase", "crashed"}, phase : 1 .. Len(Phases),
                     left : Seq(Pumps) \cup Seq(Tasks), shouldStop : BOOLEAN]
      /\ stage'.at = "phase" /\ stage'.phase = k /\ stage'.left = q
    BY <1>1, <1>3, <1>4, <1>5 DEF LoopTyped
<1>7. LoopTyped'
    BY <1>1, <1>2, <1>5, <1>6 DEF LoopTyped
<1>8. InSyncBuild' <=> Phases[k] = "SyncBuild"
    BY <1>6 DEF InSyncBuild, LoopAt
<1>9. Phases[k] = "SyncBuild" => q = tickables["SyncBuild"]
    BY <1>4
<1>10. PumpsInOrder'
    BY <1>1, <1>2, <1>6, <1>8, <1>9 DEF PumpsInOrder
<1> QED
    BY <1>7, <1>10 DEF LoopInv

LEMMA LoopsStep == LoopInv /\ [LoopNext]_loopVars => LoopInv'
<1> SUFFICES ASSUME LoopInv, [LoopNext]_loopVars PROVE LoopInv'
    OBVIOUS
<1> DEFINE Stages == [at : {"out", "top", "tasks", "phase", "crashed"}, phase : 1 .. Len(Phases),
                      left : Seq(Pumps) \cup Seq(Tasks), shouldStop : BOOLEAN]
<1>1. LoopTyped /\ PumpsInOrder
    BY DEF LoopInv
<1>2. ASSUME stage' \in Stages, stage'.at # "phase", owed' = owed, pendingTasks' \in Seq(Tasks),
             SpacesStay \/ \E s \in Spaces : CreateSpace(s) \/ DestroySpace(s)
      PROVE  LoopInv'
  <2>1. /\ tickables' \in [PhaseSet -> Seq(Pumps)] /\ spaces' \subseteq Spaces
        /\ BuildLast(tickables'["SyncBuild"])
        /\ \A z \in spaces' : SyncPump(z) \in ToSet(tickables'["SyncBuild"])
      BY <1>2, WithSpaces
  <2>2. LoopTyped'
      BY <1>1, <1>2, <2>1 DEF LoopTyped, LoopAt
  <2>3. PumpsInOrder'
      BY <1>2, <2>1 DEF PumpsInOrder, InSyncBuild, LoopAt
  <2> QED
      BY <2>2, <2>3 DEF LoopInv
<1>3. ASSUME SpacesStay, stage' = stage, owed' = owed, pendingTasks' \in Seq(Tasks)
      PROVE  LoopInv'
    BY <1>1, <1>3 DEF SpacesStay, LoopInv, LoopTyped, PumpsInOrder, InSyncBuild, LoopAt
<1>4. Out \in Stages /\ [Out EXCEPT !.at = "top"] \in Stages /\ pendingTasks \in Seq(Tasks)
      /\ << >> \in Seq(Tasks) /\ "nothing" \in Tasks /\ "requestStop" \in Tasks
  <2>1. 1 \in 1 .. Len(Phases) /\ << >> \in Seq(Pumps)
      BY PhasesAre
  <2>2. Out \in Stages /\ [Out EXCEPT !.at = "top"] \in Stages
      BY <2>1 DEF Out
  <2> QED
      BY <1>1, <2>2 DEF LoopTyped, Tasks
<1>5. CASE UNCHANGED loopVars
    BY <1>3, <1>4, <1>5 DEF loopVars, SpacesStay
<1>6. ASSUME NEW ok \in BOOLEAN, Run(ok) PROVE LoopInv'
  <2>1. /\ stage' = [Out EXCEPT !.at = "top"] \/ stage' = stage
        /\ owed' = owed /\ pendingTasks' = pendingTasks /\ SpacesStay
      BY <1>6 DEF Run
  <2>2. [Out EXCEPT !.at = "top"].at # "phase"
      BY DEF Out
  <2> QED
      BY <1>2, <1>3, <1>4, <2>1, <2>2
<1>7. CASE BeginTick
  <2>1. /\ stage' = [at |-> "tasks", phase |-> 1, left |-> pendingTasks, shouldStop |-> FALSE]
        /\ owed' = owed /\ pendingTasks' = << >> /\ SpacesStay
      BY <1>7 DEF BeginTick
  <2>2. stage' \in Stages /\ stage'.at # "phase"
      BY <1>4, <2>1, PhasesAre
  <2> QED
      BY <1>2, <1>4, <2>1, <2>2
<1>8. CASE LeaveLoop
  <2>1. stage' = Out /\ owed' = owed /\ pendingTasks' = pendingTasks /\ SpacesStay
      BY <1>8 DEF LeaveLoop
  <2>2. Out.at # "phase"
      BY DEF Out
  <2> QED
      BY <1>2, <1>4, <2>1, <2>2
<1>9. CASE RunTask
  <2>1. /\ stage.at = "tasks" /\ stage.left # << >> /\ owed' = owed /\ pendingTasks' = pendingTasks
        /\ SpacesStay \/ \E s \in Spaces : CreateSpace(s) \/ DestroySpace(s)
      BY <1>9 DEF RunTask, LoopAt
  <2>2. PICK r : r = Tail(stage.left)
      OBVIOUS
  <2>3. r \in Seq(Pumps) \cup Seq(Tasks)
    <3>1. CASE stage.left \in Seq(Pumps)
        BY <2>1, <2>2, <3>1
    <3>2. CASE stage.left \in Seq(Tasks)
        BY <2>1, <2>2, <3>2
    <3> QED
        BY <1>1, <3>1, <3>2 DEF LoopTyped
  <2>4. stage' = [stage EXCEPT !.left = r]
      BY <1>9, <2>2 DEF RunTask, PumpDone
  <2>5. stage' \in Stages /\ stage'.at # "phase"
      BY <1>1, <2>1, <2>3, <2>4 DEF LoopTyped
  <2> QED
      BY <1>2, <1>4, <2>1, <2>5
<1>10. CASE EndTick
  <2>1. /\ stage' = [Out EXCEPT !.at = "top"]
        /\ owed' = owed /\ pendingTasks' = pendingTasks /\ SpacesStay
      BY <1>10 DEF EndTick
  <2>2. [Out EXCEPT !.at = "top"].at # "phase"
      BY DEF Out
  <2> QED
      BY <1>2, <1>4, <2>1, <2>2
<1>11. ASSUME NEW task \in {"nothing", "requestStop"}, Post(task) PROVE LoopInv'
  <2>1. pendingTasks' = Append(pendingTasks, task) /\ stage' = stage /\ owed' = owed /\ SpacesStay
      BY <1>11 DEF Post
  <2>2. pendingTasks' \in Seq(Tasks)
      BY <1>4, <2>1 DEF Tasks
  <2> QED
      BY <1>3, <2>1, <2>2
<1>12. CASE RequestStop
    BY <1>3, <1>4, <1>12 DEF RequestStop
<1>13. CASE Stop
    BY <1>3, <1>4, <1>13 DEF Stop
<1> QED
    BY <1>5, <1>6, <1>7, <1>8, <1>9, <1>10, <1>11, <1>12, <1>13,
       BeginPhaseKeeps, FreedPumpKeeps, TickPumpKeeps DEF LoopNext, LoopStep

-----------------------------------------------------------------------------
(* The rings of the wheel *)

Span(r) == SlotSpan[r]

LEMMA SpansAre ==
    /\ Span(0) = 1 /\ Span(1) = SlotsPerLevel /\ 0 \in Rings /\ Levels - 1 \in Rings /\ Outside \notin Rings
    /\ \A r \in 0 .. Levels : Span(r) \in Nat \ {0}
    /\ \A r \in Rings : r \in 0 .. Levels /\ r + 1 \in 0 .. Levels /\ Span(r + 1) = SlotsPerLevel * Span(r)
<1>1. /\ SlotsPerLevel \in Nat \ {0} /\ Levels \in Nat /\ Levels >= 2
      /\ \A r \in 0 .. Levels : Span(r) \in Nat
      /\ Span(0) = 1 /\ \A r \in 0 .. Levels - 1 : Span(r + 1) = SlotsPerLevel * Span(r)
    BY WheelAssumption DEF Span
<1>2. Span(1) = SlotsPerLevel
  <2>1. 0 \in 0 .. Levels - 1
      BY <1>1
  <2>2. Span(0 + 1) = SlotsPerLevel * Span(0)
      BY <1>1, <2>1
  <2>3. 0 + 1 = 1
      OBVIOUS
  <2> QED
      BY <1>1, <2>2, <2>3
<1>3. \A r \in 0 .. Levels : Span(r) # 0
  <2> DEFINE T == {r \in 0 .. Levels : Span(r) = 0}
  <2>1. SUFFICES ASSUME T # {} PROVE FALSE
      OBVIOUS
  <2>2. T \in SUBSET Nat
      BY <1>1
  <2>3. PICK n \in T : \A m \in T : n <= m
    <3> HIDE DEF T
    <3> QED
        BY <2>1, <2>2, LeastNatural
  <2>4. n \in 0 .. Levels /\ Span(n) = 0 /\ n # 0
      BY <1>1
  <2>5. PICK k \in 0 .. Levels - 1 : n = k + 1
    <3>1. n - 1 \in 0 .. Levels - 1 /\ n = (n - 1) + 1
        BY <1>1, <2>4
    <3> QED
        BY <3>1
  <2>6. Span(k) # 0
    <3>1. k \notin T
        BY <1>1, <2>3, <2>5
    <3> QED
        BY <1>1, <3>1
  <2>7. Span(n) = SlotsPerLevel * Span(k) /\ Span(k) \in Nat
      BY <1>1, <2>5
  <2>8. PICK a \in Nat \ {0} : a = Span(k)
      BY <2>6, <2>7
  <2>9. SlotsPerLevel * a # 0
      BY <1>1
  <2> QED
      BY <2>4, <2>7, <2>8, <2>9
<1> QED
    BY <1>1, <1>2, <1>3 DEF Rings, Outside

\* What divides for a ring divides for the rings below it.
LEMMA SpansNest ==
    ASSUME NEW r \in Rings, NEW q \in Rings, r <= q, NEW c \in Nat, c % Span(q) = 0
    PROVE  c % Span(r) = 0
<1> DEFINE T == {n \in r .. Levels - 1 : c % Span(n) = 0}
<1>1. /\ r \in Nat /\ Levels \in Nat /\ SlotsPerLevel \in Nat \ {0} /\ \A n \in r .. Levels - 1 : n \in Rings
      /\ q \in r .. Levels - 1
    BY WheelAssumption DEF Rings
<1>2. T \in SUBSET Nat /\ T # {}
    BY <1>1
<1>3. PICK n \in T : \A m \in T : n <= m
  <2> HIDE DEF T
  <2> QED
      BY <1>2, LeastNatural
<1>4. n \in r .. Levels - 1 /\ c % Span(n) = 0
    OBVIOUS
<1>5. CASE n = r
    BY <1>4, <1>5
<1>6. CASE n # r
  <2>1. PICK k \in r .. Levels - 1 : n = k + 1
    <3>1. n - 1 \in r .. Levels - 1 /\ n = (n - 1) + 1
        BY <1>1, <1>4, <1>6
    <3> QED
        BY <3>1
  <2>2. k \in Rings /\ Span(k) \in Nat \ {0} /\ Span(n) = SlotsPerLevel * Span(k)
      BY <1>1, <2>1, SpansAre
  <2>3. PICK a \in Nat \ {0} : a = Span(k)
      BY <2>2
  <2>4. c % (SlotsPerLevel * a) = 0
      BY <1>4, <2>2, <2>3
  <2>5. c % a = 0
      BY <1>1, <2>4, MultiplesNest
  <2>6. k \in T
      BY <2>3, <2>5
  <2> QED
      BY <1>1, <1>3, <2>1, <2>6
<1> QED
    BY <1>5, <1>6

LEMMA SlotIs == \A r \in Rings, t \in Nat : SlotIn(r, t) \in Slots
<1> SUFFICES ASSUME NEW r \in Rings, NEW t \in Nat PROVE SlotIn(r, t) \in Slots
    OBVIOUS
<1>1. Span(r) \in Nat \ {0} /\ SlotsPerLevel \in Nat \ {0}
    BY SpansAre, WheelAssumption
<1>2. t \div Span(r) \in Nat
    BY <1>1, DivisionIs
<1>3. (t \div Span(r)) % SlotsPerLevel \in 0 .. SlotsPerLevel - 1
    BY <1>1, <1>2
<1> QED
    BY <1>3 DEF SlotIn, Slots, Span

\* The ring for a distance covers it, or is the last; a slot of it spans no more.
LEMMA RingIs ==
    ASSUME NEW d \in Nat \ {0}
    PROVE  /\ RingFor(d) \in Rings /\ d >= Span(RingFor(d))
           /\ RingFor(d) = 0 => d < SlotsPerLevel
<1> DEFINE T == {r \in Rings : r = Levels - 1 \/ d < SlotSpan[r + 1]}
<1>1. Levels \in Nat /\ Levels >= 2 /\ Rings = 0 .. Levels - 1 /\ T \in SUBSET Nat /\ T # {}
  <2>1. Levels - 1 \in T
      BY SpansAre
  <2>2. Rings \subseteq Nat
      BY DEF Rings
  <2> QED
      BY <2>1, <2>2, WheelAssumption DEF Rings
<1>2. PICK n \in T : \A m \in T : n <= m
  <2> HIDE DEF T
  <2> QED
      BY <1>1, LeastNatural
<1>3. \A q \in 0 .. n - 1 : d >= SlotSpan[q + 1]
  <2>1. ASSUME NEW q \in 0 .. n - 1 PROVE d >= SlotSpan[q + 1]
    <3>1. q \in Rings /\ q \notin T
        BY <1>1, <1>2, <2>1
    <3>2. SlotSpan[q + 1] \in Nat
        BY <3>1, SpansAre DEF Span
    <3> QED
        BY <3>1, <3>2
  <2> QED
      BY <2>1
<1>4. \E r \in Rings : /\ r = Levels - 1 \/ d < SlotSpan[r + 1]
                       /\ \A q \in 0 .. r - 1 : d >= SlotSpan[q + 1]
    BY <1>2, <1>3
<1>5. PICK g : g = RingFor(d)
    OBVIOUS
<1>6. /\ g \in Rings /\ (g = Levels - 1 \/ d < SlotSpan[g + 1])
      /\ \A q \in 0 .. g - 1 : d >= SlotSpan[q + 1]
    BY <1>4, <1>5 DEF RingFor
<1>7. d >= Span(g)
  <2>1. CASE g = 0
      BY <2>1, SpansAre
  <2>2. CASE g # 0
    <3>1. g - 1 \in 0 .. g - 1 /\ (g - 1) + 1 = g
        BY <1>1, <1>6, <2>2
    <3>2. d >= SlotSpan[(g - 1) + 1]
        BY <1>6, <3>1
    <3> QED
        BY <3>1, <3>2 DEF Span
  <2> QED
      BY <2>1, <2>2
<1>8. g = 0 => d < SlotsPerLevel
  <2>1. ASSUME g = 0 PROVE d < SlotSpan[1]
    <3>1. g # Levels - 1 /\ g + 1 = 1
        BY <1>1, <2>1
    <3> QED
        BY <1>6, <3>1
  <2> QED
      BY <2>1, SpansAre DEF Span
<1> QED
    BY <1>5, <1>6, <1>7, <1>8

\* Whatever its ring, a tick to come falls into a later slot of it than the present.
LEMMA PlacedAhead ==
    ASSUME NEW t \in Nat, NEW f \in Nat, f > t
    PROVE  /\ RingFor(f - t) \in Rings
           /\ f \div Span(RingFor(f - t)) > t \div Span(RingFor(f - t))
           /\ RingFor(f - t) = 0 => f < t + SlotsPerLevel
<1>1. PICK d \in Nat \ {0} : d = f - t
    OBVIOUS
<1>2. PICK g : g = RingFor(d)
    OBVIOUS
<1>3. g \in Rings /\ d >= Span(g) /\ (g = 0 => d < SlotsPerLevel)
    BY <1>2, RingIs
<1>4. PICK p \in Nat \ {0} : p = Span(g)
    BY <1>3, SpansAre
<1>5. f >= t + p
    BY <1>1, <1>3, <1>4
<1>6. f \div p > t \div p
    BY <1>5, QuotientsGrow
<1>7. SlotsPerLevel \in Nat
    BY WheelAssumption
<1> QED
    BY <1>1, <1>2, <1>3, <1>4, <1>6, <1>7

-----------------------------------------------------------------------------
(* Where the entries of the wheel are *)

Items == [index : DOMAIN entries, id : 1 .. MaxTimers]

\* What the recorded handles, the batch and the histories are made of.
WheelTyped ==
    /\ WheelTypeOK
    /\ pass \in [ring : 0 .. Levels, batch : Seq(Items)]
    /\ pass.ring = Outside => pass.batch = << >> /\ firing = 0
    /\ entityTimers \in [Owners -> Seq(1 .. MaxTimers)]
    /\ body = [e \in Owners |-> body[e]]
    /\ setBy = [k \in 1 .. nextTimerId - 1 |-> setBy[k]]

\* An index and an id stand for one entry, also in a batch and among recorded handles.
IdsApart ==
    /\ \A i, j \in DOMAIN entries : Live(i) /\ Live(j) /\ entries[i].id = entries[j].id => i = j
    /\ \A i \in DOMAIN entries : entries[i].id < nextTimerId
    /\ \A k \in DOMAIN pass.batch : pass.batch[k].id < nextTimerId
    /\ \A k, m \in DOMAIN pass.batch : pass.batch[k].index = pass.batch[m].index => k = m
    /\ \A e \in Owners : /\ IsInjective(entityTimers[e])
                         /\ \A a \in ToSet(entityTimers[e]) : a < nextTimerId
    /\ firing < nextTimerId

\* An entry is in the pool or in its slot, or is for the running batch to look at.
EntriesPlaced ==
    /\ IsInjective(freeList)
    /\ \A i \in DOMAIN entries : i \in ToSet(freeList) <=> ~Live(i)
    /\ \A r \in Rings, s \in Slots :
          /\ IsInjective(wheels[r][s])
          /\ \A i \in DOMAIN entries : i \in ToSet(wheels[r][s]) <=>
                Live(i) /\ i \notin Pending /\ r = entries[i].ring /\ s = entries[i].slot

\* The slot that an entry is in comes up before it is due, and that of ring 0 when it
\* is due.  Of the rings that this tick has still to empty, it may be the slot of now.
Ahead(e, isPending, now, ring) ==
    IF isPending THEN e.fireTick >= now /\ (ring = 0 => e.fireTick = now)
    ELSE /\ e.slot = SlotIn(e.ring, e.fireTick)
         /\ e.ring = 0 => e.fireTick < now + SlotsPerLevel
         /\ \/ e.fireTick \div Span(e.ring) > now \div Span(e.ring)
            \/ /\ e.ring > ring /\ now % Span(e.ring) = 0
               /\ e.fireTick \div Span(e.ring) = now \div Span(e.ring)

EntriesAhead ==
    \A i \in DOMAIN entries : Live(i) => Ahead(entries[i], i \in Pending, currentTick, pass.ring)

\* A timer that an entity set, as long as it is on the wheel, is recorded for the body
\* that set it, unless that body migrated away.
TimersHaveBodies ==
    /\ \A i \in DOMAIN entries : Live(i) =>
          LET by == setBy[entries[i].id] IN
          by.owner # NoOwner =>
              /\ by.owner \in Owners /\ by.body # 0
              /\ \/ entries[i].id \in leftBehind
                 \/ /\ body[by.owner] = by.body
                    /\ entries[i].id \in ToSet(entityTimers[by.owner])
    /\ OldTimersAreSilent

WheelInv == WheelTyped /\ IdsApart /\ EntriesPlaced /\ EntriesAhead /\ TimersHaveBodies

LEMMA SoundWhenPlaced == WheelInv => SlotsAreSound /\ OldTimersAreSilent
<1> SUFFICES ASSUME WheelInv PROVE SlotsAreSound /\ OldTimersAreSilent
    OBVIOUS
<1>1. /\ WheelTypeOK /\ entries \in Seq(EntryType)
      /\ \A i \in DOMAIN entries : entries[i].ring \in Rings /\ entries[i].slot \in Slots
  <2>1. WheelTypeOK /\ entries \in Seq(EntryType)
      BY DEF WheelInv, WheelTyped, WheelTypeOK
  <2>2. \A i \in DOMAIN entries : entries[i] \in EntryType
      BY <2>1
  <2> QED
      BY <2>1, <2>2 DEF EntryType
<1>2. EntriesPlaced /\ OldTimersAreSilent
    BY DEF WheelInv, TimersHaveBodies
<1>3. \A i, j \in DOMAIN freeList : freeList[i] = freeList[j] => i = j
    BY <1>2 DEF EntriesPlaced, IsInjective
<1>4. \A p \in Rings \X Slots : p[1] \in Rings /\ p[2] \in Slots /\ p = <<p[1], p[2]>>
    OBVIOUS
<1>5. \A p \in Rings \X Slots : IsInjective(wheels[p[1]][p[2]])
    BY <1>2, <1>4 DEF EntriesPlaced
<1>6. ASSUME NEW i \in DOMAIN entries, NEW places,
             places = {p \in Rings \X Slots : i \in ToSet(wheels[p[1]][p[2]])}
      PROVE  IF ~Live(i) THEN i \in ToSet(freeList) /\ places = {}
             ELSE /\ i \notin ToSet(freeList)
                  /\ places = IF i \in Pending THEN {} ELSE {<<entries[i].ring, entries[i].slot>>}
  <2>1. \A p \in Rings \X Slots : p \in places <=>
           Live(i) /\ i \notin Pending /\ p[1] = entries[i].ring /\ p[2] = entries[i].slot
      BY <1>2, <1>4, <1>6 DEF EntriesPlaced
  <2>2. places \subseteq Rings \X Slots
      BY <1>6
  <2>3. i \in ToSet(freeList) <=> ~Live(i)
      BY <1>2 DEF EntriesPlaced
  <2>4. entries[i].ring \in Rings /\ entries[i].slot \in Slots
      BY <1>1
  <2>5. CASE ~Live(i)
      BY <2>1, <2>2, <2>3, <2>5
  <2>6. CASE Live(i) /\ i \in Pending
      BY <2>1, <2>2, <2>3, <2>6
  <2>7. CASE Live(i) /\ i \notin Pending
    <3>1. <<entries[i].ring, entries[i].slot>> \in places
        BY <2>1, <2>4, <2>7
    <3>2. \A p \in places : p = <<entries[i].ring, entries[i].slot>>
        BY <1>4, <2>1, <2>2
    <3> QED
        BY <2>3, <2>7, <3>1, <3>2
  <2> QED
      BY <2>5, <2>6, <2>7
<1> QED
    BY <1>1, <1>2, <1>3, <1>5, <1>6 DEF SlotsAreSound

LEMMA WheelStart == WheelInit => WheelInv
<1> SUFFICES ASSUME WheelInit PROVE WheelInv
    OBVIOUS
<1>1. /\ currentTick = 0 /\ nextTimerId = 1 /\ firing = 0 /\ entries = << >> /\ freeList = << >>
      /\ wheels = [r \in Rings |-> [s \in Slots |-> << >>]] /\ pass = NotAdvancing
      /\ entityTimers = [e \in Owners |-> << >>] /\ body = [e \in Owners |-> 1] /\ setBy = << >>
    BY DEF WheelInit
<1>2. /\ DOMAIN entries = {} /\ ToSet(<< >>) = {} /\ IsInjective(<< >>)
      /\ pass.ring = Outside /\ pass.batch = << >>
    BY <1>1 DEF ToSet, IsInjective, NotAdvancing
<1>3. /\ MaxTicks \in Nat /\ MaxTimers \in Nat /\ Levels \in Nat
    BY WheelAssumption
<1>4. WheelTypeOK
    BY <1>1, <1>2, <1>3 DEF WheelTypeOK, NotAdvancing, Outside
<1>5. setBy = [k \in 1 .. nextTimerId - 1 |-> setBy[k]]
    BY <1>1
<1>6. pass \in [ring : 0 .. Levels, batch : Seq(Items)]
    BY <1>1, <1>3 DEF NotAdvancing, Outside
<1>7. WheelTyped
    BY <1>1, <1>2, <1>4, <1>5, <1>6 DEF WheelTyped
<1>8. IdsApart
    BY <1>1, <1>2 DEF IdsApart
<1>9. EntriesPlaced
    BY <1>1, <1>2 DEF EntriesPlaced
<1>10. EntriesAhead /\ TimersHaveBodies
    BY <1>1, <1>2 DEF EntriesAhead, TimersHaveBodies, OldTimersAreSilent
<1> QED
    BY <1>7, <1>8, <1>9, <1>10 DEF WheelInv

\* What a batch has still to look at, among some entries.
Unseen(b, q) == {b[k].index : k \in {k \in DOMAIN b :
                    q[b[k].index].id = b[k].id /\ ~q[b[k].index].cancelled}}

LEMMA UnseenIs ==
    ASSUME NEW b, NEW q, NEW i
    PROVE  i \in Unseen(b, q) <=> \E k \in DOMAIN b : /\ b[k].index = i /\ q[i].id = b[k].id
                                                       /\ ~q[i].cancelled
BY DEF Unseen

LEMMA PendingIs == Pending = Unseen(pass.batch, entries)
BY DEF Pending, Unseen, Due, Holds, Live

\* The head of a batch goes, and perhaps its entry: the others are unseen as before.
OnlyHeadChanged(S, D, b, q, p) ==
    /\ \A x \in S : x.index \in D
    /\ b \in Seq(S) /\ b # << >>
    /\ \A k, m \in DOMAIN b : b[k].index = b[m].index => k = m
    /\ \A j \in D : j # Head(b).index => (p[j].id = q[j].id /\ p[j].cancelled = q[j].cancelled)

LEMMA UnseenRest ==
    ASSUME NEW S, NEW D, NEW b, NEW q, NEW p, OnlyHeadChanged(S, D, b, q, p)
    PROVE  Unseen(Tail(b), p) = Unseen(b, q) \ {Head(b).index}
<1>7. /\ \A x \in S : x.index \in D
      /\ b \in Seq(S) /\ b # << >>
      /\ \A k, m \in DOMAIN b : b[k].index = b[m].index => k = m
      /\ \A j \in D : j # Head(b).index => (p[j].id = q[j].id /\ p[j].cancelled = q[j].cancelled)
    BY DEF OnlyHeadChanged
<1>1. PICK c : c = Tail(b)
    OBVIOUS
<1>2. /\ c \in Seq(S) /\ Len(c) = Len(b) - 1 /\ Head(b) = b[1] /\ Len(b) >= 1
      /\ \A i \in 1 .. Len(b) - 1 : c[i] = b[i + 1]
    BY <1>1, <1>7
<1>3. PICK h : h = Head(b).index
    OBVIOUS
<1>4. b[1].index = h /\ DOMAIN b = 1 .. Len(b) /\ Len(b) \in Nat /\ DOMAIN c = 1 .. Len(b) - 1
    BY <1>2, <1>3, <1>7
<1>6. /\ \A k \in DOMAIN b : b[k].index \in D
      /\ \A k \in DOMAIN c : c[k].index \in D
  <2>1. \A k \in DOMAIN b : b[k] \in S
      BY <1>7
  <2>2. \A k \in DOMAIN c : c[k] \in S
      BY <1>2
  <2> QED
      BY <1>7, <2>1, <2>2
<1>5. ASSUME NEW i PROVE i \in Unseen(c, p) <=> i \in Unseen(b, q) /\ i # h
  <2>1. ASSUME i \in Unseen(c, p) PROVE i \in Unseen(b, q) /\ i # h
    <3>1. PICK k \in DOMAIN c : c[k].index = i /\ p[i].id = c[k].id /\ ~p[i].cancelled
        BY <2>1, UnseenIs
    <3>2. k + 1 \in DOMAIN b /\ b[k + 1] = c[k] /\ k + 1 # 1 /\ 1 \in DOMAIN b
        BY <1>2, <1>4
    <3>3. i # h
        BY <1>4, <1>7, <3>1, <3>2
    <3>4. q[i].id = p[i].id /\ q[i].cancelled = p[i].cancelled
        BY <1>3, <1>6, <1>7, <3>1, <3>3
    <3>5. b[k + 1].index = i /\ q[i].id = b[k + 1].id /\ ~q[i].cancelled
        BY <3>1, <3>2, <3>4
    <3> QED
        BY <3>2, <3>3, <3>5, UnseenIs
  <2>2. ASSUME i \in Unseen(b, q), i # h PROVE i \in Unseen(c, p)
    <3>1. PICK k \in DOMAIN b : b[k].index = i /\ q[i].id = b[k].id /\ ~q[i].cancelled
        BY <2>2, UnseenIs
    <3>2. k # 1
        BY <1>4, <2>2, <3>1
    <3>3. k - 1 \in DOMAIN c /\ c[k - 1] = b[k]
        BY <1>2, <1>4, <3>2
    <3>4. q[i].id = p[i].id /\ q[i].cancelled = p[i].cancelled
        BY <1>3, <1>6, <1>7, <2>2, <3>1
    <3>5. c[k - 1].index = i /\ p[i].id = c[k - 1].id /\ ~p[i].cancelled
        BY <3>1, <3>3, <3>4
    <3> QED
        BY <3>3, <3>5, UnseenIs
  <2> QED
      BY <2>1, <2>2
<1> QED
    BY <1>1, <1>3, <1>5

-----------------------------------------------------------------------------
(* What is inserted *)

\* What the invariant says of one entry.
LEMMA EntryIs ==
    ASSUME WheelInv
    PROVE  /\ currentTick \in Nat /\ nextTimerId \in Nat \ {0} /\ entries \in Seq(EntryType)
           /\ DOMAIN entries = 1 .. Len(entries) /\ Len(entries) \in Nat
           /\ \A i \in DOMAIN entries :
                 /\ entries[i] \in EntryType /\ entries[i].id \in 1 .. MaxTimers /\ entries[i].fireTick \in Nat
                 /\ entries[i].period \in Nat /\ entries[i].cancelled \in BOOLEAN
                 /\ entries[i].ring \in Rings /\ entries[i].slot \in Slots
           /\ freeList \in Seq(DOMAIN entries) /\ wheels \in [Rings -> [Slots -> Seq(DOMAIN entries)]]
<1>1. /\ currentTick \in 0 .. MaxTicks /\ nextTimerId \in 1 .. MaxTimers + 1 /\ entries \in Seq(EntryType)
      /\ freeList \in Seq(DOMAIN entries) /\ wheels \in [Rings -> [Slots -> Seq(DOMAIN entries)]]
    BY DEF WheelInv, WheelTyped, WheelTypeOK
<1>2. MaxTicks \in Nat /\ MaxTimers \in Nat
    BY WheelAssumption
<1>3. \A i \in DOMAIN entries : entries[i] \in EntryType
    BY <1>1
<1>4. \A i \in DOMAIN entries : /\ entries[i].id \in 1 .. MaxTimers /\ entries[i].fireTick \in Nat
                 /\ entries[i].period \in Nat /\ entries[i].cancelled \in BOOLEAN
                 /\ entries[i].ring \in Rings /\ entries[i].slot \in Slots
    BY <1>3 DEF EntryType
<1> QED
    BY <1>1, <1>2, <1>3, <1>4

\* An entry with the place that insertEntry gives it, when it is due later.
Placed(e) ==
    LET r == RingFor(e.fireTick - currentTick)
    IN [e EXCEPT !.ring = r, !.slot = SlotIn(r, e.fireTick)]

EntriesWith(index, p) == IF index <= Len(entries) THEN [entries EXCEPT ![index] = p]
                         ELSE Append(entries, p)
WheelsWith(index, p) == [wheels EXCEPT ![p.ring][p.slot] = Append(@, index)]

\* An entry that is in no slot and due later may be inserted at an index.
Insertable(index, e) ==
    /\ index \in 1 .. Len(entries) + 1 /\ e \in EntryType /\ e.fireTick > currentTick /\ ~e.cancelled
    /\ \A r \in Rings, s \in Slots : index \notin ToSet(wheels[r][s])

\* What the entries and the slots are with it.
InsertionFits(index, e, q, v) ==
    /\ q \in Seq(EntryType) /\ DOMAIN q = DOMAIN entries \cup {index}
    /\ q[index].id = e.id /\ q[index].fireTick = e.fireTick
    /\ q[index].period = e.period /\ q[index].cancelled = FALSE
    /\ \A z : Ahead(q[index], FALSE, currentTick, z)
    /\ \A j \in DOMAIN entries : j # index => q[j] = entries[j]
    /\ v \in [Rings -> [Slots -> Seq(DOMAIN q)]]
    /\ \A r \in Rings, s \in Slots :
          /\ IsInjective(v[r][s])
          /\ \A j : j \in ToSet(v[r][s]) <=>
                \/ j \in ToSet(wheels[r][s])
                \/ j = index /\ r = q[index].ring /\ s = q[index].slot

LEMMA InsertIs ==
    ASSUME WheelInv, NEW index, NEW e, Insertable(index, e)
    PROVE  InsertionFits(index, e, EntriesWith(index, Placed(e)), WheelsWith(index, Placed(e)))
<1>25. PICK q : q = EntriesWith(index, Placed(e))
    OBVIOUS
<1>26. PICK v : v = WheelsWith(index, Placed(e))
    OBVIOUS
<1>27. /\ index \in 1 .. Len(entries) + 1 /\ e \in EntryType /\ e.fireTick > currentTick /\ ~e.cancelled
       /\ \A r \in Rings, s \in Slots : index \notin ToSet(wheels[r][s])
    BY DEF Insertable
<1>1. /\ currentTick \in Nat /\ entries \in Seq(EntryType) /\ wheels \in [Rings -> [Slots -> Seq(DOMAIN entries)]]
      /\ DOMAIN entries = 1 .. Len(entries) /\ Len(entries) \in Nat
    BY EntryIs
<1>2. e.fireTick \in Nat /\ e.cancelled = FALSE
    BY <1>27 DEF EntryType
<1>3. PICK r : r = RingFor(e.fireTick - currentTick)
    OBVIOUS
<1>4. /\ r \in Rings /\ e.fireTick \div Span(r) > currentTick \div Span(r)
      /\ r = 0 => e.fireTick < currentTick + SlotsPerLevel
    BY <1>1, <1>2, <1>3, <1>27, PlacedAhead
<1>5. PICK s : s = SlotIn(r, e.fireTick)
    OBVIOUS
<1>6. s \in Slots
    BY <1>2, <1>4, <1>5, SlotIs
<1>7. PICK p : p = Placed(e)
    OBVIOUS
<1>24. p = [e EXCEPT !.ring = r, !.slot = s]
    BY <1>3, <1>5, <1>7 DEF Placed
<1>8. /\ p \in EntryType /\ p.id = e.id /\ p.fireTick = e.fireTick /\ p.period = e.period
      /\ p.cancelled = FALSE /\ p.ring = r /\ p.slot = s
    BY <1>2, <1>4, <1>6, <1>24, <1>27 DEF EntryType
<1>9. /\ q = IF index <= Len(entries) THEN [entries EXCEPT ![index] = p] ELSE Append(entries, p)
      /\ v = [wheels EXCEPT ![r][s] = Append(@, index)]
    BY <1>7, <1>8, <1>25, <1>26 DEF EntriesWith, WheelsWith
<1>10. /\ q \in Seq(EntryType) /\ DOMAIN q = DOMAIN entries \cup {index}
       /\ q[index] = p /\ \A j \in DOMAIN entries : j # index => q[j] = entries[j]
  <2>1. CASE index <= Len(entries)
    <3>1. q = [entries EXCEPT ![index] = p] /\ index \in DOMAIN entries
        BY <1>1, <1>9, <1>27, <2>1
    <3> QED
        BY <1>1, <1>8, <3>1
  <2>2. CASE index > Len(entries)
    <3>1. index = Len(entries) + 1 /\ q = Append(entries, p)
      <4>1. index \in 1 .. Len(entries) + 1 /\ Len(entries) \in Nat
          BY <1>1, <1>27
      <4>2. index = Len(entries) + 1 /\ ~(index <= Len(entries))
          BY <2>2, <4>1
      <4> QED
          BY <1>9, <4>2
    <3>3. /\ q \in Seq(EntryType) /\ Len(q) = Len(entries) + 1 /\ q[Len(entries) + 1] = p
          /\ \A j \in 1 .. Len(entries) : q[j] = entries[j]
      <4>1. PICK z : z = Append(entries, p)
          OBVIOUS
      <4>2. /\ z \in Seq(EntryType) /\ Len(z) = Len(entries) + 1 /\ z[Len(entries) + 1] = p
            /\ \A j \in 1 .. Len(entries) : z[j] = entries[j]
          BY <1>1, <1>8, <4>1
      <4>3. q = z
          BY <3>1, <4>1
      <4> QED
          BY <4>2, <4>3
    <3>4. DOMAIN q = 1 .. Len(entries) + 1
        BY <3>3
    <3>5. DOMAIN q = DOMAIN entries \cup {index}
      <4>1. DOMAIN entries = 1 .. Len(entries) /\ Len(entries) \in Nat /\ index = Len(entries) + 1
          BY <1>1, <3>1
      <4>2. 1 .. Len(entries) + 1 = (1 .. Len(entries)) \cup {Len(entries) + 1}
          BY <4>1
      <4> QED
          BY <3>4, <4>1, <4>2
    <3> QED
        BY <1>1, <3>1, <3>3, <3>5
  <2> QED
      BY <1>1, <1>27, <2>1, <2>2
<1>11. \A z : Ahead(p, FALSE, currentTick, z)
    BY <1>4, <1>5, <1>8 DEF Ahead
<1>12. PICK w : w = wheels[r][s]
    OBVIOUS
<1>13. w \in Seq(DOMAIN q) /\ IsInjective(w) /\ index \notin ToSet(w) /\ index \in DOMAIN q
  <2>1. w \in Seq(DOMAIN entries) /\ IsInjective(w)
      BY <1>1, <1>4, <1>6, <1>12 DEF WheelInv, EntriesPlaced
  <2>2. DOMAIN entries \subseteq DOMAIN q
      BY <1>10
  <2>3. w \in Seq(DOMAIN q)
      BY <2>1, <2>2, SeqOfMore
  <2> QED
      BY <1>4, <1>6, <1>10, <1>12, <1>27, <2>1, <2>3
<1>14. PICK u : u = Append(w, index)
    OBVIOUS
<1>15. u \in Seq(DOMAIN q) /\ ToSet(u) = ToSet(w) \cup {index} /\ IsInjective(u)
    BY <1>13, <1>14, AppendIs
<1>16. v = [wheels EXCEPT ![r] = [wheels[r] EXCEPT ![s] = u]]
    BY <1>9, <1>12, <1>14
<1>17. \A a \in Rings, b \in Slots : v[a][b] = IF a = r /\ b = s THEN u ELSE wheels[a][b]
    BY <1>1, <1>4, <1>6, <1>16
<1>18. \A a \in Rings, b \in Slots : wheels[a][b] \in Seq(DOMAIN q) /\ IsInjective(wheels[a][b])
  <2>1. ASSUME NEW a \in Rings, NEW b \in Slots
        PROVE  wheels[a][b] \in Seq(DOMAIN q) /\ IsInjective(wheels[a][b])
    <3>1. wheels[a][b] \in Seq(DOMAIN entries)
        BY <1>1
    <3>2. DOMAIN entries \subseteq DOMAIN q
        BY <1>10
    <3>3. wheels[a][b] \in Seq(DOMAIN q)
        BY <3>1, <3>2, SeqOfMore
    <3> QED
        BY <3>3 DEF WheelInv, EntriesPlaced
  <2> QED
      BY <2>1
<1>19. v \in [Rings -> [Slots -> Seq(DOMAIN q)]]
  <2>1. \A a \in Rings, b \in Slots : v[a][b] \in Seq(DOMAIN q)
      BY <1>15, <1>17, <1>18
  <2>2. DOMAIN v = Rings /\ \A a \in Rings : v[a] = [b \in Slots |-> v[a][b]]
      BY <1>1, <1>4, <1>16
  <2>3. \A a \in Rings : v[a] \in [Slots -> Seq(DOMAIN q)]
      BY <2>1, <2>2
  <2>4. v = [a \in Rings |-> v[a]]
      BY <1>1, <1>16
  <2> QED
      BY <2>3, <2>4
<1>20. \A a \in Rings, b \in Slots :
          /\ IsInjective(v[a][b])
          /\ \A j : j \in ToSet(v[a][b]) <=> j \in ToSet(wheels[a][b]) \/ (j = index /\ a = r /\ b = s)
    BY <1>12, <1>15, <1>17, <1>18
<1>21. q[index].ring = r /\ q[index].slot = s
    BY <1>8, <1>10
<1>22. \A a \in Rings, b \in Slots :
          /\ IsInjective(v[a][b])
          /\ \A j : j \in ToSet(v[a][b]) <=> j \in ToSet(wheels[a][b]) \/
                (j = index /\ a = q[index].ring /\ b = q[index].slot)
    BY <1>20, <1>21
<1>23. \A z : Ahead(q[index], FALSE, currentTick, z)
    BY <1>10, <1>11
<1> QED
    BY <1>8, <1>10, <1>19, <1>22, <1>23, <1>25, <1>26 DEF InsertionFits

\* insertEntry, as a step.
LEMMA InsertedIs ==
    ASSUME NEW index, NEW e \in EntryType, currentTick \in Nat, e.fireTick \in Nat, e.fireTick > currentTick,
           NEW r, r = RingFor(e.fireTick - currentTick)
    PROVE  Inserted(index, e, wheels) =>
              /\ entries' = EntriesWith(index, Placed(e))
              /\ wheels' = WheelsWith(index, Placed(e))
<1>1. Placed(e) = [e EXCEPT !.ring = r, !.slot = SlotIn(r, e.fireTick)]
    BY DEF Placed
<1>2. Placed(e).ring = r /\ Placed(e).slot = SlotIn(r, e.fireTick)
    BY <1>1 DEF EntryType
<1>3. (IF e.fireTick > currentTick THEN e.fireTick - currentTick ELSE 0) = e.fireTick - currentTick
    OBVIOUS
<1> SUFFICES ASSUME Inserted(index, e, wheels)
             PROVE  entries' = EntriesWith(index, Placed(e)) /\ wheels' = WheelsWith(index, Placed(e))
    OBVIOUS
<1>4. PICK s : s = SlotIn(r, e.fireTick)
    OBVIOUS
<1>5. /\ entries' = IF index <= Len(entries) THEN [entries EXCEPT ![index] = [e EXCEPT !.ring = r, !.slot = s]]
                    ELSE Append(entries, [e EXCEPT !.ring = r, !.slot = s])
      /\ wheels' = [wheels EXCEPT ![r][s] = Append(@, index)]
    BY <1>3, <1>4 DEF Inserted
<1> QED
    BY <1>1, <1>2, <1>4, <1>5 DEF EntriesWith, WheelsWith

LEMMA InsertedFits ==
    ASSUME WheelInv, NEW index, NEW e, Insertable(index, e)
    PROVE  Inserted(index, e, wheels) => InsertionFits(index, e, entries', wheels')
<1>1. SUFFICES ASSUME Inserted(index, e, wheels) PROVE InsertionFits(index, e, entries', wheels')
    OBVIOUS
<1>2. e \in EntryType /\ e.fireTick > currentTick /\ currentTick \in Nat /\ e.fireTick \in Nat
    BY EntryIs DEF Insertable, EntryType
<1>3. entries' = EntriesWith(index, Placed(e)) /\ wheels' = WheelsWith(index, Placed(e))
    BY <1>1, <1>2, InsertedIs
<1> QED
    BY <1>3, InsertIs

\* With an entry inserted, and taken from the pool or the batch, all are where they belong.
LEMMA PutKeeps ==
    ASSUME WheelInv, NEW index, NEW e, Insertable(index, e),
           InsertionFits(index, e, entries', wheels'),
           UNCHANGED currentTick, pass'.ring = pass.ring,
           IsInjective(freeList'), ToSet(freeList') = ToSet(freeList) \ {index},
           Pending' = Pending \ {index}
    PROVE  EntriesPlaced' /\ EntriesAhead'
<1>1. /\ DOMAIN entries' = DOMAIN entries \cup {index} /\ entries'[index].cancelled = FALSE
      /\ \A z : Ahead(entries'[index], FALSE, currentTick, z)
      /\ \A j \in DOMAIN entries : j # index => entries'[j] = entries[j]
      /\ \A r \in Rings, s \in Slots :
            /\ IsInjective(wheels'[r][s])
            /\ \A j : j \in ToSet(wheels'[r][s]) <=>
                  \/ j \in ToSet(wheels[r][s])
                  \/ j = index /\ r = entries'[index].ring /\ s = entries'[index].slot
    BY DEF InsertionFits
<1>2. EntriesPlaced /\ EntriesAhead
    BY DEF WheelInv
<1>3. \A j \in DOMAIN entries' : j \in ToSet(freeList') <=> entries'[j].cancelled
  <2>1. ASSUME NEW j \in DOMAIN entries' PROVE j \in ToSet(freeList') <=> entries'[j].cancelled
    <3>1. CASE j = index
        BY <1>1, <3>1
    <3>2. CASE j # index
      <4>1. j \in DOMAIN entries /\ entries'[j] = entries[j]
          BY <1>1, <3>2
      <4>2. j \in ToSet(freeList) <=> entries[j].cancelled
          BY <1>2, <4>1 DEF EntriesPlaced, Live
      <4> QED
          BY <3>2, <4>1, <4>2
    <3> QED
        BY <3>1, <3>2
  <2> QED
      BY <2>1
<1>4. ASSUME NEW r \in Rings, NEW s \in Slots, NEW j \in DOMAIN entries'
      PROVE  j \in ToSet(wheels'[r][s]) <=>
                ~entries'[j].cancelled /\ j \notin Pending' /\ r = entries'[j].ring /\ s = entries'[j].slot
  <2>1. CASE j = index
    <3>1. j \notin ToSet(wheels[r][s]) /\ j \notin Pending'
        BY <2>1 DEF Insertable
    <3> QED
        BY <1>1, <2>1, <3>1
  <2>2. CASE j # index
    <3>1. j \in DOMAIN entries /\ entries'[j] = entries[j] /\ (j \in Pending' <=> j \in Pending)
        BY <1>1, <2>2
    <3>2. j \in ToSet(wheels'[r][s]) <=> j \in ToSet(wheels[r][s])
        BY <1>1, <2>2
    <3>3. j \in ToSet(wheels[r][s]) <=>
             ~entries[j].cancelled /\ j \notin Pending /\ r = entries[j].ring /\ s = entries[j].slot
        BY <1>2, <3>1 DEF EntriesPlaced, Live
    <3> QED
        BY <3>1, <3>2, <3>3
  <2> QED
      BY <2>1, <2>2
<1>5. EntriesPlaced'
  <2>1. \A r \in Rings, s \in Slots : IsInjective(wheels'[r][s])
      BY <1>1
  <2> QED
      BY <1>3, <1>4, <2>1 DEF EntriesPlaced, Live
<1>6. ASSUME NEW j \in DOMAIN entries', ~entries'[j].cancelled
      PROVE  Ahead(entries'[j], j \in Pending', currentTick', pass'.ring)
  <2>1. CASE j = index
    <3>1. j \notin Pending'
        BY <2>1
    <3>2. Ahead(entries'[j], FALSE, currentTick, pass.ring)
        BY <1>1, <2>1
    <3> QED
        BY <3>1, <3>2 DEF Ahead
  <2>2. CASE j # index
    <3>1. j \in DOMAIN entries /\ entries'[j] = entries[j] /\ (j \in Pending' <=> j \in Pending)
        BY <1>1, <2>2
    <3>2. Ahead(entries[j], j \in Pending, currentTick, pass.ring)
        BY <1>2, <1>6, <3>1 DEF EntriesAhead, Live
    <3> QED
        BY <3>1, <3>2 DEF Ahead
  <2> QED
      BY <2>1, <2>2
<1> QED
    BY <1>5, <1>6 DEF EntriesAhead, Live

\* What the invariant says of an item of the batch.
LEMMA BatchIs ==
    ASSUME WheelInv
    PROVE  /\ pass \in [ring : 0 .. Levels, batch : Seq(Items)] /\ pass.batch \in Seq(Items)
           /\ \A k \in DOMAIN pass.batch : /\ pass.batch[k].index \in DOMAIN entries
                                           /\ pass.batch[k].id \in 1 .. MaxTimers
<1>1. pass \in [ring : 0 .. Levels, batch : Seq(Items)]
    BY DEF WheelInv, WheelTyped
<1>2. pass.batch \in Seq(Items)
    BY <1>1
<1>3. \A k \in DOMAIN pass.batch : pass.batch[k] \in Items
    BY <1>2
<1> QED
    BY <1>1, <1>2, <1>3 DEF Items

\* Where the entries of a batch look as before to it, it has the same to look at.
LEMMA UnseenSame ==
    ASSUME NEW b, NEW q, NEW p,
           \A k \in DOMAIN b : p[b[k].index].id = b[k].id /\ ~p[b[k].index].cancelled
                           <=> q[b[k].index].id = b[k].id /\ ~q[b[k].index].cancelled
    PROVE  Unseen(b, p) = Unseen(b, q)
BY DEF Unseen

\* addTimer: the entry takes a place that was free, under a new id.
LEMMA AddIs ==
    ASSUME WheelInv, NEW ask \in Asks, AddEntry(ask)
    PROVE  \E index \in 1 .. Len(entries) + 1 :
              /\ index \in DOMAIN entries => ~Live(index)
              /\ entries' \in Seq(EntryType) /\ DOMAIN entries' = DOMAIN entries \cup {index}
              /\ entries'[index].id = nextTimerId /\ ~entries'[index].cancelled
              /\ entries'[index].fireTick > currentTick
              /\ \A j \in DOMAIN entries : j # index => entries'[j] = entries[j]
              /\ wheels' \in [Rings -> [Slots -> Seq(DOMAIN entries')]]
              /\ freeList' \in Seq(DOMAIN entries')
              /\ nextTimerId \in 1 .. MaxTimers
              /\ Pending' = Pending /\ EntriesPlaced' /\ EntriesAhead'
<1>1. PICK index : index = AllocEntry
    OBVIOUS
<1>2. /\ currentTick \in Nat /\ entries \in Seq(EntryType)
      /\ DOMAIN entries = 1 .. Len(entries) /\ Len(entries) \in Nat /\ freeList \in Seq(DOMAIN entries)
      /\ wheels \in [Rings -> [Slots -> Seq(DOMAIN entries)]]
    BY EntryIs
<1>3. /\ EntriesPlaced /\ IdsApart /\ WheelTyped
    BY DEF WheelInv
<1>4. /\ freeList' \in Seq(DOMAIN entries) /\ IsInjective(freeList')
      /\ ToSet(freeList') = ToSet(freeList) \ {index}
      /\ (index \in DOMAIN entries /\ ~Live(index)) \/ index = Len(entries) + 1
  <2>1. freeList' = IF freeList = << >> THEN << >> ELSE Front(freeList)
      BY DEF AddEntry, FreeAfterAlloc
  <2>2. CASE freeList = << >>
    <3>1. index = Len(entries) + 1 /\ freeList' = << >>
        BY <1>1, <2>1, <2>2 DEF AllocEntry
    <3>2. ToSet(<< >>) = {} /\ IsInjective(<< >>) /\ << >> \in Seq(DOMAIN entries)
        BY DEF ToSet, IsInjective
    <3> QED
        BY <2>2, <3>1, <3>2
  <2>3. CASE freeList # << >>
    <3>1. index = Last(freeList) /\ freeList' = Front(freeList)
        BY <1>1, <2>1, <2>3 DEF AllocEntry
    <3>2. IsInjective(freeList)
        BY <1>3 DEF EntriesPlaced
    <3>3. /\ Front(freeList) \in Seq(DOMAIN entries) /\ IsInjective(Front(freeList))
          /\ Last(freeList) \in ToSet(freeList) /\ Last(freeList) \in DOMAIN entries
          /\ ToSet(Front(freeList)) = ToSet(freeList) \ {Last(freeList)}
        BY <1>2, <2>3, <3>2, FrontLastIs
    <3>4. ~Live(Last(freeList))
        BY <1>3, <3>3 DEF EntriesPlaced
    <3> QED
        BY <3>1, <3>3, <3>4
  <2> QED
      BY <2>2, <2>3
<1>5. index \in 1 .. Len(entries) + 1 /\ (index \in DOMAIN entries => ~Live(index))
    BY <1>2, <1>4
<1>6. \A r \in Rings, s \in Slots : index \notin ToSet(wheels[r][s])
  <2>1. ASSUME NEW r \in Rings, NEW s \in Slots, index \in ToSet(wheels[r][s]) PROVE FALSE
    <3>1. wheels[r][s] \in Seq(DOMAIN entries)
        BY <1>2
    <3>2. index \in DOMAIN entries
        BY <2>1, <3>1 DEF ToSet
    <3> QED
        BY <1>3, <1>5, <2>1, <3>2 DEF EntriesPlaced
  <2> QED
      BY <2>1
<1>7. PICK d \in Nat : d = AtLeast1(ask.delay) /\ d > 0
  <2>1. ask.delay \in Nat
      BY WheelAssumption
  <2> QED
      BY <2>1 DEF AtLeast1
<1>8. nextTimerId \in 1 .. MaxTimers
    BY <1>3, WheelAssumption DEF AddEntry, WheelTyped, WheelTypeOK
<1>9. PICK e : e = [id |-> nextTimerId, fireTick |-> currentTick + AtLeast1(ask.delay),
                    period |-> IF ask.periodic THEN AtLeast1(ask.delay) ELSE 0,
                    cancelled |-> FALSE, ring |-> 0, slot |-> 0]
    OBVIOUS
<1>10. e \in EntryType
  <2>1. currentTick + d \in Nat /\ (IF ask.periodic THEN d ELSE 0) \in Nat /\ 0 \in Rings /\ 0 \in Slots
    <3>1. 0 \in Rings /\ SlotsPerLevel \in Nat \ {0}
        BY SpansAre, WheelAssumption
    <3>2. 0 \in Slots
        BY <3>1 DEF Slots
    <3> QED
        BY <1>2, <1>7, <3>1, <3>2
  <2> QED
      BY <1>7, <1>8, <1>9, <2>1 DEF EntryType
<1>11. e.fireTick > currentTick /\ ~e.cancelled /\ e.id = nextTimerId
    BY <1>2, <1>7, <1>9
<1>12. Insertable(index, e)
    BY <1>5, <1>6, <1>10, <1>11 DEF Insertable
<1>19. InsertionFits(index, e, entries', wheels')
  <2>1. Inserted(index, e, wheels)
      BY <1>1, <1>9 DEF AddEntry
  <2> QED
      BY <1>12, <2>1, InsertedFits
<1>13. /\ entries' \in Seq(EntryType) /\ DOMAIN entries' = DOMAIN entries \cup {index}
       /\ entries'[index].id = e.id /\ entries'[index].fireTick = e.fireTick /\ entries'[index].cancelled = FALSE
       /\ \A j \in DOMAIN entries : j # index => entries'[j] = entries[j]
       /\ wheels' \in [Rings -> [Slots -> Seq(DOMAIN entries')]]
    BY <1>19 DEF InsertionFits
<1>14. pass' = pass /\ currentTick' = currentTick
    BY DEF AddEntry
<1>15. Pending' = Pending
  <2>1. ASSUME NEW k \in DOMAIN pass.batch
        PROVE  entries'[pass.batch[k].index].id = pass.batch[k].id /\ ~entries'[pass.batch[k].index].cancelled
           <=> entries[pass.batch[k].index].id = pass.batch[k].id /\ ~entries[pass.batch[k].index].cancelled
    <3>1. pass.batch[k].index \in DOMAIN entries
        BY BatchIs
    <3>2. CASE pass.batch[k].index = index
      <4>1. entries[index].cancelled
          BY <1>5, <3>1, <3>2 DEF Live
      <4>2. entries'[index].id = nextTimerId /\ pass.batch[k].id < nextTimerId
          BY <1>3, <1>11, <1>13 DEF IdsApart
      <4>3. pass.batch[k].id # nextTimerId
          BY <1>8, <4>2
      <4> QED
          BY <3>2, <4>1, <4>2, <4>3
    <3>3. CASE pass.batch[k].index # index
        BY <1>13, <3>1, <3>3
    <3> QED
        BY <3>2, <3>3
  <2>2. Unseen(pass.batch, entries') = Unseen(pass.batch, entries)
      BY <2>1, UnseenSame
  <2>3. Pending' = Unseen(pass.batch, entries')
      BY <1>14 DEF Pending, Unseen, Due, Holds, Live
  <2> QED
      BY <2>2, <2>3, PendingIs
<1>16. index \notin Pending
  <2>1. ASSUME index \in Pending PROVE FALSE
    <3>1. PICK k \in DOMAIN pass.batch : pass.batch[k].index = index /\ Live(index)
        BY <2>1 DEF Pending, Due, Holds
    <3>2. index \in DOMAIN entries
        BY <3>1, BatchIs
    <3> QED
        BY <1>5, <3>1, <3>2
  <2> QED
      BY <2>1
<1>17. EntriesPlaced' /\ EntriesAhead'
  <2>1. Pending' = Pending \ {index} /\ pass'.ring = pass.ring
      BY <1>14, <1>15, <1>16
  <2> QED
      BY <1>4, <1>12, <1>14, <1>19, <2>1, PutKeeps
<1>18. freeList' \in Seq(DOMAIN entries')
  <2>1. DOMAIN entries \subseteq DOMAIN entries'
      BY <1>13
  <2> QED
      BY <1>4, <2>1, SeqOfMore
<1> QED
    BY <1>5, <1>8, <1>11, <1>13, <1>15, <1>17, <1>18

LEMMA AddStep ==
    ASSUME WheelInv, NEW ask \in Asks, AddTimer(ask) \/ AddEntityTimer(ask)
    PROVE  WheelInv'
<1>1. AddEntry(ask)
    BY DEF AddTimer, AddEntityTimer
<1>2. PICK index \in 1 .. Len(entries) + 1 :
         /\ entries' \in Seq(EntryType) /\ DOMAIN entries' = DOMAIN entries \cup {index}
         /\ entries'[index].id = nextTimerId
         /\ \A j \in DOMAIN entries : j # index => entries'[j] = entries[j]
         /\ wheels' \in [Rings -> [Slots -> Seq(DOMAIN entries')]]
         /\ freeList' \in Seq(DOMAIN entries') /\ nextTimerId \in 1 .. MaxTimers
         /\ Pending' = Pending /\ EntriesPlaced' /\ EntriesAhead'
    BY <1>1, AddIs
<1>3. /\ currentTick' = currentTick /\ pass' = pass /\ firing' = firing /\ body' = body
      /\ leftBehind' = leftBehind /\ nextTimerId' = nextTimerId + 1
    BY <1>1 DEF AddEntry
<1>4. WheelTyped /\ IdsApart /\ TimersHaveBodies /\ WheelTypeOK
    BY DEF WheelInv, WheelTyped
<1>5. MaxTimers \in Nat /\ nextTimerId' \in 1 .. MaxTimers + 1
    BY <1>2, <1>3, WheelAssumption
<1>6. PICK x : /\ setBy' = Append(setBy, x)
               /\ \/ x.owner = NoOwner /\ entityTimers' = entityTimers
                  \/ /\ x.owner \in Owners /\ x.body = body[x.owner] /\ x.body # 0
                     /\ entityTimers' = [entityTimers EXCEPT ![x.owner] = Append(@, nextTimerId)]
  <2>1. CASE AddTimer(ask)
    <3>1. /\ setBy' = Append(setBy, [owner |-> NoOwner, body |-> 0])
          /\ [owner |-> NoOwner, body |-> 0].owner = NoOwner /\ entityTimers' = entityTimers
        BY <2>1 DEF AddTimer
    <3> QED
        BY <3>1
  <2>2. CASE AddEntityTimer(ask)
    <3>1. PICK o : o = ask.owner
        OBVIOUS
    <3>2. PICK x : x = [owner |-> o, body |-> body[o]]
        OBVIOUS
    <3>3. x.owner = o /\ x.body = body[o]
        BY <3>2
    <3>4. /\ setBy' = Append(setBy, x) /\ o \in Owners /\ body[o] # 0
          /\ entityTimers' = [entityTimers EXCEPT ![o] = Append(@, nextTimerId)]
        BY <2>2, <3>1, <3>2 DEF AddEntityTimer
    <3> QED
        BY <3>3, <3>4
  <2> QED
      BY <2>1, <2>2
<1>7. /\ setBy' = [k \in 1 .. nextTimerId' - 1 |-> setBy'[k]]
      /\ setBy'[nextTimerId] = x /\ \A k \in 1 .. nextTimerId - 1 : setBy'[k] = setBy[k]
  <2>1. PICK n \in Nat : n = nextTimerId - 1
    <3>1. nextTimerId - 1 \in Nat
        BY <1>2
    <3> QED
        BY <3>1
  <2>2. setBy = [k \in 1 .. n |-> setBy[k]]
      BY <1>4, <2>1 DEF WheelTyped
  <2>3. Append(setBy, x) = [k \in 1 .. n + 1 |-> IF k = n + 1 THEN x ELSE setBy[k]]
      BY <2>2, AppendTo
  <2>4. n + 1 = nextTimerId /\ nextTimerId' - 1 = n + 1
      BY <1>2, <1>3, <2>1
  <2>5. n + 1 \in 1 .. n + 1 /\ \A k \in 1 .. n : k \in 1 .. n + 1 /\ k # n + 1
      OBVIOUS
  <2> QED
      BY <1>6, <2>1, <2>3, <2>4, <2>5
<1>8. /\ entityTimers' \in [Owners -> Seq(1 .. MaxTimers)]
      /\ \A e \in Owners : /\ IsInjective(entityTimers'[e])
                           /\ \A a \in ToSet(entityTimers'[e]) : a < nextTimerId'
                           /\ ToSet(entityTimers[e]) \subseteq ToSet(entityTimers'[e])
      /\ x.owner # NoOwner => x.owner \in Owners /\ nextTimerId \in ToSet(entityTimers'[x.owner])
  <2>1. /\ entityTimers \in [Owners -> Seq(1 .. MaxTimers)]
        /\ \A e \in Owners : IsInjective(entityTimers[e]) /\ \A a \in ToSet(entityTimers[e]) : a < nextTimerId
      BY <1>4 DEF WheelTyped, IdsApart
  <2>2. \A e \in Owners : \A a \in ToSet(entityTimers[e]) : a < nextTimerId'
    <3>1. ASSUME NEW e \in Owners, NEW a \in ToSet(entityTimers[e]) PROVE a \in 1 .. MaxTimers
      <4>1. entityTimers[e] \in Seq(1 .. MaxTimers)
          BY <2>1
      <4>2. PICK T : T = 1 .. MaxTimers
          OBVIOUS
      <4>3. entityTimers[e] \in Seq(T)
          BY <4>1, <4>2
      <4> QED
          BY <4>2, <4>3, MemberIs
    <3> QED
        BY <1>2, <1>3, <2>1, <3>1
  <2>3. CASE x.owner = NoOwner /\ entityTimers' = entityTimers
      BY <2>1, <2>2, <2>3
  <2>4. CASE /\ x.owner \in Owners
             /\ entityTimers' = [entityTimers EXCEPT ![x.owner] = Append(@, nextTimerId)]
    <3>1. PICK o \in Owners : o = x.owner
        BY <2>4
    <3>2. PICK q : q = entityTimers[o]
        OBVIOUS
    <3>3. q \in Seq(1 .. MaxTimers) /\ IsInjective(q) /\ nextTimerId \notin ToSet(q)
        BY <1>2, <2>1, <3>2
    <3>4. PICK v : v = Append(q, nextTimerId)
        OBVIOUS
    <3>5. v \in Seq(1 .. MaxTimers) /\ ToSet(v) = ToSet(q) \cup {nextTimerId} /\ IsInjective(v)
      <4>1. PICK T : T = 1 .. MaxTimers
          OBVIOUS
      <4>2. q \in Seq(T) /\ nextTimerId \in T /\ IsInjective(q) /\ nextTimerId \notin ToSet(q)
          BY <1>2, <3>3, <4>1
      <4>3. v \in Seq(T) /\ ToSet(v) = ToSet(q) \cup {nextTimerId} /\ IsInjective(v)
          BY <3>4, <4>2, AppendIs
      <4> QED
          BY <4>1, <4>3
    <3>6. entityTimers' = [entityTimers EXCEPT ![o] = v]
        BY <2>4, <3>1, <3>2, <3>4
    <3>7. \A e \in Owners : entityTimers'[e] = IF e = o THEN v ELSE entityTimers[e]
        BY <2>1, <3>6
    <3>8. nextTimerId < nextTimerId'
        BY <1>2, <1>3
    <3>9. entityTimers' \in [Owners -> Seq(1 .. MaxTimers)]
        BY <2>1, <3>5, <3>6
    <3> QED
        BY <2>1, <2>2, <3>1, <3>2, <3>5, <3>7, <3>8, <3>9
  <2> QED
      BY <1>6, <2>3, <2>4
<1>9. /\ DOMAIN entries \subseteq DOMAIN entries' /\ pass' \in [ring : 0 .. Levels, batch : Seq(Items')]
  <2>1. DOMAIN entries \subseteq DOMAIN entries'
      BY <1>2
  <2>2. Items \subseteq Items'
      BY <2>1 DEF Items
  <2>3. pass.batch \in Seq(Items) /\ pass \in [ring : 0 .. Levels, batch : Seq(Items)]
      BY BatchIs
  <2>4. pass.batch \in Seq(Items')
      BY <2>2, <2>3, SeqOfMore
  <2> QED
      BY <1>3, <2>1, <2>3, <2>4
<1>10. WheelTyped'
  <2>1. WheelTypeOK'
      BY <1>2, <1>3, <1>4, <1>5 DEF WheelTypeOK
  <2> QED
      BY <1>3, <1>4, <1>7, <1>8, <1>9, <2>1 DEF WheelTyped
<1>11. \A i \in DOMAIN entries : i # index => entries[i].id < nextTimerId
    BY <1>4 DEF IdsApart
<1>12. IdsApart'
  <2>1. ASSUME NEW i \in DOMAIN entries', NEW j \in DOMAIN entries', Live(i)', Live(j)',
               entries'[i].id = entries'[j].id
        PROVE  i = j
    <3>1. CASE i = index /\ j # index
        BY <1>2, <1>11, <2>1, <3>1
    <3>2. CASE i # index /\ j = index
        BY <1>2, <1>11, <2>1, <3>2
    <3>3. CASE i # index /\ j # index
        BY <1>2, <1>4, <2>1, <3>3 DEF IdsApart, Live
    <3> QED
        BY <3>1, <3>2, <3>3
  <2>2. \A i \in DOMAIN entries' : entries'[i].id < nextTimerId'
    <3>1. ASSUME NEW i \in DOMAIN entries' PROVE entries'[i].id < nextTimerId'
      <4>1. CASE i = index
          BY <1>2, <1>3, <4>1
      <4>2. CASE i # index
        <5>1. i \in DOMAIN entries /\ entries'[i] = entries[i] /\ entries[i].id \in 1 .. MaxTimers
            BY <1>2, <4>2, EntryIs
        <5>2. entries[i].id < nextTimerId
            BY <1>11, <4>2, <5>1
        <5> QED
            BY <1>2, <1>3, <5>1, <5>2
      <4> QED
          BY <4>1, <4>2
    <3> QED
        BY <3>1
  <2>3. \A k \in DOMAIN pass'.batch : pass'.batch[k].id < nextTimerId'
    <3>1. \A k \in DOMAIN pass.batch : pass.batch[k].id < nextTimerId /\ pass.batch[k].id \in 1 .. MaxTimers
        BY <1>4, BatchIs DEF IdsApart
    <3> QED
        BY <1>2, <1>3, <3>1
  <2>4. firing' < nextTimerId'
    <3>1. firing < nextTimerId /\ firing \in 0 .. MaxTimers
        BY <1>4 DEF IdsApart, WheelTypeOK
    <3> QED
        BY <1>2, <1>3, <3>1
  <2>5. \A k, m \in DOMAIN pass'.batch : pass'.batch[k].index = pass'.batch[m].index => k = m
      BY <1>3, <1>4 DEF IdsApart
  <2> QED
      BY <1>8, <2>1, <2>2, <2>3, <2>4, <2>5 DEF IdsApart
<1>13. ASSUME NEW i \in DOMAIN entries', Live(i)', setBy'[entries'[i].id].owner # NoOwner
       PROVE  LET by == setBy'[entries'[i].id] IN
                 /\ by.owner \in Owners /\ by.body # 0
                 /\ \/ entries'[i].id \in leftBehind'
                    \/ /\ body'[by.owner] = by.body
                       /\ entries'[i].id \in ToSet(entityTimers'[by.owner])
  <2>1. CASE i = index
    <3>1. setBy'[entries'[i].id] = x /\ x.owner # NoOwner
        BY <1>2, <1>7, <1>13, <2>1
    <3>2. x.owner \in Owners /\ x.body # 0 /\ body[x.owner] = x.body /\ nextTimerId \in ToSet(entityTimers'[x.owner])
        BY <1>6, <1>8, <3>1
    <3> QED
        BY <1>2, <1>3, <2>1, <3>1, <3>2
  <2>2. CASE i # index
    <3>1. i \in DOMAIN entries /\ entries'[i] = entries[i] /\ entries[i].id \in 1 .. MaxTimers
          /\ entries[i].id < nextTimerId
        BY <1>2, <1>11, <2>2, EntryIs
    <3>2. entries[i].id \in 1 .. nextTimerId - 1
        BY <1>2, <3>1
    <3>3. setBy'[entries'[i].id] = setBy[entries[i].id] /\ Live(i)
        BY <1>7, <1>13, <3>1, <3>2 DEF Live
    <3>4. PICK by : by = setBy[entries[i].id]
        OBVIOUS
    <3>5. /\ by.owner \in Owners /\ by.body # 0
          /\ entries[i].id \in leftBehind \/ (body[by.owner] = by.body
                                              /\ entries[i].id \in ToSet(entityTimers[by.owner]))
        BY <1>4, <1>13, <3>1, <3>3, <3>4 DEF TimersHaveBodies
    <3> QED
        BY <1>3, <1>8, <3>1, <3>3, <3>4, <3>5
  <2> QED
      BY <2>1, <2>2
<1>14. OldTimersAreSilent'
  <2>1. ASSUME firing # 0 PROVE setBy'[firing] = setBy[firing]
    <3>1. firing < nextTimerId /\ firing \in 0 .. MaxTimers
        BY <1>4 DEF IdsApart, WheelTypeOK
    <3>2. firing \in 1 .. nextTimerId - 1
        BY <1>2, <2>1, <3>1
    <3> QED
        BY <1>7, <3>2
  <2>2. OldTimersAreSilent
      BY <1>4 DEF TimersHaveBodies
  <2> QED
      BY <1>3, <2>1, <2>2 DEF OldTimersAreSilent
<1>15. TimersHaveBodies'
    BY <1>13, <1>14 DEF TimersHaveBodies
<1> QED
    BY <1>2, <1>10, <1>12, <1>15 DEF WheelInv

-----------------------------------------------------------------------------
(* What is cancelled *)

\* cancel of each of some handles: their entries leave the slots and go to the pool.
LEMMA CancelIs ==
    ASSUME WheelInv, NEW handles, handles \in Seq(1 .. MaxTimers), IsInjective(handles), Cancelled(handles),
           UNCHANGED <<pass, currentTick>>
    PROVE  /\ entries' \in Seq(EntryType) /\ DOMAIN entries' = DOMAIN entries
           /\ \A i \in DOMAIN entries : entries'[i] =
                 IF Live(i) /\ entries[i].id \in ToSet(handles)
                 THEN [entries[i] EXCEPT !.cancelled = TRUE] ELSE entries[i]
           /\ freeList' \in Seq(DOMAIN entries)
           /\ wheels' \in [Rings -> [Slots -> Seq(DOMAIN entries)]]
           /\ EntriesPlaced' /\ EntriesAhead'
<1>1. PICK hit : hit = {i \in DOMAIN entries : Live(i) /\ entries[i].id \in ToSet(handles)}
    OBVIOUS
<1>2. PICK gone : gone = {id \in ToSet(handles) : \A i \in hit : entries[i].id # id}
    OBVIOUS
<1>3. PICK found : found = Others(handles, gone)
    OBVIOUS
<1>4. /\ wheels' = [r \in Rings |-> [s \in Slots |-> Others(wheels[r][s], hit)]]
      /\ entries' = [i \in DOMAIN entries |->
                        IF i \in hit THEN [entries[i] EXCEPT !.cancelled = TRUE] ELSE entries[i]]
      /\ freeList' = freeList \o [k \in DOMAIN found |-> IndexOf(found[k])]
    BY <1>1, <1>2, <1>3 DEF Cancelled
<1>5. /\ currentTick \in Nat /\ entries \in Seq(EntryType)
      /\ DOMAIN entries = 1 .. Len(entries) /\ Len(entries) \in Nat /\ freeList \in Seq(DOMAIN entries)
      /\ wheels \in [Rings -> [Slots -> Seq(DOMAIN entries)]]
      /\ \A i \in DOMAIN entries : entries[i] \in EntryType
    BY EntryIs
<1>6. /\ EntriesPlaced /\ IdsApart /\ EntriesAhead
    BY DEF WheelInv
<1>7. /\ entries' \in Seq(EntryType) /\ DOMAIN entries' = DOMAIN entries
  <2>1. \A i \in DOMAIN entries : [entries[i] EXCEPT !.cancelled = TRUE] \in EntryType
      BY <1>5 DEF EntryType
  <2>2. PICK q : q = [i \in 1 .. Len(entries) |->
                         IF i \in hit THEN [entries[i] EXCEPT !.cancelled = TRUE] ELSE entries[i]]
      OBVIOUS
  <2>3. q \in [1 .. Len(entries) -> EntryType]
      BY <1>5, <2>1, <2>2
  <2>4. q \in Seq(EntryType)
      BY <1>5, <2>3, ArrayIs
  <2>5. entries' = q
      BY <1>4, <1>5, <2>2
  <2> QED
      BY <1>5, <2>2, <2>4, <2>5
<1>8. \A i \in DOMAIN entries :
         /\ i \in hit => entries'[i] = [entries[i] EXCEPT !.cancelled = TRUE]
         /\ i \notin hit => entries'[i] = entries[i]
         /\ i \in hit <=> Live(i) /\ entries[i].id \in ToSet(handles)
    BY <1>1, <1>4
<1>9. \A i \in DOMAIN entries :
         /\ entries'[i].id = entries[i].id /\ entries'[i].fireTick = entries[i].fireTick
         /\ entries'[i].ring = entries[i].ring /\ entries'[i].slot = entries[i].slot
         /\ entries'[i].cancelled <=> entries[i].cancelled \/ i \in hit
  <2>1. ASSUME NEW i \in DOMAIN entries
        PROVE /\ entries'[i].id = entries[i].id /\ entries'[i].fireTick = entries[i].fireTick
              /\ entries'[i].ring = entries[i].ring /\ entries'[i].slot = entries[i].slot
              /\ entries'[i].cancelled <=> entries[i].cancelled \/ i \in hit
    <3>1. entries[i] \in EntryType
        BY <1>5
    <3>2. CASE i \in hit
      <4>1. entries'[i] = [entries[i] EXCEPT !.cancelled = TRUE]
          BY <1>8, <3>2
      <4> QED
          BY <3>1, <3>2, <4>1 DEF EntryType
    <3>3. CASE i \notin hit
        BY <1>8, <3>3
    <3> QED
        BY <3>2, <3>3
  <2> QED
      BY <2>1
<1>10. hit \subseteq DOMAIN entries
    BY <1>1
\* The indexes of the cancelled entries, each once.
<1>11. /\ found \in Seq(1 .. MaxTimers) /\ IsInjective(found)
       /\ \A a : a \in ToSet(found) <=> \E i \in hit : entries[i].id = a
  <2>1. PICK T : T = 1 .. MaxTimers
      OBVIOUS
  <2>2. handles \in Seq(T) /\ IsInjective(handles)
      BY <2>1
  <2>3. found \in Seq(T) /\ ToSet(found) = ToSet(handles) \ gone /\ IsInjective(found)
    <3>1. /\ Others(handles, gone) \in Seq(T) /\ ToSet(Others(handles, gone)) = ToSet(handles) \ gone
          /\ IsInjective(Others(handles, gone))
        BY <2>2, OthersAre
    <3> QED
        BY <1>3, <3>1
  <2>4. \A i \in hit : entries[i].id \in ToSet(handles)
      BY <1>1
  <2> QED
      BY <1>2, <2>1, <2>3, <2>4
<1>12. \A i \in hit : IndexOf(entries[i].id) = i
  <2>1. ASSUME NEW i \in hit PROVE IndexOf(entries[i].id) = i
    <3>1. i \in DOMAIN entries /\ Holds(i, entries[i].id)
        BY <1>1 DEF Holds
    <3>2. \A j \in DOMAIN entries : Holds(j, entries[i].id) => j = i
        BY <1>6, <3>1 DEF Holds, IdsApart
    <3> QED
        BY <3>1, <3>2 DEF IndexOf
  <2> QED
      BY <2>1
<1>13. PICK F : F = [k \in DOMAIN found |-> IndexOf(found[k])]
    OBVIOUS
<1>14. F \in Seq(DOMAIN entries) /\ IsInjective(F) /\ ToSet(F) = hit
  <2>1. DOMAIN found = 1 .. Len(found) /\ Len(found) \in Nat
      BY <1>11
  <2>2. \A k \in DOMAIN found : \E i \in hit : entries[i].id = found[k] /\ F[k] = i
    <3>1. ASSUME NEW k \in DOMAIN found PROVE \E i \in hit : entries[i].id = found[k] /\ F[k] = i
      <4>1. found[k] \in ToSet(found)
          BY DEF ToSet
      <4>2. PICK i \in hit : entries[i].id = found[k]
          BY <1>11, <4>1
      <4>3. F[k] = i
          BY <1>12, <1>13, <4>2
      <4> QED
          BY <4>2, <4>3
    <3> QED
        BY <3>1
  <2>3. \A k \in DOMAIN found : F[k] \in DOMAIN entries /\ F[k] \in hit
      BY <1>10, <2>2
  <2>4. F \in [1 .. Len(found) -> DOMAIN entries]
      BY <1>13, <2>1, <2>3
  <2>5. F \in Seq(DOMAIN entries)
      BY <2>1, <2>4
  <2>6. DOMAIN F = DOMAIN found
      BY <1>13
  <2>7. \A k, m \in DOMAIN found : F[k] = F[m] => k = m
    <3>1. \A k, m \in DOMAIN found : found[k] = found[m] => k = m
        BY <1>11 DEF IsInjective
    <3> QED
        BY <2>2, <3>1
  <2>8. IsInjective(F)
      BY <2>6, <2>7 DEF IsInjective
  <2>9. hit \subseteq ToSet(F)
    <3>1. ASSUME NEW i \in hit PROVE i \in ToSet(F)
      <4>1. entries[i].id \in ToSet(found)
          BY <1>11
      <4>2. PICK k \in DOMAIN found : found[k] = entries[i].id
          BY <4>1 DEF ToSet
      <4>3. F[k] = i
          BY <1>12, <1>13, <4>2
      <4> QED
          BY <2>6, <4>3 DEF ToSet
    <3> QED
        BY <3>1
  <2>10. ToSet(F) \subseteq hit
      BY <2>3, <2>6 DEF ToSet
  <2> QED
      BY <2>5, <2>8, <2>9, <2>10
<1>15. /\ freeList' \in Seq(DOMAIN entries) /\ ToSet(freeList') = ToSet(freeList) \cup hit
       /\ IsInjective(freeList')
  <2>1. freeList' = freeList \o F
      BY <1>4, <1>13
  <2>2. ToSet(freeList) \cap ToSet(F) = {}
    <3>1. \A i \in DOMAIN entries : i \in ToSet(freeList) => ~Live(i)
        BY <1>6 DEF EntriesPlaced
    <3>2. \A i \in hit : i \in DOMAIN entries /\ Live(i)
        BY <1>1
    <3> QED
        BY <1>14, <3>1, <3>2
  <2>3. IsInjective(freeList)
      BY <1>6 DEF EntriesPlaced
  <2>4. PICK D : D = DOMAIN entries
      OBVIOUS
  <2>5. freeList \in Seq(D) /\ F \in Seq(D) /\ IsInjective(freeList) /\ IsInjective(F)
      BY <1>5, <1>14, <2>3, <2>4
  <2>6. IsInjective(freeList \o F)
      BY <2>2, <2>5, CatInjective
  <2>7. freeList \o F \in Seq(D) /\ ToSet(freeList \o F) = ToSet(freeList) \cup ToSet(F)
      BY <2>5, CatIs
  <2> QED
      BY <1>14, <2>1, <2>4, <2>6, <2>7
<1>16. \A r \in Rings, s \in Slots :
          /\ wheels'[r][s] \in Seq(DOMAIN entries) /\ IsInjective(wheels'[r][s])
          /\ ToSet(wheels'[r][s]) = ToSet(wheels[r][s]) \ hit
  <2>1. ASSUME NEW r \in Rings, NEW s \in Slots
        PROVE  /\ wheels'[r][s] \in Seq(DOMAIN entries) /\ IsInjective(wheels'[r][s])
               /\ ToSet(wheels'[r][s]) = ToSet(wheels[r][s]) \ hit
    <3>1. PICK q : q = wheels[r][s]
        OBVIOUS
    <3>2. q \in Seq(DOMAIN entries) /\ IsInjective(q)
        BY <1>5, <1>6, <3>1 DEF EntriesPlaced
    <3>3. PICK D : D = DOMAIN entries
        OBVIOUS
    <3>4. q \in Seq(D) /\ IsInjective(q)
        BY <3>2, <3>3
    <3>5. /\ Others(q, hit) \in Seq(D) /\ ToSet(Others(q, hit)) = ToSet(q) \ hit
          /\ IsInjective(Others(q, hit))
        BY <3>4, OthersAre
    <3>6. wheels'[r][s] = Others(q, hit)
        BY <1>4, <3>1
    <3> QED
        BY <3>1, <3>3, <3>5, <3>6
  <2> QED
      BY <2>1
<1>17. wheels' \in [Rings -> [Slots -> Seq(DOMAIN entries)]]
  <2>1. \A r \in Rings, s \in Slots : Others(wheels[r][s], hit) \in Seq(DOMAIN entries)
      BY <1>4, <1>16
  <2> QED
      BY <1>4, <2>1
<1>18. \A i \in DOMAIN entries : i \in Pending' <=> i \in Pending /\ i \notin hit
  <2>1. ASSUME NEW i \in DOMAIN entries PROVE i \in Pending' <=> i \in Pending /\ i \notin hit
    <3>1. i \in Pending' <=> \E k \in DOMAIN pass.batch :
             pass.batch[k].index = i /\ entries'[i].id = pass.batch[k].id /\ ~entries'[i].cancelled
        BY DEF Pending, Due, Holds, Live
    <3>2. i \in Pending <=> \E k \in DOMAIN pass.batch :
             pass.batch[k].index = i /\ entries[i].id = pass.batch[k].id /\ ~entries[i].cancelled
        BY DEF Pending, Due, Holds, Live
    <3> QED
        BY <1>9, <3>1, <3>2
  <2> QED
      BY <2>1
<1>19. EntriesPlaced'
  <2>1. \A i \in DOMAIN entries' : i \in ToSet(freeList') <=> ~Live(i)'
    <3>1. \A i \in DOMAIN entries : i \in ToSet(freeList) <=> entries[i].cancelled
        BY <1>6 DEF EntriesPlaced, Live
    <3> QED
        BY <1>7, <1>9, <1>15, <3>1 DEF Live
  <2>2. ASSUME NEW r \in Rings, NEW s \in Slots, NEW i \in DOMAIN entries
        PROVE  i \in ToSet(wheels'[r][s]) <=>
                  Live(i)' /\ i \notin Pending' /\ r = entries'[i].ring /\ s = entries'[i].slot
    <3>1. i \in ToSet(wheels[r][s]) <=>
             ~entries[i].cancelled /\ i \notin Pending /\ r = entries[i].ring /\ s = entries[i].slot
        BY <1>6 DEF EntriesPlaced, Live
    <3>2. i \in ToSet(wheels'[r][s]) <=> i \in ToSet(wheels[r][s]) /\ i \notin hit
        BY <1>16
    <3> QED
        BY <1>9, <1>18, <3>1, <3>2 DEF Live
  <2>3. \A r \in Rings, s \in Slots : IsInjective(wheels'[r][s])
      BY <1>16
  <2> QED
      BY <1>7, <1>15, <2>1, <2>2, <2>3 DEF EntriesPlaced
<1>20. EntriesAhead'
  <2>1. ASSUME NEW i \in DOMAIN entries, ~entries'[i].cancelled
        PROVE  Ahead(entries'[i], i \in Pending', currentTick', pass'.ring)
    <3>1. ~entries[i].cancelled /\ entries'[i] = entries[i] /\ (i \in Pending' <=> i \in Pending)
        BY <1>8, <1>9, <1>18, <2>1
    <3>2. Ahead(entries[i], i \in Pending, currentTick, pass.ring)
        BY <1>6, <3>1 DEF EntriesAhead, Live
    <3> QED
        BY <3>1, <3>2 DEF Ahead
  <2> QED
      BY <1>7, <2>1 DEF EntriesAhead, Live
<1> QED
    BY <1>7, <1>8, <1>15, <1>17, <1>19, <1>20

\* A cancel leaves every entry that stays on the wheel as it was.
LEMMA CancelKeeps ==
    ASSUME WheelInv, NEW handles, handles \in Seq(1 .. MaxTimers), IsInjective(handles), Cancelled(handles),
           UNCHANGED <<currentTick, nextTimerId, pass, firing, setBy, leftBehind>>,
           entityTimers' \in [Owners -> Seq(1 .. MaxTimers)], body' = [e \in Owners |-> body'[e]],
           \A e \in Owners : entityTimers'[e] \in {entityTimers[e], << >>}
    PROVE  /\ WheelTyped' /\ IdsApart' /\ EntriesPlaced' /\ EntriesAhead'
           /\ DOMAIN entries' = DOMAIN entries
           /\ \A i \in DOMAIN entries : Live(i)' =>
                 Live(i) /\ entries'[i] = entries[i] /\ entries[i].id \notin ToSet(handles)
<1>1. /\ currentTick' = currentTick /\ nextTimerId' = nextTimerId /\ pass' = pass /\ firing' = firing
      /\ setBy' = setBy /\ leftBehind' = leftBehind
    OBVIOUS
<1>2. /\ entries' \in Seq(EntryType) /\ DOMAIN entries' = DOMAIN entries
      /\ \A i \in DOMAIN entries : entries'[i] =
            IF Live(i) /\ entries[i].id \in ToSet(handles)
            THEN [entries[i] EXCEPT !.cancelled = TRUE] ELSE entries[i]
      /\ freeList' \in Seq(DOMAIN entries)
      /\ wheels' \in [Rings -> [Slots -> Seq(DOMAIN entries)]]
      /\ EntriesPlaced' /\ EntriesAhead'
    BY <1>1, CancelIs
<1>3. \A i \in DOMAIN entries : /\ entries'[i].id = entries[i].id
                                /\ Live(i)' => Live(i) /\ entries'[i] = entries[i]
                                               /\ entries[i].id \notin ToSet(handles)
  <2>1. ASSUME NEW i \in DOMAIN entries
        PROVE  /\ entries'[i].id = entries[i].id
               /\ ~entries'[i].cancelled => /\ ~entries[i].cancelled /\ entries'[i] = entries[i]
                                            /\ entries[i].id \notin ToSet(handles)
    <3>1. entries[i] \in EntryType
        BY EntryIs
    <3>2. CASE Live(i) /\ entries[i].id \in ToSet(handles)
      <4>1. entries'[i] = [entries[i] EXCEPT !.cancelled = TRUE]
          BY <1>2, <3>2
      <4> QED
          BY <3>1, <4>1 DEF EntryType
    <3>3. CASE ~(Live(i) /\ entries[i].id \in ToSet(handles))
      <4>1. entries'[i] = entries[i]
          BY <1>2, <3>3
      <4> QED
          BY <3>3, <4>1 DEF Live
    <3> QED
        BY <3>2, <3>3
  <2> QED
      BY <2>1 DEF Live
<1>4. WheelTyped /\ WheelTypeOK /\ IdsApart
    BY DEF WheelInv, WheelTyped
<1>5. WheelTyped'
  <2>1. WheelTypeOK'
      BY <1>1, <1>2, <1>4 DEF WheelTypeOK
  <2>2. Items' = Items
      BY <1>2 DEF Items
  <2>3. /\ pass \in [ring : 0 .. Levels, batch : Seq(Items)]
        /\ pass.ring = Outside => pass.batch = << >> /\ firing = 0
        /\ setBy = [k \in 1 .. nextTimerId - 1 |-> setBy[k]]
      BY <1>4 DEF WheelTyped
  <2>4. pass' \in [ring : 0 .. Levels, batch : Seq(Items')]
      BY <1>1, <2>2, <2>3
  <2>5. setBy' = [k \in 1 .. nextTimerId' - 1 |-> setBy'[k]]
      BY <1>1, <2>3
  <2>6. pass'.ring = Outside => pass'.batch = << >> /\ firing' = 0
      BY <1>1, <2>3
  <2> QED
      BY <2>1, <2>4, <2>5, <2>6 DEF WheelTyped
<1>6. IdsApart'
  <2>1. \A i, j \in DOMAIN entries' : Live(i)' /\ Live(j)' /\ entries'[i].id = entries'[j].id => i = j
      BY <1>2, <1>3, <1>4 DEF IdsApart
  <2>2. \A i \in DOMAIN entries' : entries'[i].id < nextTimerId'
      BY <1>1, <1>2, <1>3, <1>4 DEF IdsApart
  <2>3. \A e \in Owners : /\ IsInjective(entityTimers'[e])
                          /\ \A a \in ToSet(entityTimers'[e]) : a < nextTimerId'
    <3>1. ASSUME NEW e \in Owners
          PROVE  IsInjective(entityTimers'[e]) /\ \A a \in ToSet(entityTimers'[e]) : a < nextTimerId'
      <4>1. CASE entityTimers'[e] = entityTimers[e]
          BY <1>1, <1>4, <4>1 DEF IdsApart
      <4>2. CASE entityTimers'[e] = << >>
        <5>1. IsInjective(<< >>) /\ ToSet(<< >>) = {}
            BY DEF IsInjective, ToSet
        <5> QED
            BY <4>2, <5>1
      <4> QED
          BY <4>1, <4>2
    <3> QED
        BY <3>1
  <2>4. /\ \A k \in DOMAIN pass'.batch : pass'.batch[k].id < nextTimerId'
        /\ \A k, m \in DOMAIN pass'.batch : pass'.batch[k].index = pass'.batch[m].index => k = m
        /\ firing' < nextTimerId'
      BY <1>1, <1>4 DEF IdsApart
  <2> QED
      BY <2>1, <2>2, <2>3, <2>4 DEF IdsApart
<1> QED
    BY <1>2, <1>3, <1>5, <1>6

LEMMA CancelStep ==
    ASSUME WheelInv, NEW id \in 1 .. MaxTimers, CancelTimer(id)
    PROVE  WheelInv'
<1>1. PICK handles : handles = <<id>>
    OBVIOUS
<1>2. /\ Cancelled(handles)
      /\ UNCHANGED <<currentTick, nextTimerId, pass, firing, entityTimers, body, setBy, leftBehind>>
    BY <1>1 DEF CancelTimer
<1>3. handles \in Seq(1 .. MaxTimers) /\ IsInjective(handles)
  <2>1. PICK T : T = 1 .. MaxTimers
      OBVIOUS
  <2>2. handles \in Seq(T)
      BY <1>1, <2>1
  <2>3. DOMAIN handles = {1}
      BY <1>1
  <2> QED
      BY <2>1, <2>2, <2>3 DEF IsInjective
<1>4. WheelTyped /\ TimersHaveBodies
    BY DEF WheelInv
<1>5. entityTimers' \in [Owners -> Seq(1 .. MaxTimers)] /\ body' = [e \in Owners |-> body'[e]]
    BY <1>2, <1>4 DEF WheelTyped
<1>6. \A e \in Owners : entityTimers'[e] \in {entityTimers[e], << >>}
    BY <1>2
<1>7. /\ WheelTyped' /\ IdsApart' /\ EntriesPlaced' /\ EntriesAhead'
      /\ DOMAIN entries' = DOMAIN entries
      /\ \A i \in DOMAIN entries : Live(i)' =>
            Live(i) /\ entries'[i] = entries[i] /\ entries[i].id \notin ToSet(handles)
  <2>1. UNCHANGED <<currentTick, nextTimerId, pass, firing, setBy, leftBehind>>
      BY <1>2
  <2> QED
      BY <1>2, <1>3, <1>5, <1>6, <2>1, CancelKeeps
<1>8. TimersHaveBodies'
  <2>1. ASSUME NEW i \in DOMAIN entries', Live(i)', setBy'[entries'[i].id].owner # NoOwner
        PROVE  LET by == setBy'[entries'[i].id] IN
                  /\ by.owner \in Owners /\ by.body # 0
                  /\ \/ entries'[i].id \in leftBehind'
                     \/ /\ body'[by.owner] = by.body
                        /\ entries'[i].id \in ToSet(entityTimers'[by.owner])
    <3>1. i \in DOMAIN entries /\ Live(i) /\ entries'[i] = entries[i]
        BY <1>7, <2>1
    <3>2. /\ setBy' = setBy /\ leftBehind' = leftBehind /\ body' = body /\ entityTimers' = entityTimers
        BY <1>2
    <3> QED
        BY <1>4, <2>1, <3>1, <3>2 DEF TimersHaveBodies
  <2>2. OldTimersAreSilent'
      BY <1>2, <1>4 DEF TimersHaveBodies, OldTimersAreSilent
  <2> QED
      BY <2>1, <2>2 DEF TimersHaveBodies
<1> QED
    BY <1>7, <1>8 DEF WheelInv

LEMMA DestroyStep ==
    ASSUME WheelInv, NEW e \in Owners, DestroyBody(e)
    PROVE  WheelInv'
<1>1. PICK handles : handles = entityTimers[e]
    OBVIOUS
<1>2. /\ Cancelled(handles)
      /\ entityTimers' = [entityTimers EXCEPT ![e] = << >>] /\ body' = [body EXCEPT ![e] = 0]
      /\ UNCHANGED <<currentTick, nextTimerId, pass, firing, setBy, leftBehind>>
    BY <1>1 DEF DestroyBody
<1>3. WheelTyped /\ TimersHaveBodies /\ IdsApart
    BY DEF WheelInv
<1>4. /\ entityTimers \in [Owners -> Seq(1 .. MaxTimers)] /\ body = [o \in Owners |-> body[o]]
    BY <1>3 DEF WheelTyped
<1>5. handles \in Seq(1 .. MaxTimers) /\ IsInjective(handles)
    BY <1>1, <1>3, <1>4 DEF IdsApart
<1>6. /\ \A o \in Owners : /\ entityTimers'[o] = IF o = e THEN << >> ELSE entityTimers[o]
                           /\ body'[o] = IF o = e THEN 0 ELSE body[o]
      /\ DOMAIN entityTimers' = Owners /\ DOMAIN body' = Owners
  <2>1. DOMAIN body = Owners
      BY <1>4
  <2> QED
      BY <1>2, <1>4, <2>1
<1>7. entityTimers' \in [Owners -> Seq(1 .. MaxTimers)] /\ body' = [o \in Owners |-> body'[o]]
  <2>1. << >> \in Seq(1 .. MaxTimers)
      OBVIOUS
  <2>2. entityTimers' \in [Owners -> Seq(1 .. MaxTimers)]
      BY <1>2, <1>4, <2>1
  <2>3. body' = [o \in Owners |-> IF o = e THEN 0 ELSE body[o]]
    <3>1. DOMAIN body = Owners
        BY <1>4
    <3>2. [body EXCEPT ![e] = 0] = [o \in Owners |-> IF o = e THEN 0 ELSE body[o]]
        BY <3>1
    <3> QED
        BY <1>2, <3>2
  <2> QED
      BY <2>2, <2>3
<1>8. \A o \in Owners : entityTimers'[o] \in {entityTimers[o], << >>}
    BY <1>6
<1>9. /\ WheelTyped' /\ IdsApart' /\ EntriesPlaced' /\ EntriesAhead'
      /\ DOMAIN entries' = DOMAIN entries
      /\ \A i \in DOMAIN entries : Live(i)' =>
            Live(i) /\ entries'[i] = entries[i] /\ entries[i].id \notin ToSet(handles)
  <2>1. UNCHANGED <<currentTick, nextTimerId, pass, firing, setBy, leftBehind>>
      BY <1>2
  <2> QED
      BY <1>2, <1>5, <1>7, <1>8, <2>1, CancelKeeps
<1>10. TimersHaveBodies'
  <2>1. ASSUME NEW i \in DOMAIN entries', Live(i)', setBy'[entries'[i].id].owner # NoOwner
        PROVE  LET by == setBy'[entries'[i].id] IN
                  /\ by.owner \in Owners /\ by.body # 0
                  /\ \/ entries'[i].id \in leftBehind'
                     \/ /\ body'[by.owner] = by.body
                        /\ entries'[i].id \in ToSet(entityTimers'[by.owner])
    <3>1. i \in DOMAIN entries /\ Live(i) /\ entries'[i] = entries[i] /\ entries[i].id \notin ToSet(handles)
        BY <1>9, <2>1
    <3>2. PICK by : by = setBy[entries[i].id]
        OBVIOUS
    <3>3. /\ by.owner \in Owners /\ by.body # 0
          /\ entries[i].id \in leftBehind \/ (body[by.owner] = by.body
                                              /\ entries[i].id \in ToSet(entityTimers[by.owner]))
        BY <1>2, <1>3, <2>1, <3>1, <3>2 DEF TimersHaveBodies
    <3>4. setBy'[entries'[i].id] = by /\ leftBehind' = leftBehind
        BY <1>2, <3>1, <3>2
    <3>5. CASE entries[i].id \in leftBehind
        BY <3>1, <3>3, <3>4, <3>5
    <3>6. CASE entries[i].id \notin leftBehind
      <4>1. by.owner # e
          BY <1>1, <3>1, <3>3, <3>6
      <4>2. body'[by.owner] = body[by.owner] /\ entityTimers'[by.owner] = entityTimers[by.owner]
          BY <1>6, <3>3, <4>1
      <4> QED
          BY <3>1, <3>3, <3>4, <3>6, <4>2
    <3> QED
        BY <3>5, <3>6
  <2>2. OldTimersAreSilent'
    <3>1. SUFFICES ASSUME firing # 0, setBy[firing].owner # NoOwner
                   PROVE  body'[setBy[firing].owner] \in {0, setBy[firing].body} \/ firing \in leftBehind
        BY <1>2 DEF OldTimersAreSilent
    <3>2. body[setBy[firing].owner] \in {0, setBy[firing].body} \/ firing \in leftBehind
        BY <1>3, <3>1 DEF TimersHaveBodies, OldTimersAreSilent
    <3>3. \A o : body'[o] \in {0, body[o]}
      <4>1. DOMAIN body = Owners /\ body' = [body EXCEPT ![e] = 0]
          BY <1>2, <1>4
      <4> QED
          BY <4>1
    <3> QED
        BY <3>2, <3>3
  <2> QED
      BY <2>1, <2>2 DEF TimersHaveBodies
<1> QED
    BY <1>9, <1>10 DEF WheelInv

-----------------------------------------------------------------------------
(* What a batch works off *)

\* The head of the batch, and the batch without it.
LEMMA HeadIs ==
    ASSUME WheelInv, Working, NEW h, h = Head(pass.batch)
    PROVE  /\ h.index \in DOMAIN entries /\ h.id \in 1 .. MaxTimers /\ h.id < nextTimerId
           /\ pass.batch \in Seq(Items) /\ Tail(pass.batch) \in Seq(Items) /\ h \in Items
           /\ pass.ring \in Rings
           /\ [pass EXCEPT !.batch = Tail(@)] = [ring |-> pass.ring, batch |-> Tail(pass.batch)]
           /\ \A k \in DOMAIN Tail(pass.batch) : Tail(pass.batch)[k].id < nextTimerId
           /\ \A k, m \in DOMAIN Tail(pass.batch) :
                 Tail(pass.batch)[k].index = Tail(pass.batch)[m].index => k = m
           /\ h.index \in Pending <=> Due(h)
<1>1. pass.batch \in Seq(Items) /\ pass.batch # << >> /\ pass \in [ring : 0 .. Levels, batch : Seq(Items)]
    BY BatchIs DEF Working
<1>2. PICK b : b = pass.batch
    OBVIOUS
<1>3. PICK I : I = Items
    OBVIOUS
<1>4. b \in Seq(I) /\ b # << >>
    BY <1>1, <1>2, <1>3
<1>5. /\ Tail(b) \in Seq(I) /\ Head(b) = b[1] /\ Head(b) \in I /\ 1 \in DOMAIN b
      /\ \A k \in DOMAIN Tail(b) : Tail(b)[k] = b[k + 1] /\ k + 1 \in DOMAIN b /\ k \in Nat
    BY <1>4, GoesOnIs
<1>6. h = b[1] /\ h \in Items
    BY <1>2, <1>3, <1>5
<1>7. /\ \A k \in DOMAIN b : b[k].id < nextTimerId
      /\ \A k, m \in DOMAIN b : b[k].index = b[m].index => k = m
    BY <1>2 DEF WheelInv, IdsApart
<1>8. /\ \A k \in DOMAIN Tail(b) : Tail(b)[k].id < nextTimerId
      /\ \A k, m \in DOMAIN Tail(b) : Tail(b)[k].index = Tail(b)[m].index => k = m
  <2>1. \A k \in DOMAIN Tail(b) : Tail(b)[k].id < nextTimerId
      BY <1>5, <1>7
  <2>2. ASSUME NEW k \in DOMAIN Tail(b), NEW m \in DOMAIN Tail(b), Tail(b)[k].index = Tail(b)[m].index
        PROVE  k = m
    <3>1. k + 1 = m + 1 /\ k \in Nat /\ m \in Nat
        BY <1>5, <1>7, <2>2
    <3> QED
        BY <3>1
  <2> QED
      BY <2>1, <2>2
<1>9. h.index \in Pending <=> Due(h)
  <2>1. h.index \in Pending <=> \E k \in DOMAIN b : b[k].index = h.index /\ Due(b[k])
      BY <1>2 DEF Pending
  <2>2. \A k \in DOMAIN b : b[k].index = h.index => k = 1
      BY <1>5, <1>6, <1>7
  <2> QED
      BY <1>5, <1>6, <2>1, <2>2
<1>10. pass.ring \in Rings
  <2>1. pass.ring \in 0 .. Levels /\ pass.ring # Outside
      BY <1>1 DEF WheelInv, WheelTyped, Working
  <2>2. PICK z : z = pass.ring
      OBVIOUS
  <2>3. z \in 0 .. Levels /\ z # Levels /\ Levels \in Nat
      BY <2>1, <2>2, WheelAssumption DEF Outside
  <2>4. z \in 0 .. Levels - 1
      BY <2>3
  <2> QED
      BY <2>2, <2>4 DEF Rings
<1>11. h.index \in DOMAIN entries /\ h.id \in 1 .. MaxTimers /\ h.id < nextTimerId
    BY <1>5, <1>6, <1>7 DEF Items
<1>12. [pass EXCEPT !.batch = Tail(@)] = [ring |-> pass.ring, batch |-> Tail(pass.batch)]
    BY <1>1
<1> QED
    BY <1>1, <1>2, <1>3, <1>5, <1>6, <1>8, <1>9, <1>10, <1>11, <1>12

\* A step that works off the head of the batch.
LEMMA WorkKeeps ==
    ASSUME WheelInv, Working, NEW h, h = Head(pass.batch), TakeHead,
           UNCHANGED <<currentTick, nextTimerId, entityTimers, body, setBy, leftBehind>>,
           entries' \in Seq(EntryType), DOMAIN entries' = DOMAIN entries,
           \A j \in DOMAIN entries : entries'[j].id = entries[j].id /\ (Live(j)' => Live(j)),
           freeList' \in Seq(DOMAIN entries), wheels' \in [Rings -> [Slots -> Seq(DOMAIN entries)]],
           firing' = 0 \/ (firing' = h.id /\ Due(h)),
           EntriesPlaced', EntriesAhead'
    PROVE  WheelInv'
<1>1. /\ currentTick' = currentTick /\ nextTimerId' = nextTimerId /\ entityTimers' = entityTimers
      /\ body' = body /\ setBy' = setBy /\ leftBehind' = leftBehind
    OBVIOUS
<1>2. /\ h.index \in DOMAIN entries /\ h.id \in 1 .. MaxTimers /\ h.id < nextTimerId
      /\ Tail(pass.batch) \in Seq(Items) /\ pass.ring \in Rings
      /\ [pass EXCEPT !.batch = Tail(@)] = [ring |-> pass.ring, batch |-> Tail(pass.batch)]
      /\ \A k \in DOMAIN Tail(pass.batch) : Tail(pass.batch)[k].id < nextTimerId
      /\ \A k, m \in DOMAIN Tail(pass.batch) :
            Tail(pass.batch)[k].index = Tail(pass.batch)[m].index => k = m
    BY HeadIs
<1>3. pass'.ring = pass.ring /\ pass'.batch = Tail(pass.batch) /\ pass' = [ring |-> pass.ring, batch |-> Tail(pass.batch)]
    BY <1>2 DEF TakeHead
<1>4. WheelTyped /\ WheelTypeOK /\ IdsApart /\ TimersHaveBodies
    BY DEF WheelInv, WheelTyped
<1>5. nextTimerId \in Nat \ {0} /\ MaxTimers \in Nat
    BY EntryIs, WheelAssumption
<1>6. firing' \in 0 .. MaxTimers /\ firing' < nextTimerId
    BY <1>2, <1>5
<1>7. WheelTyped'
  <2>1. WheelTypeOK'
      BY <1>1, <1>3, <1>4, <1>6 DEF WheelTypeOK
  <2>2. Items' = Items
      BY DEF Items
  <2>3. pass' \in [ring : 0 .. Levels, batch : Seq(Items')]
    <3>1. pass.ring \in 0 .. Levels
        BY <1>4 DEF WheelTypeOK
    <3> QED
        BY <1>2, <1>3, <2>2, <3>1
  <2>4. pass'.ring # Outside
      BY <1>2, <1>3, SpansAre
  <2> QED
      BY <1>1, <1>4, <2>1, <2>3, <2>4 DEF WheelTyped
<1>8. IdsApart'
  <2>1. \A i, j \in DOMAIN entries' : Live(i)' /\ Live(j)' /\ entries'[i].id = entries'[j].id => i = j
      BY <1>4 DEF IdsApart
  <2>2. \A i \in DOMAIN entries' : entries'[i].id < nextTimerId'
      BY <1>1, <1>4 DEF IdsApart
  <2>3. \A e \in Owners : /\ IsInjective(entityTimers'[e])
                          /\ \A a \in ToSet(entityTimers'[e]) : a < nextTimerId'
      BY <1>1, <1>4 DEF IdsApart
  <2> QED
      BY <1>1, <1>2, <1>3, <1>6, <2>1, <2>2, <2>3 DEF IdsApart
<1>9. TimersHaveBodies'
  <2>1. ASSUME NEW i \in DOMAIN entries', Live(i)', setBy'[entries'[i].id].owner # NoOwner
        PROVE  LET by == setBy'[entries'[i].id] IN
                  /\ by.owner \in Owners /\ by.body # 0
                  /\ \/ entries'[i].id \in leftBehind'
                     \/ /\ body'[by.owner] = by.body
                        /\ entries'[i].id \in ToSet(entityTimers'[by.owner])
    <3>1. i \in DOMAIN entries /\ Live(i) /\ entries'[i].id = entries[i].id
        BY <2>1
    <3> QED
        BY <1>1, <1>4, <2>1, <3>1 DEF TimersHaveBodies
  <2>2. OldTimersAreSilent'
    <3>1. CASE firing' = 0
        BY <3>1 DEF OldTimersAreSilent
    <3>2. CASE firing' = h.id /\ Due(h)
      <4>1. entries[h.index].id = h.id /\ Live(h.index)
          BY <3>2 DEF Due, Holds
      <4>2. PICK by : by = setBy[h.id]
          OBVIOUS
      <4>3. by.owner # NoOwner => body[by.owner] = by.body \/ h.id \in leftBehind
          BY <1>2, <1>4, <4>1, <4>2 DEF TimersHaveBodies
      <4> QED
          BY <1>1, <3>2, <4>2, <4>3 DEF OldTimersAreSilent
    <3> QED
        BY <3>1, <3>2
  <2> QED
      BY <2>1, <2>2 DEF TimersHaveBodies
<1> QED
    BY <1>7, <1>8, <1>9 DEF WheelInv

\* With the head off the batch, and perhaps its entry changed, it is not pending.
LEMMA HeadWasPending ==
    ASSUME WheelInv, Working, NEW h, h = Head(pass.batch), TakeHead,
           \A j \in DOMAIN entries : j # h.index => entries'[j] = entries[j]
    PROVE  Pending' = Pending \ {h.index}
<1>1. /\ h.index \in DOMAIN entries /\ pass.batch \in Seq(Items)
      /\ [pass EXCEPT !.batch = Tail(@)] = [ring |-> pass.ring, batch |-> Tail(pass.batch)]
    BY HeadIs
<1>2. pass'.batch = Tail(pass.batch)
    BY <1>1 DEF TakeHead
<1>3. PICK b : b = pass.batch
    OBVIOUS
<1>4. PICK I : I = Items
    OBVIOUS
<1>5. PICK D : D = DOMAIN entries
    OBVIOUS
<1>6. PICK q : q = entries
    OBVIOUS
<1>7. \A x \in I : x.index \in D
    BY <1>4, <1>5 DEF Items
<1>8. b \in Seq(I) /\ b # << >>
    BY <1>1, <1>3, <1>4 DEF Working
<1>9. \A k, m \in DOMAIN b : b[k].index = b[m].index => k = m
    BY <1>3 DEF WheelInv, IdsApart
<1>13. PICK p : p = entries'
    OBVIOUS
<1>10. \A j \in D : j # Head(b).index => (p[j].id = q[j].id /\ p[j].cancelled = q[j].cancelled)
    BY <1>3, <1>5, <1>6, <1>13
<1>15. OnlyHeadChanged(I, D, b, q, p)
    BY <1>7, <1>8, <1>9, <1>10 DEF OnlyHeadChanged
<1>14. Unseen(Tail(b), p) = Unseen(b, q) \ {Head(b).index}
    BY <1>15, UnseenRest
<1>11. Unseen(Tail(b), entries') = Unseen(b, q) \ {Head(b).index}
    BY <1>13, <1>14
<1>12. Pending' = Unseen(pass'.batch, entries')
    BY DEF Pending, Unseen, Due, Holds, Live
<1> QED
    BY <1>2, <1>3, <1>6, <1>11, <1>12, PendingIs

\* A due entry of the batch's head is live, in no slot and in no pool.
LEMMA DueIs ==
    ASSUME WheelInv, Working, NEW i, i = Head(pass.batch).index, Due(Head(pass.batch))
    PROVE  /\ i \in DOMAIN entries /\ Live(i) /\ i \in Pending /\ entries[i].id = Head(pass.batch).id
           /\ i \notin ToSet(freeList) /\ \A r \in Rings, s \in Slots : i \notin ToSet(wheels[r][s])
           /\ entries[i].fireTick >= currentTick
           /\ pass.ring = 0 => entries[i].fireTick = currentTick
<1>1. PICK h : h = Head(pass.batch)
    OBVIOUS
<1>2. i \in DOMAIN entries /\ i \in Pending
    BY <1>1, HeadIs
<1>3. Live(i) /\ entries[i].id = h.id
    BY <1>1 DEF Due, Holds
<1>4. Ahead(entries[i], TRUE, currentTick, pass.ring)
  <2>1. Ahead(entries[i], i \in Pending, currentTick, pass.ring)
      BY <1>2, <1>3 DEF WheelInv, EntriesAhead
  <2> QED
      BY <1>2, <2>1 DEF Ahead
<1>5. i \notin ToSet(freeList) /\ \A r \in Rings, s \in Slots : i \notin ToSet(wheels[r][s])
    BY <1>2, <1>3 DEF WheelInv, EntriesPlaced
<1> QED
    BY <1>1, <1>2, <1>3, <1>4, <1>5 DEF Ahead

\* The head's entry is inserted once more: a cascade, and a periodic timer that fires.
LEMMA ReinsertStep ==
    ASSUME WheelInv, Working, NEW i, i = Head(pass.batch).index, Due(Head(pass.batch)), TakeHead,
           NEW e \in EntryType, e.id = entries[i].id, ~e.cancelled, e.fireTick > currentTick,
           Inserted(i, e, wheels), freeList' = freeList,
           UNCHANGED <<currentTick, nextTimerId, entityTimers, body, setBy, leftBehind>>,
           firing' = 0 \/ firing' = entries[i].id
    PROVE  WheelInv' /\ InsertionFits(i, e, entries', wheels')
<1>1. /\ i \in DOMAIN entries /\ Live(i) /\ i \in Pending /\ entries[i].id = Head(pass.batch).id
      /\ i \notin ToSet(freeList) /\ \A r \in Rings, s \in Slots : i \notin ToSet(wheels[r][s])
    BY DueIs
<1>2. /\ DOMAIN entries = 1 .. Len(entries) /\ Len(entries) \in Nat /\ freeList \in Seq(DOMAIN entries)
    BY EntryIs
<1>3. Insertable(i, e)
  <2>1. i \in 1 .. Len(entries) + 1
      BY <1>1, <1>2
  <2> QED
      BY <1>1, <2>1 DEF Insertable
<1>4. InsertionFits(i, e, entries', wheels')
    BY <1>3, InsertedFits
<1>5. /\ entries' \in Seq(EntryType) /\ DOMAIN entries' = DOMAIN entries
      /\ \A j \in DOMAIN entries : j # i => entries'[j] = entries[j]
      /\ entries'[i].id = entries[i].id
      /\ wheels' \in [Rings -> [Slots -> Seq(DOMAIN entries)]]
  <2>1. /\ entries' \in Seq(EntryType) /\ DOMAIN entries' = DOMAIN entries \cup {i}
        /\ \A j \in DOMAIN entries : j # i => entries'[j] = entries[j]
        /\ entries'[i].id = e.id
        /\ wheels' \in [Rings -> [Slots -> Seq(DOMAIN entries')]]
      BY <1>4 DEF InsertionFits
  <2>2. DOMAIN entries \cup {i} = DOMAIN entries
      BY <1>1
  <2> QED
      BY <2>1, <2>2
<1>6. PICK h : h = Head(pass.batch)
    OBVIOUS
<1>7. Pending' = Pending \ {i}
  <2>1. \A j \in DOMAIN entries : j # h.index => entries'[j] = entries[j]
      BY <1>5, <1>6
  <2>2. Pending' = Pending \ {h.index}
      BY <1>6, <2>1, HeadWasPending
  <2> QED
      BY <1>6, <2>2
<1>8. pass'.ring = pass.ring
  <2>1. [pass EXCEPT !.batch = Tail(@)] = [ring |-> pass.ring, batch |-> Tail(pass.batch)]
      BY <1>6, HeadIs
  <2> QED
      BY <2>1 DEF TakeHead
<1>9. EntriesPlaced' /\ EntriesAhead'
  <2>1. IsInjective(freeList') /\ ToSet(freeList') = ToSet(freeList) \ {i}
      BY <1>1 DEF WheelInv, EntriesPlaced
  <2>2. UNCHANGED currentTick
      OBVIOUS
  <2> QED
      BY <1>3, <1>4, <1>7, <1>8, <2>1, <2>2, PutKeeps
<1>10. \A j \in DOMAIN entries : entries'[j].id = entries[j].id /\ (Live(j)' => Live(j))
    BY <1>1, <1>5 DEF Live
<1>11. firing' = 0 \/ (firing' = h.id /\ Due(h))
    BY <1>1, <1>6
<1>12. freeList' \in Seq(DOMAIN entries)
    BY <1>2
<1>13. WheelInv'
    BY <1>5, <1>6, <1>9, <1>10, <1>11, <1>12, WorkKeeps
<1> QED
    BY <1>4, <1>13

\* A one-shot timer fires: its entry is free, in no slot.
LEMMA OneShotStep ==
    ASSUME WheelInv, Working, NEW i, i = Head(pass.batch).index, Due(Head(pass.batch)), TakeHead,
           entries' = [entries EXCEPT ![i].cancelled = TRUE], freeList' = Append(freeList, i),
           UNCHANGED <<wheels, currentTick, nextTimerId, entityTimers, body, setBy, leftBehind>>,
           firing' = entries[i].id
    PROVE  WheelInv'
<1>1. /\ i \in DOMAIN entries /\ Live(i) /\ i \in Pending /\ entries[i].id = Head(pass.batch).id
      /\ i \notin ToSet(freeList) /\ \A r \in Rings, s \in Slots : i \notin ToSet(wheels[r][s])
    BY DueIs
<1>2. /\ entries \in Seq(EntryType) /\ freeList \in Seq(DOMAIN entries)
      /\ DOMAIN entries = 1 .. Len(entries) /\ Len(entries) \in Nat
      /\ wheels \in [Rings -> [Slots -> Seq(DOMAIN entries)]] /\ entries[i] \in EntryType
    BY <1>1, EntryIs
<1>3. PICK p : p = [entries[i] EXCEPT !.cancelled = TRUE]
    OBVIOUS
<1>4. p \in EntryType /\ p.id = entries[i].id /\ p.cancelled = TRUE
    BY <1>2, <1>3 DEF EntryType
<1>5. entries' = [entries EXCEPT ![i] = p]
    BY <1>3
<1>6. /\ entries' \in Seq(EntryType) /\ DOMAIN entries' = DOMAIN entries
      /\ \A j \in DOMAIN entries : j # i => entries'[j] = entries[j]
      /\ entries'[i] = p
    BY <1>1, <1>2, <1>4, <1>5
<1>7. PICK h : h = Head(pass.batch)
    OBVIOUS
<1>8. Pending' = Pending \ {i}
  <2>1. \A j \in DOMAIN entries : j # h.index => entries'[j] = entries[j]
      BY <1>6, <1>7
  <2>2. Pending' = Pending \ {h.index}
      BY <1>7, <2>1, HeadWasPending
  <2> QED
      BY <1>7, <2>2
<1>9. pass'.ring = pass.ring
  <2>1. [pass EXCEPT !.batch = Tail(@)] = [ring |-> pass.ring, batch |-> Tail(pass.batch)]
      BY <1>7, HeadIs
  <2> QED
      BY <2>1 DEF TakeHead
<1>10. /\ freeList' \in Seq(DOMAIN entries) /\ IsInjective(freeList') /\ ToSet(freeList') = ToSet(freeList) \cup {i}
  <2>1. IsInjective(freeList)
      BY DEF WheelInv, EntriesPlaced
  <2>2. PICK D : D = DOMAIN entries
      OBVIOUS
  <2>3. freeList \in Seq(D) /\ i \in D /\ IsInjective(freeList) /\ i \notin ToSet(freeList)
      BY <1>1, <1>2, <2>1, <2>2
  <2>4. /\ Append(freeList, i) \in Seq(D) /\ ToSet(Append(freeList, i)) = ToSet(freeList) \cup {i}
        /\ IsInjective(Append(freeList, i))
      BY <2>3, AppendIs
  <2> QED
      BY <2>2, <2>4
<1>11. EntriesPlaced'
  <2>1. \A j \in DOMAIN entries' : j \in ToSet(freeList') <=> entries'[j].cancelled
    <3>1. \A j \in DOMAIN entries : j \in ToSet(freeList) <=> entries[j].cancelled
        BY DEF WheelInv, EntriesPlaced, Live
    <3> QED
        BY <1>4, <1>6, <1>10, <3>1
  <2>2. ASSUME NEW r \in Rings, NEW s \in Slots, NEW j \in DOMAIN entries
        PROVE  j \in ToSet(wheels[r][s]) <=>
                  ~entries'[j].cancelled /\ j \notin Pending' /\ r = entries'[j].ring /\ s = entries'[j].slot
    <3>1. j \in ToSet(wheels[r][s]) <=>
             ~entries[j].cancelled /\ j \notin Pending /\ r = entries[j].ring /\ s = entries[j].slot
        BY DEF WheelInv, EntriesPlaced, Live
    <3>2. CASE j = i
        BY <1>1, <1>4, <1>6, <3>2
    <3>3. CASE j # i
        BY <1>6, <1>8, <3>1, <3>3
    <3> QED
        BY <3>2, <3>3
  <2>3. \A r \in Rings, s \in Slots : IsInjective(wheels[r][s])
      BY DEF WheelInv, EntriesPlaced
  <2> QED
      BY <1>6, <1>10, <2>1, <2>2, <2>3 DEF EntriesPlaced, Live
<1>12. EntriesAhead'
  <2>1. ASSUME NEW j \in DOMAIN entries', ~entries'[j].cancelled
        PROVE  Ahead(entries'[j], j \in Pending', currentTick', pass'.ring)
    <3>1. j # i
        BY <1>4, <1>6, <2>1
    <3>2. entries'[j] = entries[j] /\ (j \in Pending' <=> j \in Pending) /\ j \in DOMAIN entries
        BY <1>6, <1>8, <3>1
    <3>3. Ahead(entries[j], j \in Pending, currentTick, pass.ring)
        BY <2>1, <3>2 DEF WheelInv, EntriesAhead, Live
    <3> QED
        BY <1>9, <3>2, <3>3 DEF Ahead
  <2> QED
      BY <2>1 DEF EntriesAhead, Live
<1>13. \A j \in DOMAIN entries : entries'[j].id = entries[j].id /\ (Live(j)' => Live(j))
    BY <1>1, <1>4, <1>6 DEF Live
<1>14. firing' = h.id /\ Due(h)
    BY <1>1, <1>7
<1>15. wheels' \in [Rings -> [Slots -> Seq(DOMAIN entries)]]
    BY <1>2
<1> QED
    BY <1>6, <1>7, <1>10, <1>11, <1>12, <1>13, <1>14, <1>15, WorkKeeps

LEMMA FireStep ==
    ASSUME WheelInv, FireNext
    PROVE  WheelInv'
<1>1. PICK i : i = Head(pass.batch).index
    OBVIOUS
<1>2. /\ Working /\ Due(Head(pass.batch)) /\ FireEntry(i) /\ TakeHead
      /\ UNCHANGED <<currentTick, nextTimerId, entityTimers, body, setBy, leftBehind>>
      /\ firing' = entries[i].id
    BY <1>1 DEF FireNext, FireEntry
<1>3. i \in DOMAIN entries /\ Live(i)
    BY <1>1, <1>2, DueIs
<1>4. entries[i] \in EntryType /\ currentTick \in Nat /\ entries[i].period \in Nat
    BY <1>3, EntryIs
<1>5. CASE entries[i].period > 0
  <2>1. PICK e : e = [entries[i] EXCEPT !.fireTick = currentTick + entries[i].period]
      OBVIOUS
  <2>2. e \in EntryType /\ e.id = entries[i].id /\ ~e.cancelled /\ e.fireTick > currentTick
    <3>1. currentTick + entries[i].period \in Nat /\ currentTick + entries[i].period > currentTick
        BY <1>4, <1>5
    <3> QED
        BY <1>3, <1>4, <2>1, <3>1 DEF EntryType, Live
  <2>3. Inserted(i, e, wheels) /\ freeList' = freeList
      BY <1>2, <1>5, <2>1 DEF FireEntry
  <2> QED
      BY <1>1, <1>2, <2>2, <2>3, ReinsertStep
<1>6. CASE ~(entries[i].period > 0)
  <2>1. /\ entries' = [entries EXCEPT ![i].cancelled = TRUE] /\ freeList' = Append(freeList, i)
        /\ UNCHANGED wheels
      BY <1>2, <1>6 DEF FireEntry
  <2> QED
      BY <1>1, <1>2, <2>1, OneShotStep
<1> QED
    BY <1>5, <1>6

LEMMA CascadeStep ==
    ASSUME WheelInv, CascadeNext
    PROVE  WheelInv'
<1>1. PICK i : i = Head(pass.batch).index
    OBVIOUS
<1>2. /\ Working /\ Due(Head(pass.batch)) /\ ~FiresNow(i) /\ Inserted(i, entries[i], wheels) /\ TakeHead
      /\ freeList' = freeList /\ firing' = firing
      /\ UNCHANGED <<currentTick, nextTimerId, entityTimers, body, setBy, leftBehind>>
    BY <1>1 DEF CascadeNext
<1>3. i \in DOMAIN entries /\ Live(i)
    BY <1>1, <1>2, DueIs
<1>4. entries[i] \in EntryType /\ currentTick \in Nat /\ entries[i].fireTick \in Nat
    BY <1>3, EntryIs
<1>5. entries[i].fireTick > currentTick /\ ~entries[i].cancelled
    BY <1>2, <1>3, <1>4 DEF FiresNow, Live
<1>6. firing' = 0
    BY <1>2 DEF Working
<1>7. PICK e : e = entries[i]
    OBVIOUS
<1>8. /\ e \in EntryType /\ e.id = entries[i].id /\ ~e.cancelled /\ e.fireTick > currentTick
      /\ Inserted(i, e, wheels)
    BY <1>2, <1>4, <1>5, <1>7
<1> QED
    BY <1>1, <1>2, <1>6, <1>8, ReinsertStep

LEMMA SkipStep ==
    ASSUME WheelInv, SkipNext
    PROVE  WheelInv'
<1>1. PICK h : h = Head(pass.batch)
    OBVIOUS
<1>2. /\ Working /\ ~Due(h) /\ TakeHead
      /\ UNCHANGED <<currentTick, entries, freeList, wheels, nextTimerId, firing, entityTimers, body, setBy, leftBehind>>
    BY <1>1 DEF SkipNext
<1>3. Pending' = Pending
  <2>1. Pending' = Pending \ {h.index}
      BY <1>1, <1>2, HeadWasPending
  <2>2. h.index \notin Pending
      BY <1>1, <1>2, HeadIs
  <2> QED
      BY <2>1, <2>2
<1>4. pass'.ring = pass.ring
  <2>1. [pass EXCEPT !.batch = Tail(@)] = [ring |-> pass.ring, batch |-> Tail(pass.batch)]
      BY <1>1, <1>2, HeadIs
  <2> QED
      BY <1>2, <2>1 DEF TakeHead
<1>5. EntriesPlaced'
    BY <1>2, <1>3 DEF WheelInv, EntriesPlaced, Live
<1>6. EntriesAhead'
    BY <1>2, <1>3, <1>4 DEF WheelInv, EntriesAhead, Live, Ahead, SlotIn, Span
<1>7. /\ entries \in Seq(EntryType) /\ freeList \in Seq(DOMAIN entries)
      /\ wheels \in [Rings -> [Slots -> Seq(DOMAIN entries)]]
    BY EntryIs
<1>8. /\ entries' \in Seq(EntryType) /\ DOMAIN entries' = DOMAIN entries
      /\ freeList' \in Seq(DOMAIN entries) /\ wheels' \in [Rings -> [Slots -> Seq(DOMAIN entries)]]
      /\ \A j \in DOMAIN entries : entries'[j].id = entries[j].id /\ (Live(j)' => Live(j))
      /\ firing' = 0
    BY <1>2, <1>7 DEF Live, Working
<1>9. UNCHANGED <<currentTick, nextTimerId, entityTimers, body, setBy, leftBehind>>
    BY <1>2
<1> QED
    BY <1>1, <1>2, <1>5, <1>6, <1>8, <1>9, WorkKeeps

-----------------------------------------------------------------------------
(* What an advance takes out *)

\* A batch as it is taken from a slot.
LEMMA SnapshotIs ==
    ASSUME WheelInv, NEW r \in Rings, NEW t \in Nat, NEW list, list = wheels[r][SlotIn(r, t)]
    PROVE  /\ list \in Seq(DOMAIN entries) /\ IsInjective(list) /\ SlotIn(r, t) \in Slots
           /\ Snapshot(r, t) \in Seq(Items) /\ DOMAIN Snapshot(r, t) = DOMAIN list
           /\ \A k \in DOMAIN list : /\ Snapshot(r, t)[k].index = list[k] /\ list[k] \in DOMAIN entries
                                     /\ Snapshot(r, t)[k].id = entries[list[k]].id
<1>1. SlotIn(r, t) \in Slots
    BY SlotIs
<1>2. list \in Seq(DOMAIN entries) /\ IsInjective(list)
    BY <1>1, EntryIs DEF WheelInv, EntriesPlaced
<1>3. PICK n \in Nat : n = Len(list) /\ DOMAIN list = 1 .. n /\ \A k \in 1 .. n : list[k] \in DOMAIN entries
  <2>1. Len(list) \in Nat /\ DOMAIN list = 1 .. Len(list)
      BY <1>2
  <2>2. \A k \in DOMAIN list : list[k] \in DOMAIN entries
      BY <1>2
  <2> QED
      BY <2>1, <2>2
<1>4. PICK b : b = [k \in 1 .. n |-> [index |-> list[k], id |-> entries[list[k]].id]]
    OBVIOUS
<1>5. Snapshot(r, t) = b
    BY <1>3, <1>4 DEF Snapshot
<1>6. \A k \in 1 .. n : /\ b[k].index = list[k] /\ b[k].id = entries[list[k]].id /\ b[k] \in Items
  <2>1. \A i \in DOMAIN entries : entries[i].id \in 1 .. MaxTimers
      BY EntryIs
  <2> QED
      BY <1>3, <1>4, <2>1 DEF Items
<1>7. b \in [1 .. n -> Items] /\ DOMAIN b = 1 .. n
    BY <1>4, <1>6
<1>8. b \in Seq(Items)
    BY <1>7, ArrayIs
<1> QED
    BY <1>1, <1>2, <1>3, <1>5, <1>6, <1>7, <1>8

\* A slot becomes the batch: what was in it is what the batch has to look at.
LEMMA SnapshotPlaces ==
    ASSUME WheelInv, pass.batch = << >>, NEW r \in Rings, NEW t \in Nat, NEW b, b = Snapshot(r, t),
           pass' = [ring |-> r, batch |-> b], wheels' = Emptied(r, t), UNCHANGED <<entries, freeList>>
    PROVE  /\ EntriesPlaced' /\ wheels' \in [Rings -> [Slots -> Seq(DOMAIN entries)]]
           /\ Pending = {}
           /\ \A i \in DOMAIN entries : i \in Pending' <=>
                 Live(i) /\ entries[i].ring = r /\ entries[i].slot = SlotIn(r, t)
           /\ b \in Seq(Items) /\ pass'.ring = r /\ pass'.batch = b
           /\ \A k \in DOMAIN b : b[k].id < nextTimerId
           /\ \A k, m \in DOMAIN b : b[k].index = b[m].index => k = m
<1>1. PICK s : s = SlotIn(r, t)
    OBVIOUS
<1>2. PICK list : list = wheels[r][s]
    OBVIOUS
<1>3. /\ list \in Seq(DOMAIN entries) /\ IsInjective(list) /\ s \in Slots
      /\ b \in Seq(Items) /\ DOMAIN b = DOMAIN list
      /\ \A k \in DOMAIN list : /\ b[k].index = list[k] /\ list[k] \in DOMAIN entries
                                /\ b[k].id = entries[list[k]].id
    BY <1>1, <1>2, SnapshotIs
<1>4. Pending = {}
  <2>1. DOMAIN pass.batch = {}
      OBVIOUS
  <2> QED
      BY <2>1 DEF Pending
<1>5. /\ wheels \in [Rings -> [Slots -> Seq(DOMAIN entries)]]
      /\ wheels' = [wheels EXCEPT ![r] = [wheels[r] EXCEPT ![s] = << >>]]
    BY <1>1, EntryIs DEF Emptied
<1>6. \A i \in Rings, j \in Slots : wheels'[i][j] = IF i = r /\ j = s THEN << >> ELSE wheels[i][j]
    BY <1>3, <1>5
<1>7. wheels' \in [Rings -> [Slots -> Seq(DOMAIN entries)]]
  <2>1. << >> \in Seq(DOMAIN entries)
      OBVIOUS
  <2>2. wheels[r] \in [Slots -> Seq(DOMAIN entries)]
      BY <1>5
  <2>3. [wheels[r] EXCEPT ![s] = << >>] \in [Slots -> Seq(DOMAIN entries)]
      BY <2>1, <2>2
  <2> QED
      BY <1>5, <2>3
<1>8. pass'.ring = r /\ pass'.batch = b
    OBVIOUS
<1>9. EntriesPlaced
    BY DEF WheelInv
<1>10. \A i \in DOMAIN entries : i \in ToSet(list) <=> Live(i) /\ entries[i].ring = r /\ entries[i].slot = s
    BY <1>2, <1>3, <1>4, <1>9 DEF EntriesPlaced
<1>11. \A i \in DOMAIN entries : i \in Pending' <=> i \in ToSet(list)
  <2>1. ASSUME NEW i \in DOMAIN entries PROVE i \in Pending' <=> i \in ToSet(list)
    <3>1. i \in Pending' <=> \E k \in DOMAIN b : b[k].index = i /\ entries[i].id = b[k].id /\ ~entries[i].cancelled
        BY <1>8 DEF Pending, Due, Holds, Live
    <3>2. i \in ToSet(list) <=> \E k \in DOMAIN list : list[k] = i
        BY DEF ToSet
    <3>3. i \in ToSet(list) => ~entries[i].cancelled
        BY <1>10 DEF Live
    <3> QED
        BY <1>3, <3>1, <3>2, <3>3
  <2> QED
      BY <2>1
<1>12. EntriesPlaced'
  <2>1. ASSUME NEW i \in Rings, NEW j \in Slots
        PROVE  /\ IsInjective(wheels'[i][j])
               /\ \A k \in DOMAIN entries : k \in ToSet(wheels'[i][j]) <=>
                     Live(k) /\ k \notin Pending' /\ i = entries[k].ring /\ j = entries[k].slot
    <3>1. CASE i = r /\ j = s
      <4>1. wheels'[i][j] = << >>
          BY <1>6, <3>1
      <4>2. IsInjective(<< >>) /\ ToSet(<< >>) = {}
          BY DEF IsInjective, ToSet
      <4> QED
          BY <1>10, <1>11, <3>1, <4>1, <4>2
    <3>2. CASE ~(i = r /\ j = s)
      <4>1. wheels'[i][j] = wheels[i][j]
          BY <1>6, <3>2
      <4>2. /\ IsInjective(wheels[i][j])
            /\ \A k \in DOMAIN entries : k \in ToSet(wheels[i][j]) <=>
                  Live(k) /\ i = entries[k].ring /\ j = entries[k].slot
          BY <1>4, <1>9 DEF EntriesPlaced
      <4> QED
          BY <1>10, <1>11, <3>2, <4>1, <4>2
    <3> QED
        BY <3>1, <3>2
  <2>2. IsInjective(freeList) /\ \A i \in DOMAIN entries : i \in ToSet(freeList) <=> ~Live(i)
      BY <1>9 DEF EntriesPlaced
  <2>3. entries' = entries /\ freeList' = freeList
      OBVIOUS
  <2> QED
      BY <2>1, <2>2, <2>3 DEF EntriesPlaced, Live
<1>13. \A k \in DOMAIN b : b[k].id < nextTimerId
    BY <1>3 DEF WheelInv, IdsApart
<1>14. \A k, m \in DOMAIN b : b[k].index = b[m].index => k = m
    BY <1>3 DEF IsInjective
<1> QED
    BY <1>1, <1>3, <1>4, <1>7, <1>8, <1>10, <1>11, <1>12, <1>13, <1>14

\* A step that takes a batch, or ends the advance, and leaves the entries alone.
LEMMA PassKeeps ==
    ASSUME WheelInv, UNCHANGED <<entries, freeList, nextTimerId, firing, entityTimers, body, setBy, leftBehind>>,
           currentTick' \in 0 .. MaxTicks, firing = 0,
           wheels' \in [Rings -> [Slots -> Seq(DOMAIN entries)]],
           pass' \in [ring : 0 .. Levels, batch : Seq(Items)], pass'.ring = Outside => pass'.batch = << >>,
           \A k \in DOMAIN pass'.batch : pass'.batch[k].id < nextTimerId,
           \A k, m \in DOMAIN pass'.batch : pass'.batch[k].index = pass'.batch[m].index => k = m,
           EntriesPlaced', EntriesAhead'
    PROVE  WheelInv'
<1>1. /\ entries' = entries /\ freeList' = freeList /\ nextTimerId' = nextTimerId /\ firing' = firing
      /\ entityTimers' = entityTimers /\ body' = body /\ setBy' = setBy /\ leftBehind' = leftBehind
    OBVIOUS
<1>2. WheelTyped /\ WheelTypeOK /\ IdsApart /\ TimersHaveBodies
    BY DEF WheelInv, WheelTyped
<1>3. WheelTyped'
  <2>1. WheelTypeOK'
    <3>1. pass'.ring \in 0 .. Levels
        OBVIOUS
    <3> QED
        BY <1>1, <1>2, <3>1 DEF WheelTypeOK
  <2>2. Items' = Items
      BY <1>1 DEF Items
  <2>3. pass' \in [ring : 0 .. Levels, batch : Seq(Items')]
      BY <2>2
  <2> QED
      BY <1>1, <1>2, <2>1, <2>3 DEF WheelTyped
<1>4. IdsApart'
    BY <1>1, <1>2 DEF IdsApart, Live
<1>5. TimersHaveBodies'
    BY <1>1, <1>2 DEF TimersHaveBodies, OldTimersAreSilent, Live
<1> QED
    BY <1>3, <1>4, <1>5 DEF WheelInv

\* The slot of a tick in ring 0 is a remainder.
LEMMA FirstRingIs ==
    ASSUME NEW t \in Nat
    PROVE  SlotIn(0, t) = t % SlotsPerLevel /\ t \div Span(0) = t
<1>1. Span(0) = 1
    BY SpansAre
<1>2. t \div 1 = t
    OBVIOUS
<1> QED
    BY <1>1, <1>2 DEF SlotIn, Span

\* An entry in a slot, as the tick goes on by one.
LEMMA AheadNextTick ==
    ASSUME NEW e \in EntryType, NEW now \in Nat, Ahead(e, FALSE, now, Outside)
    PROVE  /\ e.ring = 0 /\ e.slot = SlotIn(0, now + 1) => e.fireTick = now + 1
           /\ ~(e.ring = 0 /\ e.slot = SlotIn(0, now + 1)) => Ahead(e, FALSE, now + 1, 0)
<1>1. PICK f \in Nat : f = e.fireTick
    BY DEF EntryType
<1>2. PICK r \in Rings : r = e.ring
    BY DEF EntryType
<1>3. /\ e.slot = SlotIn(r, f) /\ (r = 0 => f < now + SlotsPerLevel)
      /\ f \div Span(r) > now \div Span(r)
  <2>1. ~(r > Outside)
      BY WheelAssumption DEF Rings, Outside
  <2> QED
      BY <1>1, <1>2, <2>1 DEF Ahead
<1>4. SlotsPerLevel \in Nat \ {0} /\ Span(r) \in Nat \ {0}
    BY WheelAssumption, SpansAre
<1>5. CASE r = 0
  <2>1. f > now /\ f < now + SlotsPerLevel
      BY <1>3, <1>5, FirstRingIs
  <2>2. e.slot = f % SlotsPerLevel /\ SlotIn(0, now + 1) = (now + 1) % SlotsPerLevel
    <3>1. now + 1 \in Nat
        OBVIOUS
    <3> QED
        BY <1>3, <1>5, <3>1, FirstRingIs
  <2>3. CASE e.slot = SlotIn(0, now + 1)
    <3>1. PICK c \in Nat : c = now + 1
        OBVIOUS
    <3>2. c <= f /\ f < c + SlotsPerLevel /\ c % SlotsPerLevel = f % SlotsPerLevel
        BY <1>4, <2>1, <2>2, <2>3, <3>1
    <3>3. c = f
        BY <1>4, <3>2, SameRemainder
    <3> QED
        BY <1>1, <1>2, <1>5, <2>3, <3>1, <3>3
  <2>4. CASE e.slot # SlotIn(0, now + 1)
    <3>1. f # now + 1
        BY <1>3, <1>5, <2>4
    <3>2. f > now + 1 /\ f < now + 1 + SlotsPerLevel
        BY <1>4, <2>1, <3>1
    <3>3. f \div Span(0) = f /\ (now + 1) \div Span(0) = now + 1
      <4>1. now + 1 \in Nat
          OBVIOUS
      <4> QED
          BY <4>1, FirstRingIs
    <3>4. f \div Span(0) > (now + 1) \div Span(0)
        BY <3>2, <3>3
    <3> QED
        BY <1>1, <1>2, <1>3, <1>5, <2>4, <3>2, <3>4 DEF Ahead
  <2> QED
      BY <2>3, <2>4
<1>6. CASE r # 0
  <2>1. r > 0
      BY <1>6 DEF Rings
  <2>2. \/ (now + 1) \div Span(r) = now \div Span(r)
        \/ (now + 1) % Span(r) = 0 /\ (now + 1) \div Span(r) = (now \div Span(r)) + 1
      BY <1>4, NextQuotient
  <2>3. f \div Span(r) \in Nat /\ now \div Span(r) \in Nat
      BY <1>4, DivisionIs
  <2>4. \/ f \div Span(r) > (now + 1) \div Span(r)
        \/ (now + 1) % Span(r) = 0 /\ f \div Span(r) = (now + 1) \div Span(r)
      BY <1>3, <2>2, <2>3
  <2> QED
      BY <1>1, <1>2, <1>3, <1>6, <2>1, <2>4 DEF Ahead
<1> QED
    BY <1>5, <1>6

\* An entry in a slot, as the advance goes on to ring r.
LEMMA AheadNextRing ==
    ASSUME NEW e \in EntryType, NEW now \in Nat, NEW r \in Rings, NEW q, q = r - 1, Ahead(e, FALSE, now, q),
           now % Span(r) = 0, r # 0
    PROVE  /\ e.ring = r /\ e.slot = SlotIn(r, now) => e.fireTick >= now
           /\ ~(e.ring = r /\ e.slot = SlotIn(r, now)) => Ahead(e, FALSE, now, r)
<1>1. PICK f \in Nat : f = e.fireTick
    BY DEF EntryType
<1>2. PICK k \in Rings : k = e.ring
    BY DEF EntryType
<1>3. /\ e.slot = SlotIn(k, f) /\ (k = 0 => f < now + SlotsPerLevel)
      /\ \/ f \div Span(k) > now \div Span(k)
         \/ k > q /\ now % Span(k) = 0 /\ f \div Span(k) = now \div Span(k)
    BY <1>1, <1>2 DEF Ahead
<1>4. Span(k) \in Nat \ {0} /\ k \in Nat /\ r \in Nat
    BY SpansAre DEF Rings
<1>5. f \div Span(k) \in Nat /\ now \div Span(k) \in Nat
    BY <1>4, DivisionIs
<1>6. CASE k = r /\ e.slot = SlotIn(r, now)
  <2>1. now % Span(k) = 0 /\ f \div Span(k) >= now \div Span(k)
      BY <1>3, <1>5, <1>6
  <2>2. f >= now
      BY <1>4, <2>1, MultipleFirst
  <2> QED
      BY <1>1, <1>2, <1>6, <2>2
<1>7. CASE ~(k = r /\ e.slot = SlotIn(r, now))
  <2>1. \/ f \div Span(k) > now \div Span(k)
        \/ k > r /\ now % Span(k) = 0 /\ f \div Span(k) = now \div Span(k)
    <3>1. CASE f \div Span(k) > now \div Span(k)
        BY <3>1
    <3>2. CASE k > q /\ now % Span(k) = 0 /\ f \div Span(k) = now \div Span(k)
      <4>1. k # r
        <5>1. ASSUME k = r PROVE FALSE
          <6>1. SlotIn(r, f) = SlotIn(r, now)
              BY <3>2, <5>1 DEF SlotIn, Span
          <6> QED
              BY <1>3, <1>7, <5>1, <6>1
        <5> QED
            BY <5>1
      <4>2. k > r
          BY <1>4, <3>2, <4>1
      <4> QED
          BY <3>2, <4>2
    <3> QED
        BY <1>3, <3>1, <3>2
  <2> QED
      BY <1>1, <1>2, <1>3, <1>7, <2>1 DEF Ahead
<1> QED
    BY <1>2, <1>6, <1>7

\* An entry in a slot, as the advance ends.
LEMMA AheadAtEnd ==
    ASSUME NEW e \in EntryType, NEW now \in Nat, NEW q \in Rings, Ahead(e, FALSE, now, q),
           ~(q + 1 < Levels /\ now % Span(q + 1) = 0)
    PROVE  Ahead(e, FALSE, now, Outside)
<1>1. PICK f \in Nat : f = e.fireTick
    BY DEF EntryType
<1>2. PICK k \in Rings : k = e.ring
    BY DEF EntryType
<1>3. /\ e.slot = SlotIn(k, f) /\ (k = 0 => f < now + SlotsPerLevel)
      /\ \/ f \div Span(k) > now \div Span(k)
         \/ k > q /\ now % Span(k) = 0 /\ f \div Span(k) = now \div Span(k)
    BY <1>1, <1>2 DEF Ahead
<1>4. ~(k > q /\ now % Span(k) = 0)
  <2>1. ASSUME k > q, now % Span(k) = 0 PROVE FALSE
    <3>1. /\ q + 1 \in Rings /\ q + 1 <= k /\ q + 1 < Levels
      <4>1. Levels \in Nat /\ q \in 0 .. Levels - 1 /\ k \in 0 .. Levels - 1
          BY WheelAssumption DEF Rings
      <4>2. q + 1 <= k /\ q + 1 < Levels /\ q + 1 \in 0 .. Levels - 1
          BY <2>1, <4>1
      <4> QED
          BY <4>2 DEF Rings
    <3>2. PICK r \in Rings : r = q + 1
        BY <3>1
    <3>3. r <= k
        BY <3>1, <3>2
    <3>4. now % Span(r) = 0
        BY <2>1, <3>3, SpansNest
    <3> QED
        BY <3>1, <3>2, <3>4
  <2> QED
      BY <2>1
<1> QED
    BY <1>1, <1>2, <1>3, <1>4 DEF Ahead

LEMMA AdvanceStep ==
    ASSUME WheelInv, Advance
    PROVE  WheelInv'
<1>1. /\ pass = NotAdvancing /\ currentTick < MaxTicks /\ currentTick' = currentTick + 1
      /\ wheels' = Emptied(0, currentTick + 1)
      /\ pass' = [ring |-> 0, batch |-> Snapshot(0, currentTick + 1)]
      /\ UNCHANGED <<entries, freeList, nextTimerId, firing, entityTimers, body, setBy, leftBehind>>
    BY DEF Advance
<1>2. currentTick \in Nat /\ \A i \in DOMAIN entries : entries[i] \in EntryType
    BY EntryIs
<1>3. PICK t \in Nat : t = currentTick + 1
    BY <1>2
<1>4. PICK b : b = Snapshot(0, t)
    OBVIOUS
<1>5. pass.batch = << >> /\ pass.ring = Outside
    BY <1>1 DEF NotAdvancing
<1>6. pass' = [ring |-> 0, batch |-> b] /\ wheels' = Emptied(0, t) /\ currentTick' = t
    BY <1>1, <1>3, <1>4
<1>7. 0 \in Rings /\ 0 # Outside
    BY SpansAre
<1>8. /\ EntriesPlaced' /\ wheels' \in [Rings -> [Slots -> Seq(DOMAIN entries)]]
      /\ Pending = {}
      /\ \A i \in DOMAIN entries : i \in Pending' <=>
            Live(i) /\ entries[i].ring = 0 /\ entries[i].slot = SlotIn(0, t)
      /\ b \in Seq(Items) /\ pass'.ring = 0 /\ pass'.batch = b
      /\ \A k \in DOMAIN b : b[k].id < nextTimerId
      /\ \A k, m \in DOMAIN b : b[k].index = b[m].index => k = m
  <2>1. UNCHANGED <<entries, freeList>>
      BY <1>1
  <2> QED
      BY <1>4, <1>5, <1>6, <1>7, <2>1, SnapshotPlaces
<1>9. EntriesAhead'
  <2>1. ASSUME NEW i \in DOMAIN entries, Live(i)
        PROVE  Ahead(entries[i], i \in Pending', t, 0)
    <3>1. Ahead(entries[i], FALSE, currentTick, Outside)
        BY <1>5, <1>8, <2>1 DEF WheelInv, EntriesAhead, Ahead
    <3>2. PICK e \in EntryType : e = entries[i]
        BY <1>2
    <3>3. Ahead(e, FALSE, currentTick, Outside)
        BY <3>1, <3>2
    <3>4. /\ e.ring = 0 /\ e.slot = SlotIn(0, t) => e.fireTick = t
          /\ ~(e.ring = 0 /\ e.slot = SlotIn(0, t)) => Ahead(e, FALSE, t, 0)
      <4>1. /\ e.ring = 0 /\ e.slot = SlotIn(0, currentTick + 1) => e.fireTick = currentTick + 1
            /\ ~(e.ring = 0 /\ e.slot = SlotIn(0, currentTick + 1)) => Ahead(e, FALSE, currentTick + 1, 0)
          BY <1>2, <3>3, AheadNextTick
      <4> QED
          BY <1>3, <4>1
    <3>5. CASE i \in Pending'
      <4>1. e.fireTick = t
          BY <1>8, <3>2, <3>4, <3>5
      <4> QED
          BY <3>2, <3>5, <4>1 DEF Ahead
    <3>6. CASE i \notin Pending'
      <4>1. Ahead(e, FALSE, t, 0)
          BY <1>8, <2>1, <3>2, <3>4, <3>6
      <4> QED
          BY <3>2, <3>6, <4>1 DEF Ahead
    <3> QED
        BY <3>5, <3>6
  <2>2. pass'.ring = 0
      BY <1>8
  <2> QED
      BY <1>1, <1>6, <2>1, <2>2 DEF EntriesAhead, Live, Ahead, SlotIn, Span
<1>10. /\ currentTick' \in 0 .. MaxTicks /\ firing = 0
       /\ pass' \in [ring : 0 .. Levels, batch : Seq(Items)] /\ pass'.ring # Outside
  <2>1. firing = 0
      BY <1>5 DEF WheelInv, WheelTyped
  <2>2. currentTick' \in 0 .. MaxTicks
      BY <1>1, <1>2, WheelAssumption
  <2>3. 0 \in 0 .. Levels
      BY WheelAssumption
  <2> QED
      BY <1>6, <1>7, <1>8, <2>1, <2>2, <2>3
<1>11. UNCHANGED <<entries, freeList, nextTimerId, firing, entityTimers, body, setBy, leftBehind>>
    BY <1>1
<1>12. /\ \A k \in DOMAIN pass'.batch : pass'.batch[k].id < nextTimerId
       /\ \A k, m \in DOMAIN pass'.batch : pass'.batch[k].index = pass'.batch[m].index => k = m
    BY <1>8
<1> QED
    BY <1>8, <1>9, <1>10, <1>11, <1>12, PassKeeps

LEMMA NextRingStep ==
    ASSUME WheelInv, NextRing
    PROVE  WheelInv'
<1>1. PICK r : r = pass.ring + 1
    OBVIOUS
<1>2. /\ firing = 0 /\ pass.ring # Outside /\ pass.batch = << >>
      /\ UNCHANGED <<currentTick, entries, freeList, nextTimerId, firing, entityTimers, body, setBy, leftBehind>>
    BY DEF NextRing
<1>3. /\ currentTick \in Nat /\ \A i \in DOMAIN entries : entries[i] \in EntryType
      /\ wheels \in [Rings -> [Slots -> Seq(DOMAIN entries)]]
    BY EntryIs
<1>4. pass.ring \in Rings /\ currentTick \in 0 .. MaxTicks
  <2>1. pass.ring \in 0 .. Levels /\ currentTick \in 0 .. MaxTicks
      BY DEF WheelInv, WheelTyped, WheelTypeOK
  <2>2. PICK z : z = pass.ring
      OBVIOUS
  <2>3. z \in 0 .. Levels /\ z # Levels /\ Levels \in Nat
      BY <1>2, <2>1, <2>2, WheelAssumption DEF Outside
  <2>4. z \in 0 .. Levels - 1
      BY <2>3
  <2> QED
      BY <2>1, <2>2, <2>4 DEF Rings
<1>5. Pending = {}
  <2>1. DOMAIN pass.batch = {}
      BY <1>2
  <2> QED
      BY <2>1 DEF Pending
<1>6. PICK z \in Rings : z = pass.ring
    BY <1>4
<1>7. \A i \in DOMAIN entries : Live(i) => Ahead(entries[i], FALSE, currentTick, z)
    BY <1>5, <1>6 DEF WheelInv, EntriesAhead, Ahead
<1>8. z \in Nat /\ z \in 0 .. Levels - 1 /\ Levels \in Nat
    BY <1>6, WheelAssumption DEF Rings
<1>9. CASE r < Levels /\ currentTick % Span(r) = 0
  <2>1. r \in Rings /\ r # 0 /\ z = r - 1 /\ r # Outside /\ r \in 0 .. Levels
    <3>1. r = z + 1
        BY <1>1, <1>6
    <3>2. r \in 0 .. Levels - 1 /\ r # 0 /\ z = r - 1 /\ r # Levels /\ r \in 0 .. Levels
        BY <1>8, <1>9, <3>1
    <3> QED
        BY <3>2 DEF Rings, Outside
  <2>2. PICK b : b = Snapshot(r, currentTick)
      OBVIOUS
  <2>3. pass' = [ring |-> r, batch |-> b] /\ wheels' = Emptied(r, currentTick)
      BY <1>1, <1>9, <2>2 DEF NextRing, Span
  <2>4. /\ EntriesPlaced' /\ wheels' \in [Rings -> [Slots -> Seq(DOMAIN entries)]]
        /\ \A i \in DOMAIN entries : i \in Pending' <=>
              Live(i) /\ entries[i].ring = r /\ entries[i].slot = SlotIn(r, currentTick)
        /\ b \in Seq(Items) /\ pass'.ring = r /\ pass'.batch = b
        /\ \A k \in DOMAIN b : b[k].id < nextTimerId
        /\ \A k, m \in DOMAIN b : b[k].index = b[m].index => k = m
    <3>1. UNCHANGED <<entries, freeList>>
        BY <1>2
    <3> QED
        BY <1>2, <1>3, <2>1, <2>2, <2>3, <3>1, SnapshotPlaces
  <2>5. EntriesAhead'
    <3>1. ASSUME NEW i \in DOMAIN entries, Live(i)
          PROVE  Ahead(entries[i], i \in Pending', currentTick, r)
      <4>1. PICK e \in EntryType : e = entries[i]
          BY <1>3
      <4>2. Ahead(e, FALSE, currentTick, z)
          BY <1>7, <3>1, <4>1
      <4>3. /\ e.ring = r /\ e.slot = SlotIn(r, currentTick) => e.fireTick >= currentTick
            /\ ~(e.ring = r /\ e.slot = SlotIn(r, currentTick)) => Ahead(e, FALSE, currentTick, r)
          BY <1>3, <1>9, <2>1, <4>2, AheadNextRing
      <4>4. CASE i \in Pending'
        <5>1. e.fireTick >= currentTick
            BY <2>4, <4>1, <4>3, <4>4
        <5> QED
            BY <2>1, <4>1, <4>4, <5>1 DEF Ahead
      <4>5. CASE i \notin Pending'
        <5>1. Ahead(e, FALSE, currentTick, r)
            BY <2>4, <3>1, <4>1, <4>3, <4>5
        <5> QED
            BY <4>1, <4>5, <5>1 DEF Ahead
      <4> QED
          BY <4>4, <4>5
    <3>2. pass'.ring = r
        BY <2>4
    <3> QED
        BY <1>2, <3>1, <3>2 DEF EntriesAhead, Live, Ahead, SlotIn, Span
  <2>6. pass' \in [ring : 0 .. Levels, batch : Seq(Items)] /\ pass'.ring # Outside
      BY <2>1, <2>3, <2>4
  <2>7. UNCHANGED <<entries, freeList, nextTimerId, firing, entityTimers, body, setBy, leftBehind>>
      BY <1>2
  <2>8. currentTick' \in 0 .. MaxTicks
      BY <1>2, <1>4
  <2>9. /\ \A k \in DOMAIN pass'.batch : pass'.batch[k].id < nextTimerId
        /\ \A k, m \in DOMAIN pass'.batch : pass'.batch[k].index = pass'.batch[m].index => k = m
      BY <2>4
  <2> QED
      BY <1>2, <2>4, <2>5, <2>6, <2>7, <2>8, <2>9, PassKeeps
<1>10. CASE ~(r < Levels /\ currentTick % Span(r) = 0)
  <2>1. pass' = NotAdvancing /\ wheels' = wheels
      BY <1>1, <1>10 DEF NextRing, Span
  <2>2. /\ pass' \in [ring : 0 .. Levels, batch : Seq(Items)] /\ pass'.ring = Outside /\ pass'.batch = << >>
    <3>1. Outside \in 0 .. Levels /\ << >> \in Seq(Items)
        BY WheelAssumption DEF Outside
    <3> QED
        BY <2>1, <3>1 DEF NotAdvancing
  <2>3. Pending' = {}
    <3>1. DOMAIN pass'.batch = {}
        BY <2>2
    <3> QED
        BY <3>1 DEF Pending
  <2>4. EntriesPlaced'
      BY <1>2, <1>5, <2>1, <2>3 DEF WheelInv, EntriesPlaced, Live
  <2>5. EntriesAhead'
    <3>1. ASSUME NEW i \in DOMAIN entries, Live(i)
          PROVE  Ahead(entries[i], FALSE, currentTick, Outside)
      <4>1. PICK e \in EntryType : e = entries[i]
          BY <1>3
      <4>2. Ahead(e, FALSE, currentTick, z)
          BY <1>7, <3>1, <4>1
      <4>3. ~(z + 1 < Levels /\ currentTick % Span(z + 1) = 0)
          BY <1>1, <1>6, <1>10
      <4>4. Ahead(e, FALSE, currentTick, Outside)
          BY <1>3, <4>2, <4>3, AheadAtEnd
      <4> QED
          BY <4>1, <4>4
    <3> QED
        BY <1>2, <2>2, <2>3, <3>1 DEF EntriesAhead, Live, Ahead, SlotIn, Span
  <2>6. UNCHANGED <<entries, freeList, nextTimerId, firing, entityTimers, body, setBy, leftBehind>>
      BY <1>2
  <2>7. currentTick' \in 0 .. MaxTicks /\ wheels' \in [Rings -> [Slots -> Seq(DOMAIN entries)]]
      BY <1>2, <1>3, <1>4, <2>1
  <2>8. /\ \A k \in DOMAIN pass'.batch : pass'.batch[k].id < nextTimerId
        /\ \A k, m \in DOMAIN pass'.batch : pass'.batch[k].index = pass'.batch[m].index => k = m
      BY <2>2
  <2> QED
      BY <1>2, <2>2, <2>4, <2>5, <2>6, <2>7, <2>8, PassKeeps
<1> QED
    BY <1>9, <1>10

\* The steps that touch neither entries nor slots.
LEMMA QuietStep ==
    ASSUME WheelInv, CallbackReturns \/ LoseCallback \/ \E e \in Owners : LeaveTimers(e) \/ NewBody(e)
    PROVE  WheelInv'
<1>1. /\ currentTick' = currentTick /\ entries' = entries /\ freeList' = freeList /\ wheels' = wheels
      /\ nextTimerId' = nextTimerId /\ pass' = pass /\ entityTimers' = entityTimers /\ setBy' = setBy
      /\ firing' \in {0, firing}
    BY DEF CallbackReturns, LoseCallback, LeaveTimers, NewBody
<1>2. WheelTyped /\ WheelTypeOK /\ IdsApart /\ EntriesPlaced /\ EntriesAhead /\ TimersHaveBodies
    BY DEF WheelInv, WheelTyped
<1>3. Pending' = Pending
    BY <1>1 DEF Pending, Due, Holds, Live
<1>4. EntriesPlaced' /\ EntriesAhead'
    BY <1>1, <1>2, <1>3 DEF EntriesPlaced, EntriesAhead, Live, Ahead, SlotIn, Span
<1>5. nextTimerId \in Nat \ {0} /\ MaxTimers \in Nat
    BY EntryIs, WheelAssumption
<1>6. IdsApart'
  <2>1. firing' < nextTimerId
      BY <1>1, <1>2, <1>5 DEF IdsApart
  <2> QED
      BY <1>1, <1>2, <2>1 DEF IdsApart, Live
<1>7. WheelTypeOK' /\ pass' \in [ring : 0 .. Levels, batch : Seq(Items')]
      /\ (pass'.ring = Outside => pass'.batch = << >> /\ firing' = 0)
      /\ entityTimers' \in [Owners -> Seq(1 .. MaxTimers)]
      /\ setBy' = [k \in 1 .. nextTimerId' - 1 |-> setBy'[k]]
  <2>1. firing' \in 0 .. MaxTimers
      BY <1>1, <1>2, <1>5 DEF WheelTypeOK
  <2>2. Items' = Items
      BY <1>1 DEF Items
  <2>3. WheelTypeOK'
      BY <1>1, <1>2, <2>1 DEF WheelTypeOK
  <2> QED
      BY <1>1, <1>2, <2>2, <2>3 DEF WheelTyped
<1>8. CASE CallbackReturns
  <2>1. body' = body /\ leftBehind' = leftBehind /\ firing' = 0
      BY <1>8 DEF CallbackReturns
  <2>2. TimersHaveBodies'
      BY <1>1, <1>2, <2>1 DEF TimersHaveBodies, OldTimersAreSilent, Live
  <2>3. WheelTyped'
      BY <1>2, <1>7, <2>1 DEF WheelTyped
  <2> QED
      BY <1>4, <1>6, <2>2, <2>3 DEF WheelInv
<1>10. CASE LoseCallback
  <2>1. body' = body /\ leftBehind' = leftBehind /\ firing' = firing
      BY <1>10 DEF LoseCallback
  <2>2. TimersHaveBodies'
      BY <1>1, <1>2, <2>1 DEF TimersHaveBodies, OldTimersAreSilent, Live
  <2>3. WheelTyped'
      BY <1>2, <1>7, <2>1 DEF WheelTyped
  <2> QED
      BY <1>4, <1>6, <2>2, <2>3 DEF WheelInv
<1>9. ASSUME NEW e \in Owners, LeaveTimers(e) \/ NewBody(e) PROVE WheelInv'
  <2>1. PICK n : /\ body' = [body EXCEPT ![e] = n] /\ (n = 0 \/ pass = NotAdvancing)
                 /\ firing' = firing /\ leftBehind \subseteq leftBehind'
      BY <1>9 DEF LeaveTimers, NewBody
  <2>2. body = [o \in Owners |-> body[o]]
      BY <1>2 DEF WheelTyped
  <2>3. \A o \in Owners : body'[o] = IF o = e THEN n ELSE body[o]
    <3>1. DOMAIN body = Owners
        BY <2>2
    <3> QED
        BY <2>1, <3>1
  <2>4. body' = [o \in Owners |-> body'[o]]
    <3>1. DOMAIN body = Owners
        BY <2>2
    <3>2. [body EXCEPT ![e] = n] = [o \in Owners |-> IF o = e THEN n ELSE body[o]]
        BY <3>1
    <3>3. body' = [o \in Owners |-> IF o = e THEN n ELSE body[o]]
        BY <2>1, <3>2
    <3> QED
        BY <3>3
  <2>5. WheelTyped'
      BY <1>2, <1>7, <2>4 DEF WheelTyped
  <2>6. OldTimersAreSilent'
    <3>1. n = 0 \/ firing = 0
        BY <1>2, <2>1 DEF WheelTyped, NotAdvancing
    <3>2. ASSUME firing # 0, setBy[firing].owner # NoOwner
          PROVE  body'[setBy[firing].owner] \in {0, setBy[firing].body} \/ firing \in leftBehind'
      <4>1. body[setBy[firing].owner] \in {0, setBy[firing].body} \/ firing \in leftBehind
          BY <1>2, <3>2 DEF TimersHaveBodies, OldTimersAreSilent
      <4>2. CASE setBy[firing].owner = e
        <5>1. body'[e] = 0
            BY <2>3, <3>1, <3>2
        <5> QED
            BY <4>2, <5>1
      <4>3. CASE setBy[firing].owner # e
        <5>1. body'[setBy[firing].owner] = body[setBy[firing].owner]
            BY <2>1, <4>3
        <5> QED
            BY <2>1, <4>1, <5>1
      <4> QED
          BY <4>2, <4>3
    <3> QED
        BY <1>1, <2>1, <3>2 DEF OldTimersAreSilent
  <2>7. ASSUME NEW i \in DOMAIN entries, Live(i), NEW by, by = setBy[entries[i].id], by.owner # NoOwner
        PROVE  /\ by.owner \in Owners /\ by.body # 0
               /\ \/ entries[i].id \in leftBehind'
                  \/ /\ body'[by.owner] = by.body
                     /\ entries[i].id \in ToSet(entityTimers[by.owner])
    <3>1. /\ by.owner \in Owners /\ by.body # 0
          /\ \/ entries[i].id \in leftBehind
             \/ /\ body[by.owner] = by.body
                /\ entries[i].id \in ToSet(entityTimers[by.owner])
        BY <1>2, <2>7 DEF TimersHaveBodies
    <3>2. CASE by.owner # e
      <4>1. leftBehind \subseteq leftBehind'
          BY <1>9 DEF LeaveTimers, NewBody
      <4> QED
          BY <2>3, <3>1, <3>2, <4>1
    <3>3. CASE by.owner = e /\ LeaveTimers(e)
      <4>1. leftBehind' = leftBehind \cup ToSet(entityTimers[e])
          BY <3>3 DEF LeaveTimers
      <4> QED
          BY <3>1, <3>3, <4>1
    <3>4. CASE by.owner = e /\ NewBody(e)
      <4>1. leftBehind' = leftBehind /\ body[e] = 0
          BY <3>4 DEF NewBody
      <4> QED
          BY <3>1, <3>4, <4>1
    <3> QED
        BY <1>9, <3>2, <3>3, <3>4
  <2>8. TimersHaveBodies'
      BY <1>1, <2>6, <2>7 DEF TimersHaveBodies, Live
  <2> QED
      BY <1>4, <1>6, <2>5, <2>8 DEF WheelInv
<1> QED
    BY <1>8, <1>9, <1>10

LEMMA WheelStep == WheelInv /\ [WheelNext]_wheelVars => WheelInv'
<1> SUFFICES ASSUME WheelInv, [WheelNext]_wheelVars PROVE WheelInv'
    OBVIOUS
<1>1. ASSUME NEW ask \in Asks, AddTimer(ask) \/ AddEntityTimer(ask) PROVE WheelInv'
    BY <1>1, AddStep
<1>2. ASSUME NEW id \in 1 .. MaxTimers, CancelTimer(id) PROVE WheelInv'
    BY <1>2, CancelStep
<1>3. ASSUME NEW e \in Owners, DestroyBody(e) PROVE WheelInv'
    BY <1>3, DestroyStep
<1>4. ASSUME NEW e \in Owners, LeaveTimers(e) \/ NewBody(e) PROVE WheelInv'
    BY <1>4, QuietStep
<1>5. CASE Advance
    BY <1>5, AdvanceStep
<1>6. CASE FireNext
    BY <1>6, FireStep
<1>7. CASE CascadeNext
    BY <1>7, CascadeStep
<1>8. CASE SkipNext
    BY <1>8, SkipStep
<1>9. CASE CallbackReturns
    BY <1>9, QuietStep
<1>10. CASE NextRing
    BY <1>10, NextRingStep
<1>12. CASE LoseCallback
    BY <1>12, QuietStep
<1>11. CASE UNCHANGED wheelVars
  <2>1. Items' = Items /\ Pending' = Pending
      BY <1>11 DEF wheelVars, Items, Pending, Due, Holds, Live
  <2>2. WheelTyped'
      BY <1>11, <2>1 DEF wheelVars, WheelInv, WheelTyped, WheelTypeOK
  <2>3. IdsApart' /\ EntriesPlaced' /\ EntriesAhead'
      BY <1>11, <2>1 DEF wheelVars, WheelInv, IdsApart, EntriesPlaced, EntriesAhead, Live, Ahead, SlotIn, Span
  <2>4. TimersHaveBodies'
      BY <1>11 DEF wheelVars, WheelInv, TimersHaveBodies, OldTimersAreSilent, Live
  <2> QED
      BY <2>2, <2>3, <2>4 DEF WheelInv
<1> QED
    BY <1>1, <1>2, <1>3, <1>4, <1>5, <1>6, <1>7, <1>8, <1>9, <1>10, <1>11, <1>12
       DEF WheelNext, WheelAction

-----------------------------------------------------------------------------
(* The alarms of the wheel *)

\* The alarms of some entries, and what they show.
AlarmsIn(q) == [a \in {q[i].id : i \in {i \in DOMAIN q : ~q[i].cancelled}} |->
                   LET i == CHOOSE i \in DOMAIN q : q[i].id = a /\ ~q[i].cancelled
                   IN [due |-> q[i].fireTick, period |-> q[i].period]]

Shows(q, f) ==
    /\ f = [a \in DOMAIN f |-> f[a]]
    /\ \A a : a \in DOMAIN f <=> \E i \in DOMAIN q : ~q[i].cancelled /\ q[i].id = a
    /\ \A i \in DOMAIN q : ~q[i].cancelled =>
          f[q[i].id] = [due |-> q[i].fireTick, period |-> q[i].period]

LEMMA AlarmsInShow ==
    ASSUME NEW q, \A i, j \in DOMAIN q : ~q[i].cancelled /\ ~q[j].cancelled /\ q[i].id = q[j].id => i = j
    PROVE  Shows(q, AlarmsIn(q))
<1>1. PICK f : f = AlarmsIn(q)
    OBVIOUS
<1>2. PICK d : d = {q[i].id : i \in {i \in DOMAIN q : ~q[i].cancelled}}
    OBVIOUS
<1>3. f = [a \in d |-> LET i == CHOOSE i \in DOMAIN q : q[i].id = a /\ ~q[i].cancelled
                       IN [due |-> q[i].fireTick, period |-> q[i].period]]
    BY <1>1, <1>2 DEF AlarmsIn
<1>4. DOMAIN f = d /\ f = [a \in DOMAIN f |-> f[a]]
    BY <1>3
<1>5. \A a : a \in DOMAIN f <=> \E i \in DOMAIN q : ~q[i].cancelled /\ q[i].id = a
    BY <1>2, <1>4
<1>6. ASSUME NEW i \in DOMAIN q, ~q[i].cancelled
      PROVE  f[q[i].id] = [due |-> q[i].fireTick, period |-> q[i].period]
  <2>1. q[i].id \in d
      BY <1>2, <1>6
  <2>2. PICK j : j = CHOOSE k \in DOMAIN q : q[k].id = q[i].id /\ ~q[k].cancelled
      OBVIOUS
  <2>3. j \in DOMAIN q /\ q[j].id = q[i].id /\ ~q[j].cancelled
      BY <1>6, <2>2
  <2>4. j = i
      BY <1>6, <2>3
  <2>5. f[q[i].id] = [due |-> q[j].fireTick, period |-> q[j].period]
      BY <1>3, <2>1, <2>2
  <2> QED
      BY <2>4, <2>5
<1> QED
    BY <1>1, <1>4, <1>5, <1>6 DEF Shows

LEMMA ShownIs ==
    ASSUME NEW q, NEW f, Shows(q, f)
    PROVE  /\ f = [a \in DOMAIN f |-> f[a]]
           /\ \A i \in DOMAIN q : ~q[i].cancelled =>
                 q[i].id \in DOMAIN f /\ f[q[i].id] = [due |-> q[i].fireTick, period |-> q[i].period]
           /\ \A a \in DOMAIN f : \E i \in DOMAIN q : ~q[i].cancelled /\ q[i].id = a
BY DEF Shows

\* The same entries to a caller, the same alarms.
LEMMA SameAlarms ==
    ASSUME NEW q, NEW p, NEW f, NEW g, Shows(q, f), Shows(p, g), DOMAIN p = DOMAIN q,
           \A i \in DOMAIN q : /\ p[i].cancelled <=> q[i].cancelled
                               /\ ~q[i].cancelled => /\ p[i].id = q[i].id /\ p[i].fireTick = q[i].fireTick
                                                     /\ p[i].period = q[i].period
    PROVE  g = f
<1>21. /\ \A k \in DOMAIN q : ~q[k].cancelled =>
            q[k].id \in DOMAIN f /\ f[q[k].id] = [due |-> q[k].fireTick, period |-> q[k].period]
      /\ \A a \in DOMAIN f : \E k \in DOMAIN q : ~q[k].cancelled /\ q[k].id = a
    BY ShownIs
<1>20. /\ \A k \in DOMAIN p : ~p[k].cancelled =>
            p[k].id \in DOMAIN g /\ g[p[k].id] = [due |-> p[k].fireTick, period |-> p[k].period]
       /\ \A a \in DOMAIN g : \E k \in DOMAIN p : ~p[k].cancelled /\ p[k].id = a
    BY ShownIs
<1>1. \A a : a \in DOMAIN g <=> a \in DOMAIN f
    BY DEF Shows
<1>2. ASSUME NEW a \in DOMAIN f PROVE g[a] = f[a]
  <2>1. PICK i \in DOMAIN q : ~q[i].cancelled /\ q[i].id = a
      BY <1>21, <1>20
  <2>2. /\ i \in DOMAIN p /\ ~p[i].cancelled /\ p[i].id = a
        /\ p[i].fireTick = q[i].fireTick /\ p[i].period = q[i].period
      BY <2>1
  <2>3. f[a] = [due |-> q[i].fireTick, period |-> q[i].period]
      BY <1>21, <1>20, <2>1
  <2>4. g[a] = [due |-> p[i].fireTick, period |-> p[i].period]
      BY <1>21, <1>20, <2>2
  <2> QED
      BY <2>2, <2>3, <2>4
<1>3. g = [a \in DOMAIN g |-> g[a]] /\ f = [a \in DOMAIN f |-> f[a]]
    BY DEF Shows
<1>4. DOMAIN g = DOMAIN f
    BY <1>1
<1> QED
    BY <1>2, <1>3, <1>4

\* An entry more is an alarm more.
OneMore(q, p, i) ==
    /\ DOMAIN p = DOMAIN q \cup {i} /\ ~p[i].cancelled
    /\ i \in DOMAIN q => q[i].cancelled
    /\ \A j \in DOMAIN q : q[j].id # p[i].id
    /\ \A j \in DOMAIN q : j # i => p[j] = q[j]

LEMMA AlarmMore ==
    ASSUME NEW q, NEW p, NEW f, NEW g, Shows(q, f), Shows(p, g), NEW i, OneMore(q, p, i)
    PROVE  /\ p[i].id \in DOMAIN g \ DOMAIN f /\ DOMAIN g = DOMAIN f \cup {p[i].id}
           /\ g[p[i].id].due = p[i].fireTick
           /\ \A b \in DOMAIN f : g[b] = f[b]
<1>22. /\ DOMAIN p = DOMAIN q \cup {i} /\ ~p[i].cancelled
       /\ i \in DOMAIN q => q[i].cancelled
       /\ \A j \in DOMAIN q : q[j].id # p[i].id
       /\ \A j \in DOMAIN q : j # i => p[j] = q[j]
    BY DEF OneMore
<1>21. /\ \A k \in DOMAIN q : ~q[k].cancelled =>
            q[k].id \in DOMAIN f /\ f[q[k].id] = [due |-> q[k].fireTick, period |-> q[k].period]
      /\ \A a \in DOMAIN f : \E k \in DOMAIN q : ~q[k].cancelled /\ q[k].id = a
    BY ShownIs
<1>20. /\ \A k \in DOMAIN p : ~p[k].cancelled =>
            p[k].id \in DOMAIN g /\ g[p[k].id] = [due |-> p[k].fireTick, period |-> p[k].period]
       /\ \A a \in DOMAIN g : \E k \in DOMAIN p : ~p[k].cancelled /\ p[k].id = a
    BY ShownIs
<1>4. PICK c : c = p[i].id
    OBVIOUS
<1>1. c \in DOMAIN g \ DOMAIN f /\ g[c].due = p[i].fireTick
  <2>1. c \in DOMAIN g /\ g[c] = [due |-> p[i].fireTick, period |-> p[i].period]
      BY <1>22, <1>20, <1>4
  <2>2. ASSUME c \in DOMAIN f PROVE FALSE
    <3>1. PICK j \in DOMAIN q : ~q[j].cancelled /\ q[j].id = c
        BY <1>22, <1>21, <1>20, <2>2
    <3> QED
        BY <1>22, <1>4, <3>1
  <2> QED
      BY <1>22, <2>1, <2>2
<1>2. ASSUME NEW b \in DOMAIN f PROVE b \in DOMAIN g /\ g[b] = f[b]
  <2>1. PICK j \in DOMAIN q : ~q[j].cancelled /\ q[j].id = b
      BY <1>22, <1>21, <1>20
  <2>2. j # i /\ j \in DOMAIN p /\ p[j] = q[j]
      BY <1>22, <2>1
  <2>3. f[b] = [due |-> q[j].fireTick, period |-> q[j].period]
      BY <1>22, <1>21, <1>20, <2>1
  <2>4. b \in DOMAIN g /\ g[b] = [due |-> p[j].fireTick, period |-> p[j].period]
      BY <1>22, <1>21, <1>20, <2>1, <2>2
  <2> QED
      BY <1>22, <2>2, <2>3, <2>4
<1>3. ASSUME NEW b \in DOMAIN g, b # p[i].id PROVE b \in DOMAIN f
  <2>1. PICK j \in DOMAIN p : ~p[j].cancelled /\ p[j].id = b
      BY <1>22, <1>21, <1>20
  <2>2. j # i /\ j \in DOMAIN q /\ p[j] = q[j]
      BY <1>22, <1>3, <2>1
  <2> QED
      BY <1>22, <1>21, <1>20, <2>1, <2>2
<1> QED
    BY <1>22, <1>1, <1>2, <1>3, <1>4

\* Entries that are cancelled are alarms that are gone.
Fewer(q, p) ==
    DOMAIN p = DOMAIN q /\ \A i \in DOMAIN q : ~p[i].cancelled => ~q[i].cancelled /\ p[i] = q[i]

LEMMA AlarmsFewer ==
    ASSUME NEW q, NEW p, NEW f, NEW g, Shows(q, f), Shows(p, g), Fewer(q, p)
    PROVE  g = [a \in DOMAIN f \ (DOMAIN f \ DOMAIN g) |-> f[a]]
<1>21. /\ \A k \in DOMAIN q : ~q[k].cancelled =>
            q[k].id \in DOMAIN f /\ f[q[k].id] = [due |-> q[k].fireTick, period |-> q[k].period]
      /\ \A a \in DOMAIN f : \E k \in DOMAIN q : ~q[k].cancelled /\ q[k].id = a
    BY ShownIs
<1>20. /\ \A k \in DOMAIN p : ~p[k].cancelled =>
            p[k].id \in DOMAIN g /\ g[p[k].id] = [due |-> p[k].fireTick, period |-> p[k].period]
       /\ \A a \in DOMAIN g : \E k \in DOMAIN p : ~p[k].cancelled /\ p[k].id = a
    BY ShownIs
<1>1. ASSUME NEW b \in DOMAIN g PROVE b \in DOMAIN f /\ g[b] = f[b]
  <2>1. PICK j \in DOMAIN p : ~p[j].cancelled /\ p[j].id = b
      BY <1>21, <1>20
  <2>2. ~q[j].cancelled /\ j \in DOMAIN q /\ p[j] = q[j] /\ q[j].id = b
      BY <2>1 DEF Fewer
  <2>3. b \in DOMAIN f /\ f[b] = [due |-> q[j].fireTick, period |-> q[j].period]
      BY <1>21, <1>20, <2>2
  <2>4. g[b] = [due |-> p[j].fireTick, period |-> p[j].period]
      BY <1>21, <1>20, <2>1
  <2> QED
      BY <2>2, <2>3, <2>4
<1>2. g = [a \in DOMAIN g |-> g[a]]
    BY DEF Shows
<1>3. DOMAIN f \ (DOMAIN f \ DOMAIN g) = DOMAIN g
    BY <1>1
<1> QED
    BY <1>1, <1>2, <1>3

\* One alarm is due anew.
LEMMA AlarmAnew ==
    ASSUME NEW q, NEW p, NEW f, NEW g, Shows(q, f), Shows(p, g), NEW i \in DOMAIN q, DOMAIN p = DOMAIN q,
           ~q[i].cancelled, ~p[i].cancelled, p[i].id = q[i].id, p[i].period = q[i].period,
           \A j \in DOMAIN q : ~q[j].cancelled /\ q[j].id = q[i].id => j = i,
           \A j \in DOMAIN q : j # i => p[j] = q[j]
    PROVE  g = [f EXCEPT ![q[i].id].due = p[i].fireTick]
<1>21. /\ \A k \in DOMAIN q : ~q[k].cancelled =>
            q[k].id \in DOMAIN f /\ f[q[k].id] = [due |-> q[k].fireTick, period |-> q[k].period]
      /\ \A a \in DOMAIN f : \E k \in DOMAIN q : ~q[k].cancelled /\ q[k].id = a
    BY ShownIs
<1>20. /\ \A k \in DOMAIN p : ~p[k].cancelled =>
            p[k].id \in DOMAIN g /\ g[p[k].id] = [due |-> p[k].fireTick, period |-> p[k].period]
       /\ \A a \in DOMAIN g : \E k \in DOMAIN p : ~p[k].cancelled /\ p[k].id = a
    BY ShownIs
<1>1. PICK a : a = q[i].id
    OBVIOUS
<1>2. /\ a \in DOMAIN f /\ a \in DOMAIN g
      /\ f[a] = [due |-> q[i].fireTick, period |-> q[i].period]
      /\ g[a] = [due |-> p[i].fireTick, period |-> q[i].period]
    BY <1>1 DEF Shows
<1>3. ASSUME NEW b, b # a PROVE (b \in DOMAIN g <=> b \in DOMAIN f) /\ (b \in DOMAIN f => g[b] = f[b])
  <2>1. ASSUME b \in DOMAIN f PROVE b \in DOMAIN g /\ g[b] = f[b]
    <3>1. PICK j \in DOMAIN q : ~q[j].cancelled /\ q[j].id = b
        BY <1>21, <1>20, <2>1
    <3>2. j # i /\ p[j] = q[j] /\ j \in DOMAIN p
        BY <1>1, <1>3, <3>1
    <3>3. f[b] = [due |-> q[j].fireTick, period |-> q[j].period]
        BY <1>21, <1>20, <3>1
    <3>4. b \in DOMAIN g /\ g[b] = [due |-> p[j].fireTick, period |-> p[j].period]
        BY <1>21, <1>20, <3>1, <3>2
    <3> QED
        BY <3>2, <3>3, <3>4
  <2>2. ASSUME b \in DOMAIN g PROVE b \in DOMAIN f
    <3>1. PICK j \in DOMAIN p : ~p[j].cancelled /\ p[j].id = b
        BY <1>21, <1>20, <2>2
    <3>2. j # i /\ p[j] = q[j] /\ j \in DOMAIN q
        BY <1>1, <1>3, <3>1
    <3> QED
        BY <1>21, <1>20, <3>1, <3>2
  <2> QED
      BY <2>1, <2>2
<1>4. DOMAIN g = DOMAIN f
    BY <1>2, <1>3
<1>5. g = [b \in DOMAIN g |-> g[b]] /\ f = [b \in DOMAIN f |-> f[b]]
    BY DEF Shows
<1>6. PICK h : h = [f EXCEPT ![a].due = p[i].fireTick]
    OBVIOUS
<1>7. h = [b \in DOMAIN f |-> IF b = a THEN [f[a] EXCEPT !.due = p[i].fireTick] ELSE f[b]]
    BY <1>6
<1>8. [f[a] EXCEPT !.due = p[i].fireTick] = g[a]
    BY <1>2
<1>9. \A b \in DOMAIN f : h[b] = g[b]
    BY <1>3, <1>7, <1>8
<1>10. h = [b \in DOMAIN g |-> g[b]]
    BY <1>4, <1>7, <1>9
<1> QED
    BY <1>1, <1>5, <1>6, <1>10

\* One entry cancelled is one alarm gone.
LEMMA AlarmGone ==
    ASSUME NEW q, NEW p, NEW f, NEW g, Shows(q, f), Shows(p, g), NEW i \in DOMAIN q, DOMAIN p = DOMAIN q,
           ~q[i].cancelled, p[i].cancelled,
           \A j \in DOMAIN q : ~q[j].cancelled /\ q[j].id = q[i].id => j = i,
           \A j \in DOMAIN q : j # i => p[j] = q[j]
    PROVE  g = [b \in DOMAIN f \ {q[i].id} |-> f[b]]
<1>1. /\ \A k \in DOMAIN q : ~q[k].cancelled =>
            q[k].id \in DOMAIN f /\ f[q[k].id] = [due |-> q[k].fireTick, period |-> q[k].period]
      /\ \A a \in DOMAIN f : \E k \in DOMAIN q : ~q[k].cancelled /\ q[k].id = a
    BY ShownIs
<1>2. /\ g = [a \in DOMAIN g |-> g[a]]
      /\ \A k \in DOMAIN p : ~p[k].cancelled =>
            p[k].id \in DOMAIN g /\ g[p[k].id] = [due |-> p[k].fireTick, period |-> p[k].period]
      /\ \A a \in DOMAIN g : \E k \in DOMAIN p : ~p[k].cancelled /\ p[k].id = a
    BY ShownIs
<1>3. ASSUME NEW b \in DOMAIN f, b # q[i].id PROVE b \in DOMAIN g /\ g[b] = f[b]
  <2>1. PICK j \in DOMAIN q : ~q[j].cancelled /\ q[j].id = b
      BY <1>1
  <2>2. j # i /\ p[j] = q[j] /\ j \in DOMAIN p
      BY <1>3, <2>1
  <2>3. f[b] = [due |-> q[j].fireTick, period |-> q[j].period]
      BY <1>1, <2>1
  <2>4. b \in DOMAIN g /\ g[b] = [due |-> p[j].fireTick, period |-> p[j].period]
      BY <1>2, <2>1, <2>2
  <2> QED
      BY <2>2, <2>3, <2>4
<1>4. ASSUME NEW b \in DOMAIN g PROVE b \in DOMAIN f /\ b # q[i].id
  <2>1. PICK j \in DOMAIN p : ~p[j].cancelled /\ p[j].id = b
      BY <1>2
  <2>2. j # i /\ p[j] = q[j] /\ j \in DOMAIN q
      BY <2>1
  <2> QED
      BY <1>1, <2>1, <2>2
<1>5. DOMAIN g = DOMAIN f \ {q[i].id}
    BY <1>3, <1>4
<1> QED
    BY <1>2, <1>3, <1>5

\* The steps of the timer service, for the alarms f before and g after.
SetsOne(f, g) ==
    /\ \E a \in DOMAIN g \ DOMAIN f : g[a].due > currentTick /\ DOMAIN g = DOMAIN f \cup {a}
    /\ \A b \in DOMAIN f : g[b] = f[b]
    /\ UNCHANGED <<currentTick, firing>>
DropsSome(f, g) ==
    /\ \E ids \in SUBSET DOMAIN f : g = [a \in DOMAIN f \ ids |-> f[a]]
    /\ UNCHANGED <<currentTick, firing>>
GoesOff(f, g) ==
    /\ firing = 0
    /\ \E a \in DOMAIN f : /\ f[a].due = currentTick /\ firing' = a
                           /\ g = IF f[a].period = 0 THEN [b \in DOMAIN f \ {a} |-> f[b]]
                                  ELSE [f EXCEPT ![a].due = currentTick + f[a].period]
    /\ currentTick' = currentTick
FallsSilent(f, g) == firing # 0 /\ firing' = 0 /\ UNCHANGED currentTick /\ g = f
Passes(f, g) ==
    /\ firing = 0 /\ \A a \in DOMAIN f : f[a].due > currentTick
    /\ currentTick' = currentTick + 1 /\ g = f /\ UNCHANGED firing
Idles(f, g) == g = f /\ UNCHANGED <<currentTick, firing>>

LEMMA AlarmsAre ==
    ASSUME WheelInv
    PROVE  /\ Shows(entries, Alarms)
           /\ \A i, j \in DOMAIN entries : ~entries[i].cancelled /\ ~entries[j].cancelled
                                          /\ entries[i].id = entries[j].id => i = j
<1>1. \A i, j \in DOMAIN entries : ~entries[i].cancelled /\ ~entries[j].cancelled
                                  /\ entries[i].id = entries[j].id => i = j
    BY DEF WheelInv, IdsApart, Live
<1>2. PICK q : q = entries
    OBVIOUS
<1>3. Shows(q, AlarmsIn(q))
    BY <1>1, <1>2, AlarmsInShow
<1>4. Alarms = AlarmsIn(entries)
    BY DEF Alarms, AlarmsIn, Holds, Live
<1> QED
    BY <1>1, <1>2, <1>3, <1>4

LEMMA NextAlarmsAre ==
    ASSUME WheelInv'
    PROVE  Shows(entries', Alarms')
<1>1. \A i, j \in DOMAIN entries' : ~entries'[i].cancelled /\ ~entries'[j].cancelled
                                   /\ entries'[i].id = entries'[j].id => i = j
    BY DEF WheelInv, IdsApart, Live
<1>2. PICK q : q = entries'
    OBVIOUS
<1>3. Shows(q, AlarmsIn(q))
    BY <1>1, <1>2, AlarmsInShow
<1>4. Alarms' = AlarmsIn(q)
    BY <1>2 DEF Alarms, AlarmsIn, Holds, Live
<1> QED
    BY <1>2, <1>3, <1>4

LEMMA AddSets ==
    ASSUME WheelInv, NEW ask \in Asks, AddEntry(ask), NEW f, NEW g, Shows(entries, f), Shows(entries', g)
    PROVE  SetsOne(f, g)
<1>1. PICK index \in 1 .. Len(entries) + 1 :
         /\ index \in DOMAIN entries => ~Live(index)
         /\ DOMAIN entries' = DOMAIN entries \cup {index}
         /\ entries'[index].id = nextTimerId /\ ~entries'[index].cancelled
         /\ entries'[index].fireTick > currentTick
         /\ \A j \in DOMAIN entries : j # index => entries'[j] = entries[j]
    BY AddIs
<1>2. PICK q : q = entries
    OBVIOUS
<1>3. PICK p : p = entries'
    OBVIOUS
<1>4. \A j \in DOMAIN q : q[j].id # p[index].id
  <2>1. ASSUME NEW j \in DOMAIN entries PROVE entries[j].id # nextTimerId
    <3>1. entries[j].id < nextTimerId /\ entries[j].id \in 1 .. MaxTimers /\ nextTimerId \in Nat
        BY EntryIs DEF WheelInv, IdsApart
    <3> QED
        BY <3>1
  <2> QED
      BY <1>1, <1>2, <1>3, <2>1
<1>5. /\ Shows(q, f) /\ Shows(p, g) /\ DOMAIN p = DOMAIN q \cup {index}
      /\ index \in DOMAIN q => q[index].cancelled
      /\ ~p[index].cancelled /\ \A j \in DOMAIN q : j # index => p[j] = q[j]
    BY <1>1, <1>2, <1>3 DEF Live
<1>8. Shows(q, f) /\ Shows(p, g) /\ OneMore(q, p, index)
    BY <1>4, <1>5 DEF OneMore
<1>6. /\ p[index].id \in DOMAIN g \ DOMAIN f /\ DOMAIN g = DOMAIN f \cup {p[index].id}
      /\ g[p[index].id].due = p[index].fireTick
      /\ \A b \in DOMAIN f : g[b] = f[b]
    BY <1>8, AlarmMore
<1>7. UNCHANGED <<currentTick, firing>>
    BY DEF AddEntry
<1> QED
    BY <1>1, <1>3, <1>6, <1>7 DEF SetsOne

\* What is cancelled is dropped.
LEMMA CancelDrops ==
    ASSUME WheelInv, WheelInv', NEW handles, Cancelled(handles), UNCHANGED <<currentTick, firing>>,
           NEW f, NEW g, Shows(entries, f), Shows(entries', g)
    PROVE  DropsSome(f, g)
<1>1. PICK q : q = entries
    OBVIOUS
<1>2. PICK p : p = entries'
    OBVIOUS
<1>3. DOMAIN p = DOMAIN q /\ \A i \in DOMAIN q : ~p[i].cancelled => ~q[i].cancelled /\ p[i] = q[i]
  <2>1. PICK hit : hit = {i \in DOMAIN entries : Live(i) /\ entries[i].id \in ToSet(handles)}
      OBVIOUS
  <2>2. entries' = [i \in DOMAIN entries |->
                       IF i \in hit THEN [entries[i] EXCEPT !.cancelled = TRUE] ELSE entries[i]]
      BY <2>1 DEF Cancelled
  <2>3. p = [i \in DOMAIN q |-> IF i \in hit THEN [q[i] EXCEPT !.cancelled = TRUE] ELSE q[i]]
      BY <1>1, <1>2, <2>2
  <2>4. ASSUME NEW i \in DOMAIN q PROVE ~p[i].cancelled => ~q[i].cancelled /\ p[i] = q[i]
    <3>1. q[i] \in EntryType
        BY <1>1, EntryIs
    <3>2. CASE i \in hit
      <4>1. p[i] = [q[i] EXCEPT !.cancelled = TRUE]
          BY <2>3, <3>2
      <4> QED
          BY <3>1, <4>1 DEF EntryType
    <3>3. CASE i \notin hit
        BY <2>3, <3>3
    <3> QED
        BY <3>2, <3>3
  <2> QED
      BY <2>3, <2>4
<1>4. Shows(q, f) /\ Shows(p, g) /\ Fewer(q, p)
    BY <1>1, <1>2, <1>3 DEF Fewer
<1>5. g = [a \in DOMAIN f \ (DOMAIN f \ DOMAIN g) |-> f[a]]
    BY <1>4, AlarmsFewer
<1>6. PICK ids \in SUBSET DOMAIN f : ids = DOMAIN f \ DOMAIN g
    OBVIOUS
<1>7. g = [a \in DOMAIN f \ ids |-> f[a]]
    BY <1>5, <1>6
<1>8. UNCHANGED <<currentTick, firing>>
    OBVIOUS
<1> QED
    BY <1>7, <1>8 DEF DropsSome

\* An alarm goes off at the tick it is due.
LEMMA FireGoesOff ==
    ASSUME WheelInv, FireNext, NEW f, NEW g, Shows(entries, f), Shows(entries', g)
    PROVE  GoesOff(f, g)
<1>1. PICK i : i = Head(pass.batch).index
    OBVIOUS
<1>2. /\ Working /\ Due(Head(pass.batch)) /\ FiresNow(i) /\ FireEntry(i) /\ TakeHead
      /\ UNCHANGED <<currentTick, nextTimerId, entityTimers, body, setBy, leftBehind>>
      /\ firing' = entries[i].id
    BY <1>1 DEF FireNext, FireEntry
<1>3. /\ i \in DOMAIN entries /\ Live(i) /\ entries[i].fireTick >= currentTick
      /\ pass.ring = 0 => entries[i].fireTick = currentTick
    BY <1>1, <1>2, DueIs
<1>4. entries[i] \in EntryType /\ currentTick \in Nat /\ entries[i].period \in Nat /\ entries[i].fireTick \in Nat
    BY <1>3, EntryIs
<1>5. entries[i].fireTick = currentTick
    BY <1>2, <1>3, <1>4 DEF FiresNow
<1>6. PICK q : q = entries
    OBVIOUS
<1>7. PICK p : p = entries'
    OBVIOUS
<1>8. /\ Shows(q, f) /\ Shows(p, g) /\ i \in DOMAIN q /\ ~q[i].cancelled
      /\ \A j \in DOMAIN q : ~q[j].cancelled /\ q[j].id = q[i].id => j = i
  <2>1. \A j \in DOMAIN entries : ~entries[j].cancelled /\ entries[j].id = entries[i].id => j = i
      BY <1>3, AlarmsAre DEF Live
  <2> QED
      BY <1>3, <1>6, <1>7, <2>1 DEF Live
<1>9. PICK a : a = q[i].id
    OBVIOUS
<1>10. /\ a \in DOMAIN f /\ f[a] = [due |-> q[i].fireTick, period |-> q[i].period]
  <2>1. \A k \in DOMAIN q : ~q[k].cancelled =>
           q[k].id \in DOMAIN f /\ f[q[k].id] = [due |-> q[k].fireTick, period |-> q[k].period]
      BY <1>8, ShownIs
  <2> QED
      BY <1>8, <1>9, <2>1
<1>11. f[a].due = currentTick /\ f[a].period = q[i].period /\ firing' = a /\ q[i].period \in Nat
    BY <1>2, <1>4, <1>5, <1>6, <1>9, <1>10
<1>12. firing = 0 /\ currentTick' = currentTick
    BY <1>2 DEF Working
<1>13. CASE q[i].period > 0
  <2>1. PICK e : e = [entries[i] EXCEPT !.fireTick = currentTick + entries[i].period]
      OBVIOUS
  <2>2. /\ e \in EntryType /\ e.id = entries[i].id /\ ~e.cancelled /\ e.fireTick > currentTick
        /\ e.fireTick = currentTick + entries[i].period /\ e.period = entries[i].period
    <3>1. currentTick + entries[i].period \in Nat /\ currentTick + entries[i].period > currentTick
        BY <1>4, <1>6, <1>13
    <3> QED
        BY <1>3, <1>4, <2>1, <3>1 DEF EntryType, Live
  <2>3. Inserted(i, e, wheels) /\ freeList' = freeList
      BY <1>2, <1>6, <1>13, <2>1 DEF FireEntry
  <2>4. InsertionFits(i, e, entries', wheels')
      BY <1>1, <1>2, <2>2, <2>3, ReinsertStep
  <2>5. /\ DOMAIN entries' = DOMAIN entries \cup {i}
        /\ entries'[i].id = e.id /\ entries'[i].fireTick = e.fireTick
        /\ entries'[i].period = e.period /\ entries'[i].cancelled = FALSE
        /\ \A j \in DOMAIN entries : j # i => entries'[j] = entries[j]
      BY <2>4 DEF InsertionFits
  <2>6. DOMAIN entries \cup {i} = DOMAIN entries
      BY <1>3
  <2>7. /\ DOMAIN p = DOMAIN q /\ ~p[i].cancelled /\ p[i].id = q[i].id /\ p[i].period = q[i].period
        /\ \A j \in DOMAIN q : j # i => p[j] = q[j]
      BY <1>6, <1>7, <2>2, <2>5, <2>6
  <2>8. g = [f EXCEPT ![q[i].id].due = p[i].fireTick]
      BY <1>8, <2>7, AlarmAnew
  <2>9. p[i].fireTick = currentTick + f[a].period /\ f[a].period # 0
      BY <1>6, <1>7, <1>11, <1>13, <2>2, <2>5
  <2>10. g = [f EXCEPT ![a].due = currentTick + f[a].period]
      BY <1>9, <2>8, <2>9
  <2> QED
      BY <1>10, <1>11, <1>12, <2>9, <2>10 DEF GoesOff
<1>14. CASE ~(q[i].period > 0)
  <2>1. entries' = [entries EXCEPT ![i].cancelled = TRUE]
      BY <1>2, <1>6, <1>14 DEF FireEntry
  <2>2. PICK x : x = [q[i] EXCEPT !.cancelled = TRUE]
      OBVIOUS
  <2>3. x.cancelled = TRUE
      BY <1>4, <1>6, <2>2 DEF EntryType
  <2>4. p = [q EXCEPT ![i] = x]
      BY <1>6, <1>7, <2>1, <2>2
  <2>5. DOMAIN p = DOMAIN q /\ p[i].cancelled /\ \A j \in DOMAIN q : j # i => p[j] = q[j]
      BY <1>8, <2>3, <2>4
  <2>6. g = [b \in DOMAIN f \ {q[i].id} |-> f[b]]
      BY <1>8, <2>5, AlarmGone
  <2>7. g = [b \in DOMAIN f \ {a} |-> f[b]] /\ f[a].period = 0
      BY <1>9, <1>11, <1>14, <2>6
  <2> QED
      BY <1>10, <1>11, <1>12, <2>7 DEF GoesOff
<1> QED
    BY <1>13, <1>14

\* A cascade moves an entry, and a caller sees nothing of it.
LEMMA CascadeIdles ==
    ASSUME WheelInv, CascadeNext, NEW f, NEW g, Shows(entries, f), Shows(entries', g)
    PROVE  Idles(f, g)
<1>1. PICK i : i = Head(pass.batch).index
    OBVIOUS
<1>2. /\ Working /\ Due(Head(pass.batch)) /\ ~FiresNow(i) /\ Inserted(i, entries[i], wheels) /\ TakeHead
      /\ freeList' = freeList /\ firing' = firing /\ currentTick' = currentTick
      /\ UNCHANGED <<currentTick, nextTimerId, entityTimers, body, setBy, leftBehind>>
    BY <1>1 DEF CascadeNext
<1>3. i \in DOMAIN entries /\ Live(i)
    BY <1>1, <1>2, DueIs
<1>4. entries[i] \in EntryType /\ currentTick \in Nat /\ entries[i].fireTick \in Nat
    BY <1>3, EntryIs
<1>5. entries[i].fireTick > currentTick /\ ~entries[i].cancelled
    BY <1>2, <1>3, <1>4 DEF FiresNow, Live
<1>6. firing' = 0
    BY <1>2 DEF Working
<1>7. PICK e : e = entries[i]
    OBVIOUS
<1>8. /\ e \in EntryType /\ e.id = entries[i].id /\ ~e.cancelled /\ e.fireTick > currentTick
      /\ Inserted(i, e, wheels)
    BY <1>2, <1>4, <1>5, <1>7
<1>9. InsertionFits(i, e, entries', wheels')
    BY <1>1, <1>2, <1>6, <1>8, ReinsertStep
<1>10. /\ DOMAIN entries' = DOMAIN entries \cup {i}
       /\ entries'[i].id = e.id /\ entries'[i].fireTick = e.fireTick
       /\ entries'[i].period = e.period /\ entries'[i].cancelled = FALSE
       /\ \A j \in DOMAIN entries : j # i => entries'[j] = entries[j]
    BY <1>9 DEF InsertionFits
<1>11. PICK q : q = entries
    OBVIOUS
<1>12. PICK p : p = entries'
    OBVIOUS
<1>13. /\ DOMAIN p = DOMAIN q /\ Shows(q, f) /\ Shows(p, g)
       /\ \A j \in DOMAIN q : /\ p[j].cancelled <=> q[j].cancelled
                              /\ ~q[j].cancelled => /\ p[j].id = q[j].id /\ p[j].fireTick = q[j].fireTick
                                                    /\ p[j].period = q[j].period
  <2>1. DOMAIN entries \cup {i} = DOMAIN entries
      BY <1>3
  <2>2. ASSUME NEW j \in DOMAIN q
        PROVE  /\ p[j].cancelled <=> q[j].cancelled
               /\ ~q[j].cancelled => /\ p[j].id = q[j].id /\ p[j].fireTick = q[j].fireTick
                                     /\ p[j].period = q[j].period
    <3>1. CASE j = i
        BY <1>5, <1>7, <1>10, <1>11, <1>12, <3>1
    <3>2. CASE j # i
      <4>1. p[j] = q[j]
          BY <1>10, <1>11, <1>12, <3>2
      <4> QED
          BY <4>1
    <3> QED
        BY <3>1, <3>2
  <2> QED
      BY <1>10, <1>11, <1>12, <2>1, <2>2
<1>14. g = f
    BY <1>13, SameAlarms
<1> QED
    BY <1>2, <1>14 DEF Idles

\* Time passes only when nothing is due.
LEMMA AdvancePasses ==
    ASSUME WheelInv, Advance, NEW f, NEW g, Shows(entries, f), Shows(entries', g)
    PROVE  Passes(f, g)
<1>1. /\ pass.batch = << >> /\ pass.ring = Outside /\ entries' = entries /\ currentTick' = currentTick + 1
      /\ firing' = firing
    BY DEF Advance, NotAdvancing
<1>2. firing = 0
    BY <1>1 DEF WheelInv, WheelTyped
<1>3. ASSUME NEW i \in DOMAIN entries, ~entries[i].cancelled PROVE entries[i].fireTick > currentTick
  <2>1. DOMAIN pass.batch = {}
      BY <1>1
  <2>2. i \notin Pending
      BY <2>1 DEF Pending
  <2>3. Ahead(entries[i], FALSE, currentTick, Outside)
      BY <1>1, <1>3, <2>2 DEF WheelInv, EntriesAhead, Ahead, Live
  <2>4. PICK t \in Nat : t = entries[i].fireTick
      BY EntryIs
  <2>5. PICK r \in Rings : r = entries[i].ring
      BY EntryIs
  <2>6. ~(r > Outside)
      BY WheelAssumption DEF Rings, Outside
  <2>7. t \div Span(r) > currentTick \div Span(r)
      BY <2>3, <2>4, <2>5, <2>6 DEF Ahead
  <2>8. Span(r) \in Nat \ {0} /\ currentTick \in Nat
      BY SpansAre, EntryIs
  <2>9. t \div Span(r) \in Nat /\ currentTick \div Span(r) \in Nat
      BY <2>8, DivisionIs
  <2>10. t <= currentTick => t \div Span(r) <= currentTick \div Span(r)
      BY <2>8, QuotientsGrow
  <2> QED
      BY <2>4, <2>7, <2>8, <2>9, <2>10
<1>4. PICK q : q = entries
    OBVIOUS
<1>5. Shows(q, f) /\ Shows(q, g)
    BY <1>1, <1>4
<1>6. g = f
    BY <1>5, SameAlarms
<1>7. /\ \A k \in DOMAIN q : ~q[k].cancelled =>
            q[k].id \in DOMAIN f /\ f[q[k].id] = [due |-> q[k].fireTick, period |-> q[k].period]
      /\ \A a \in DOMAIN f : \E k \in DOMAIN q : ~q[k].cancelled /\ q[k].id = a
    BY <1>5, ShownIs
<1>8. ASSUME NEW a \in DOMAIN f PROVE f[a].due > currentTick
  <2>1. PICK k \in DOMAIN q : ~q[k].cancelled /\ q[k].id = a
      BY <1>7
  <2>2. f[a] = [due |-> q[k].fireTick, period |-> q[k].period]
      BY <1>7, <2>1
  <2> QED
      BY <1>3, <1>4, <2>1, <2>2
<1> QED
    BY <1>1, <1>2, <1>6, <1>8 DEF Passes

\* Where the entries stay as they are, so do the alarms.
LEMMA SameEntriesShow ==
    ASSUME entries' = entries, NEW f, NEW g, Shows(entries, f), Shows(entries', g)
    PROVE  g = f
<1>1. PICK q : q = entries
    OBVIOUS
<1>2. Shows(q, f) /\ Shows(q, g)
    BY <1>1
<1> QED
    BY <1>2, SameAlarms

\* Every step of the wheel is one of a timer service, or idles.
LEMMA WheelServes ==
    ASSUME WheelInv, WheelInv', [WheelNext]_wheelVars, NEW f, NEW g, f = Alarms, g = Alarms'
    PROVE  SetsOne(f, g) \/ DropsSome(f, g) \/ GoesOff(f, g) \/ FallsSilent(f, g) \/ Passes(f, g) \/ Idles(f, g)
<1>1. Shows(entries, f) /\ Shows(entries', g)
    BY AlarmsAre, NextAlarmsAre
<1>2. ASSUME NEW ask \in Asks, AddTimer(ask) \/ AddEntityTimer(ask) PROVE SetsOne(f, g)
  <2>1. AddEntry(ask)
      BY <1>2 DEF AddTimer, AddEntityTimer
  <2> QED
      BY <1>1, <2>1, AddSets
<1>3. ASSUME NEW id \in 1 .. MaxTimers, CancelTimer(id) PROVE DropsSome(f, g)
  <2>1. PICK handles : handles = <<id>>
      OBVIOUS
  <2>2. Cancelled(handles) /\ UNCHANGED <<currentTick, firing>>
      BY <1>3, <2>1 DEF CancelTimer
  <2> QED
      BY <1>1, <2>2, CancelDrops
<1>4. ASSUME NEW e \in Owners, DestroyBody(e) PROVE DropsSome(f, g)
  <2>1. PICK handles : handles = entityTimers[e]
      OBVIOUS
  <2>2. Cancelled(handles) /\ UNCHANGED <<currentTick, firing>>
      BY <1>4, <2>1 DEF DestroyBody
  <2> QED
      BY <1>1, <2>2, CancelDrops
<1>5. ASSUME \/ \E e \in Owners : LeaveTimers(e) \/ NewBody(e)
             \/ LoseCallback \/ SkipNext \/ NextRing \/ UNCHANGED wheelVars
      PROVE  Idles(f, g)
  <2>1. entries' = entries /\ UNCHANGED <<currentTick, firing>>
      BY <1>5 DEF LeaveTimers, NewBody, LoseCallback, SkipNext, NextRing, wheelVars
  <2>2. g = f
      BY <1>1, <2>1, SameEntriesShow
  <2> QED
      BY <2>1, <2>2 DEF Idles
<1>6. CASE Advance
    BY <1>1, <1>6, AdvancePasses
<1>7. CASE FireNext
    BY <1>1, <1>7, FireGoesOff
<1>8. CASE CascadeNext
    BY <1>1, <1>8, CascadeIdles
<1>9. CASE CallbackReturns
  <2>1. entries' = entries /\ firing # 0 /\ firing' = 0 /\ UNCHANGED currentTick
      BY <1>9 DEF CallbackReturns
  <2>2. g = f
      BY <1>1, <2>1, SameEntriesShow
  <2> QED
      BY <2>1, <2>2 DEF FallsSilent
<1> QED
    BY <1>2, <1>3, <1>4, <1>5, <1>6, <1>7, <1>8, <1>9 DEF WheelNext, WheelAction

-----------------------------------------------------------------------------
(* The ticks of all services *)

TicksInv ==
    /\ focus = "wheel" => WheelInv
    /\ focus = "loop" => LoopInv
    /\ focus = "movement" => MoveInv

LEMMA TicksStart == Init => TicksInv
<1> SUFFICES ASSUME Init PROVE TicksInv
    OBVIOUS
<1>1. /\ focus = "wheel" => WheelInit
      /\ focus = "loop" => LoopInit
      /\ focus = "movement" => MoveInit
    BY DEF Init
<1> QED
    BY <1>1, WheelStart, LoopStart, MoveStart DEF TicksInv

LEMMA TicksStep == TicksInv /\ [Next]_servicesVars => TicksInv'
<1> SUFFICES ASSUME TicksInv, [Next]_servicesVars PROVE TicksInv'
    OBVIOUS
<1>1. /\ focus' = focus
      /\ focus = "wheel" => [WheelNext]_wheelVars
      /\ focus = "loop" => [LoopNext]_loopVars
      /\ focus = "movement" => [MoveNext]_moveVars
    BY DEF Next, servicesVars
<1>2. focus = "wheel" => WheelInv'
    BY <1>1, WheelStep DEF TicksInv
<1>3. focus = "loop" => LoopInv'
    BY <1>1, LoopsStep DEF TicksInv
<1>4. focus = "movement" => MoveInv'
    BY <1>1, MoveStep DEF TicksInv
<1> QED
    BY <1>1, <1>2, <1>3, <1>4 DEF TicksInv

LEMMA TicksAreSoundWhenFit == TicksInv => (focus # "tree" => TickIsSound)
<1> SUFFICES ASSUME TicksInv, focus # "tree" PROVE TickIsSound
    OBVIOUS
<1>1. focus = "wheel" => SlotsAreSound /\ OldTimersAreSilent
    BY SoundWhenPlaced DEF TicksInv
<1>2. focus = "loop" => BuildComesLast
    BY BuildWhenInOrder DEF TicksInv
<1>3. focus = "movement" => MovesUnderControl
    BY MovesWhenFit DEF TicksInv
<1> QED
    BY <1>1, <1>2, <1>3 DEF TickIsSound

\* Whatever the numbers of rings, slots, timers, tickables, posts and controllers: the
\* timers of a wheel are where they belong and reach the body that set them, a cell
\* builds its messages when all its spaces have synced, and an entity moves only under
\* a controller.
THEOREM TicksStaySound == Spec => [](focus # "tree" => TickIsSound)
<1>1. Init => TicksInv
    BY TicksStart
<1>2. TicksInv /\ [Next]_servicesVars => TicksInv'
    BY TicksStep
<1>3. TicksInv => (focus # "tree" => TickIsSound)
    BY TicksAreSoundWhenFit
<1> QED
    BY <1>1, <1>2, <1>3, PTL DEF Spec

\* What the timer service sees of a process: of the wheel when it is there.
SeenTime == IF focus = "wheel" THEN currentTick ELSE 0
SeenAlarms == IF focus = "wheel" THEN Alarms ELSE << >>
SeenRinging == IF focus = "wheel" THEN firing ELSE 0

ClockworkNext == Clockwork!Set \/ Clockwork!Drop \/ Clockwork!GoOff \/ Clockwork!Silence \/ Clockwork!Pass

LEMMA ServiceStart == Init => Clockwork!ServiceInit
<1> SUFFICES ASSUME Init PROVE Clockwork!ServiceInit
    OBVIOUS
<1>1. CASE focus = "wheel"
  <2>1. currentTick = 0 /\ entries = << >> /\ firing = 0
      BY <1>1 DEF Init, WheelInit
  <2>2. DOMAIN Alarms = {}
      BY <2>1 DEF Alarms
  <2> QED
      BY <1>1, <2>1, <2>2 DEF Clockwork!ServiceInit
<1>2. CASE focus # "wheel"
    BY <1>2 DEF Clockwork!ServiceInit
<1> QED
    BY <1>1, <1>2

LEMMA ServiceSteps ==
    TicksInv /\ TicksInv' /\ [Next]_servicesVars => [ClockworkNext]_<<SeenTime, SeenAlarms, SeenRinging>>
<1> SUFFICES ASSUME TicksInv, TicksInv', [Next]_servicesVars
             PROVE  ClockworkNext \/ UNCHANGED <<SeenTime, SeenAlarms, SeenRinging>>
    OBVIOUS
<1>1. focus' = focus /\ (focus = "wheel" => [WheelNext]_wheelVars)
    BY DEF Next, servicesVars
<1>2. CASE focus # "wheel"
    BY <1>1, <1>2 DEF SeenTime, SeenAlarms, SeenRinging
<1>3. CASE focus = "wheel"
  <2>1. PICK f : f = Alarms
      OBVIOUS
  <2>2. PICK g : g = Alarms'
      OBVIOUS
  <2>3. /\ (IF focus = "wheel" THEN currentTick ELSE 0) = currentTick
        /\ (IF focus = "wheel" THEN firing ELSE 0) = firing
        /\ (IF focus = "wheel" THEN Alarms ELSE << >>) = f
        /\ (IF focus' = "wheel" THEN currentTick' ELSE 0) = currentTick'
        /\ (IF focus' = "wheel" THEN firing' ELSE 0) = firing'
        /\ (IF focus' = "wheel" THEN Alarms' ELSE << >>) = g
      BY <1>1, <1>3, <2>1, <2>2
  <2>4. WheelInv /\ WheelInv' /\ [WheelNext]_wheelVars
      BY <1>1, <1>3 DEF TicksInv
  <2>5. SetsOne(f, g) \/ DropsSome(f, g) \/ GoesOff(f, g) \/ FallsSilent(f, g) \/ Passes(f, g) \/ Idles(f, g)
      BY <2>1, <2>2, <2>4, WheelServes
  <2>6. CASE SetsOne(f, g)
    <3>1. Clockwork!Set
        BY <2>3, <2>6 DEF Clockwork!Set, SetsOne
    <3> QED
        BY <3>1 DEF ClockworkNext
  <2>7. CASE DropsSome(f, g)
    <3>1. Clockwork!Drop
        BY <2>3, <2>7 DEF Clockwork!Drop, Clockwork!AlarmsWithout, DropsSome
    <3> QED
        BY <3>1 DEF ClockworkNext
  <2>8. CASE GoesOff(f, g)
    <3>1. PICK a \in DOMAIN f :
             /\ f[a].due = currentTick /\ firing' = a
             /\ g = IF f[a].period = 0 THEN [b \in DOMAIN f \ {a} |-> f[b]]
                    ELSE [f EXCEPT ![a].due = currentTick + f[a].period]
        BY <2>8 DEF GoesOff
    <3>2. firing = 0 /\ currentTick' = currentTick
        BY <2>8 DEF GoesOff
    <3>3. PICK seen : seen = IF focus = "wheel" THEN Alarms ELSE << >>
        OBVIOUS
    <3>4. seen = f
        BY <2>3, <3>3
    <3>5. Clockwork!AlarmsWithout({a}) = [b \in DOMAIN f \ {a} |-> f[b]]
        BY <3>3, <3>4 DEF Clockwork!AlarmsWithout
    <3>6. g = IF seen[a].period = 0 THEN Clockwork!AlarmsWithout({a})
              ELSE [seen EXCEPT ![a].due = currentTick + seen[a].period]
        BY <3>1, <3>4, <3>5
    <3>7. a \in DOMAIN seen /\ seen[a].due = currentTick
        BY <3>1, <3>4
    <3>8. Clockwork!GoOff
        BY <2>3, <3>1, <3>2, <3>3, <3>6, <3>7 DEF Clockwork!GoOff
    <3> QED
        BY <3>8 DEF ClockworkNext
  <2>9. CASE FallsSilent(f, g)
    <3>1. Clockwork!Silence
        BY <2>3, <2>9 DEF Clockwork!Silence, FallsSilent
    <3> QED
        BY <3>1 DEF ClockworkNext
  <2>10. CASE Passes(f, g)
    <3>1. Clockwork!Pass
        BY <2>3, <2>10 DEF Clockwork!Pass, Passes
    <3> QED
        BY <3>1 DEF ClockworkNext
  <2>11. CASE Idles(f, g)
      BY <1>1, <1>3, <2>1, <2>2, <2>11 DEF Idles, SeenTime, SeenAlarms, SeenRinging
  <2> QED
      BY <2>5, <2>6, <2>7, <2>8, <2>9, <2>10, <2>11
<1> QED
    BY <1>2, <1>3

\* The wheel is a timer service: with any number of rings and slots, through cascades,
\* periodic timers, cancellations in the middle of a batch and indices given out again,
\* a timer fires at the tick it is due, and never after it was cancelled.
THEOREM WheelServesTimers == Spec => FiresWhenDue
<1>1. TicksInv /\ TicksInv' /\ [Next]_servicesVars => [ClockworkNext]_<<SeenTime, SeenAlarms, SeenRinging>>
    BY ServiceSteps
<1>2. Spec => [][ClockworkNext]_<<SeenTime, SeenAlarms, SeenRinging>>
    BY <1>1, TicksStart, TicksStep, PTL DEF Spec
<1> QED
    BY <1>2, ServiceStart, PTL DEF Spec, FiresWhenDue, Clockwork!ServiceSpec, ClockworkNext,
       SeenTime, SeenAlarms, SeenRinging

=============================================================================
