------------------------ MODULE PropertySync_proofs ------------------------
(***************************************************************************)
(* Proofs about PropertySync, for all sets of properties and CellApps and all *)
(* values of the bounds: the two owners of an entity's properties have each   *)
(* other's values, the client has the base's and the ghost has the body's, but  *)
(* for the losses the history variables name.                                *)
(*                                                                         *)
(* The invariant follows the entity: it is at most at one place, a CellApp   *)
(* where its body is Active or a message that carries it (Unique).  What it    *)
(* has there of the other side's properties is stated for both kinds of place  *)
(* (Carries), so that a migration changes nothing of it.  That no value goes  *)
(* back needs the order of the messages of one link (InOrder) and that before  *)
(* a migration the other CellApps have not heard of the entity (Elsewhere).    *)
(***************************************************************************)
EXTENDS PropertySync, FiniteSetTheorems, TLAPS

Deltas == UNION {[S -> Nat] : S \in SUBSET Props}
Kinds == {"create", "sync", "ready", "transfer", "commit", "ghost"}
Messages == {m \in [kind : Kinds, delta : Deltas] :
                m.kind \in {"ready", "commit"} => DOMAIN m.delta = {}}
Links == Parts \X Parts

-----------------------------------------------------------------------------
(* What is said in a queue of messages.                                      *)
Says(m, p, v) == p \in DOMAIN m.delta /\ m.delta[p] = v
In(q, p, v) == \E i \in DOMAIN q : Says(q[i], p, v)

\* What it tells of changes is about some properties only.
About(q, S) == \A i \in DOMAIN q : q[i].kind = "sync" => DOMAIN q[i].delta \subseteq S

\* Messages that carry the entity, and what its body will have.
IsCargo(m) == m.kind \in {"create", "transfer"}
Has(q) == \E i \in DOMAIN q : IsCargo(q[i])
Once(q) == \A i, j \in DOMAIN q : IsCargo(q[i]) /\ IsCargo(q[j]) => i = j
Brings(q, p, v) == \E i \in DOMAIN q : IsCargo(q[i]) /\ v = Restored(q[i].delta)[p]

\* The values of p in a queue do not go back.
Sorted(q, p) ==
    \A i, j \in DOMAIN q :
        i < j /\ p \in DOMAIN q[i].delta /\ p \in DOMAIN q[j].delta
            => q[i].delta[p] <= q[j].delta[p]

\* Whoever has u and hears all of the queue ends with v.
Latest(q, u, p, v) ==
    \/ u = v /\ \A i \in DOMAIN q : p \notin DOMAIN q[i].delta
    \/ \E i \in DOMAIN q : /\ Says(q[i], p, v)
                           /\ \A j \in DOMAIN q : i < j => p \notin DOMAIN q[j].delta

-----------------------------------------------------------------------------
(* The invariant.                                                            *)
Typed ==
    /\ value \in [Parts -> [Props -> Nat]]
    /\ runtime \in [Parts -> SUBSET Props] /\ view \in [Parts -> SUBSET Props]
    /\ client \in SUBSET Props
    /\ body \in [Cells -> {"None", "Active", "Migrating"}] /\ asked \in BOOLEAN
    /\ cellCall \in Cells \cup {Nowhere} /\ shadow \in SUBSET Cells
    /\ net \in [Links -> Seq(Messages)]
    /\ wire \in Seq(Deltas) /\ screen \in [Props -> Nat]
    /\ writes \in Nat /\ migrations \in Nat

\* Each side sends what its own scripts write.
OwnAlone ==
    /\ runtime[Base] \subseteq BaseProps
    /\ \A c \in Cells :
        /\ runtime[c] \subseteq CellProps
        /\ About(net[<<c, Base>>], CellProps) /\ About(net[<<Base, c>>], BaseProps)

\* Nobody has more than the owner: the base part, or the last write.
Limit(p) == IF p \in BaseProps THEN value[Base][p] ELSE writes
Bounded ==
    /\ writes <= MaxWrites
    /\ \A p \in Props :
        /\ value[Base][p] <= writes
        /\ \A x \in Parts : value[x][p] <= Limit(p)
        /\ \A l \in Links, v \in Nat : In(net[l], p, v) => v <= Limit(p)

\* The entity is at one place.
Unique ==
    /\ \A c, d \in Cells : Active(c) /\ Active(d) => c = d
    /\ \A c \in Cells, l \in Links : Active(c) => ~ Has(net[l])
    /\ \A l, k \in Links : Has(net[l]) /\ Has(net[k]) => l = k
    /\ \A l \in Links : Once(net[l])
    /\ ~ asked => \A l \in Links : ~ Has(net[l])

\* A CellApp that has not heard of the entity, and of which nobody has heard.
Untouched(t) ==
    /\ body[t] = "None" /\ cellCall # t
    /\ net[<<Base, t>>] = <<>> /\ net[<<t, Base>>] = <<>>

\* At first there is one that has, and then there are two.
Elsewhere ==
    /\ ~ asked => \A t \in Cells : Untouched(t)
    /\ migrations = 0 => \A s, t \in Cells : s # t => Untouched(s) \/ Untouched(t)
    /\ migrations = 0 => \A s, t \in Cells : ~ Has(net[<<s, t>>])
    /\ migrations <= 1 => \A s, t \in Cells : Has(net[<<s, t>>]) => Untouched(t)

\* What the body has, or will have.
Carries(p, v) ==
    \/ \E c \in Cells : Active(c) /\ v = value[c][p]
    \/ \E l \in Links : Brings(net[l], p, v)

\* Nothing the base has, or will hear, is newer than what the body has.
NotBehind ==
    \A p \in CellProps : migrations = 0 \/ p \notin untold =>
        \A v \in Nat : Carries(p, v) =>
            /\ value[Base][p] <= v
            /\ \A c \in Cells, u \in Nat : In(net[<<c, Base>>], p, u) => u <= v

\* Values do not go back on the way from one side to the other.
InOrder ==
    /\ \A c \in Cells, p \in BaseProps : Sorted(net[<<Base, c>>], p)
    /\ migrations <= 1 =>
        \A c \in Cells, p \in BaseProps, v \in Nat :
            Active(c) /\ In(net[<<Base, c>>], p, v) => value[c][p] <= v
    /\ migrations = 0 =>
        \A c \in Cells, p \in CellProps :
            /\ Sorted(net[<<c, Base>>], p)
            /\ \A v \in Nat : In(net[<<c, Base>>], p, v) => value[Base][p] <= v

\* CellIsCurrent and BaseIsCurrent, wherever the entity is.
BodyHears ==
    \A p \in BaseProps \ missed : \A v \in Nat : Carries(p, v) =>
        \/ v = value[Base][p]
        \/ p \in runtime[Base]
        \/ \E d \in Cells : In(net[<<Base, d>>], p, value[Base][p])
BaseHears ==
    \A p \in CellProps \ untold : \A v \in Nat : Carries(p, v) =>
        \/ value[Base][p] = v
        \/ \E c \in Cells : Active(c) /\ p \in runtime[c]
        \/ \E c \in Cells : In(net[<<c, Base>>], p, v)

\* Who listens to a body that is there ends with what it has.
GhostHears ==
    \A c \in shadow :
        /\ body[c] # "None"
        /\ Active(c) => \A p \in Props \ unseen :
            p \in view[c] \/ Latest(net[<<c, Ghost>>], value[Ghost][p], p, value[c][p])

\* The client too; its queue is one of deltas.
Updates == [i \in DOMAIN wire |-> Message("sync", wire[i])]
ClientHears ==
    \A p \in Props \ unheard :
        p \in client \/ Latest(Updates, screen[p], p, value[Base][p])

Inv ==
    /\ Typed /\ OwnAlone /\ Bounded /\ Unique /\ Elsewhere /\ NotBehind /\ InOrder
    /\ BodyHears /\ BaseHears /\ GhostHears /\ ClientHears

-----------------------------------------------------------------------------
(* Data.                                                                     *)

\* A delta is about some properties, and may be empty.
LEMMA DeltaFacts ==
    /\ \A d \in Deltas : DOMAIN d \subseteq Props /\ \A p \in DOMAIN d : d[p] \in Nat
    /\ \A f, S : f \in [Props -> Nat] /\ S \subseteq Props => [p \in S |-> f[p]] \in Deltas
    /\ <<>> \in Deltas /\ DOMAIN <<>> = {}
<1>1. <<>> \in [{} -> Nat] /\ DOMAIN <<>> = {}
    OBVIOUS
<1> QED
    BY <1>1 DEF Deltas

\* What applying a delta leaves.
LEMMA OverFacts ==
    ASSUME NEW d \in Deltas, NEW f \in [Props -> Nat]
    PROVE  /\ Over(d, f) \in [Props -> Nat]
           /\ \A p \in Props : Over(d, f)[p] = IF p \in DOMAIN d THEN d[p] ELSE f[p]
BY DeltaFacts DEF Over

LEMMA RestoredFacts ==
    ASSUME NEW d \in Deltas
    PROVE  /\ Restored(d) \in [Props -> Nat]
           /\ \A p \in Props : Restored(d)[p] = IF p \in DOMAIN d THEN d[p] ELSE 0
<1>1. Default \in [Props -> Nat]
    BY DEF Default
<1> QED
    BY <1>1, OverFacts DEF Restored, Default

\* A queue whose first message is taken.
LEMMA TailFacts ==
    ASSUME NEW q \in Seq(Messages), q # <<>>
    PROVE  /\ Head(q) \in Messages /\ Tail(q) \in Seq(Messages)
           /\ Head(q) = q[1] /\ 1 \in DOMAIN q
           /\ \A i \in DOMAIN Tail(q) : i + 1 \in DOMAIN q /\ Tail(q)[i] = q[i + 1]
           /\ \A i \in DOMAIN q : i # 1 => i - 1 \in DOMAIN Tail(q) /\ Tail(q)[i - 1] = q[i]
           /\ DOMAIN q \subseteq Nat /\ \A i \in DOMAIN q : i >= 1 /\ q[i] \in Messages
           /\ DOMAIN Tail(q) \subseteq Nat
OBVIOUS

\* A queue with a message more.
LEMMA AppendFacts ==
    ASSUME NEW q \in Seq(Messages), NEW m \in Messages
    PROVE  /\ Append(q, m) \in Seq(Messages)
           /\ DOMAIN q \subseteq Nat
           /\ DOMAIN Append(q, m) = DOMAIN q \cup {Len(q) + 1} /\ Len(q) + 1 \notin DOMAIN q
           /\ \A i \in DOMAIN q : i < Len(q) + 1 /\ Append(q, m)[i] = q[i] /\ q[i] \in Messages
           /\ Append(q, m)[Len(q) + 1] = m
OBVIOUS

LEMMA TakenSays ==
    ASSUME NEW q \in Seq(Messages), q # <<>>
    PROVE  \A p, v : In(q, p, v) <=> Says(Head(q), p, v) \/ In(Tail(q), p, v)
<1> TAKE p, v
<1>1. ASSUME NEW i \in DOMAIN q, Says(q[i], p, v), ~ Says(Head(q), p, v)
      PROVE  In(Tail(q), p, v)
    <2>1. i - 1 \in DOMAIN Tail(q) /\ Tail(q)[i - 1] = q[i]
        BY <1>1, TailFacts
    <2> QED
        BY <1>1, <2>1 DEF In
<1>2. ASSUME NEW i \in DOMAIN Tail(q), Says(Tail(q)[i], p, v)
      PROVE  In(q, p, v)
    BY <1>2, TailFacts DEF In
<1>3. Says(Head(q), p, v) => In(q, p, v)
    BY TailFacts DEF In
<1> QED
    BY <1>1, <1>2, <1>3 DEF In

LEMMA SentSays ==
    ASSUME NEW q \in Seq(Messages), NEW m \in Messages
    PROVE  \A p, v : In(Append(q, m), p, v) <=> In(q, p, v) \/ Says(m, p, v)
BY AppendFacts DEF In

LEMMA TakenAbout ==
    ASSUME NEW q \in Seq(Messages), q # <<>>, NEW S, About(q, S)
    PROVE  /\ About(Tail(q), S)
           /\ Head(q).kind = "sync" => DOMAIN Head(q).delta \subseteq S
BY TailFacts DEF About

LEMMA SentAbout ==
    ASSUME NEW q \in Seq(Messages), NEW m \in Messages, NEW S, About(q, S),
           m.kind = "sync" => DOMAIN m.delta \subseteq S
    PROVE  About(Append(q, m), S)
BY AppendFacts DEF About

LEMMA NothingSaid ==
    /\ \A p, v : ~ In(<<>>, p, v) /\ ~ Brings(<<>>, p, v)
    /\ ~ Has(<<>>)
BY DEF In, Brings, Has

LEMMA TakenCargo ==
    ASSUME NEW q \in Seq(Messages), q # <<>>
    PROVE  /\ Has(q) <=> IsCargo(Head(q)) \/ Has(Tail(q))
           /\ Once(q) => Once(Tail(q)) /\ (IsCargo(Head(q)) => ~ Has(Tail(q)))
           /\ \A p, v : Brings(q, p, v) <=> \/ IsCargo(Head(q)) /\ v = Restored(Head(q).delta)[p]
                                            \/ Brings(Tail(q), p, v)
<1>1. ASSUME NEW i \in DOMAIN q, IsCargo(q[i]), ~ IsCargo(Head(q))
      PROVE  i - 1 \in DOMAIN Tail(q) /\ Tail(q)[i - 1] = q[i]
    BY <1>1, TailFacts
<1>2. Has(q) <=> IsCargo(Head(q)) \/ Has(Tail(q))
    BY <1>1, TailFacts DEF Has
<1>3. ASSUME Once(q)
      PROVE  Once(Tail(q))
    <2> SUFFICES ASSUME NEW i \in DOMAIN Tail(q), NEW j \in DOMAIN Tail(q),
                        IsCargo(Tail(q)[i]), IsCargo(Tail(q)[j])
                 PROVE  i = j
        BY DEF Once
    <2>1. i + 1 \in DOMAIN q /\ j + 1 \in DOMAIN q /\ IsCargo(q[i + 1]) /\ IsCargo(q[j + 1])
        BY TailFacts
    <2>2. i + 1 = j + 1
        BY <1>3, <2>1 DEF Once
    <2>3. i \in Nat /\ j \in Nat
        BY TailFacts
    <2> QED
        BY <2>2, <2>3
<1>4. ASSUME Once(q), IsCargo(Head(q)), Has(Tail(q))
      PROVE  FALSE
    <2>1. PICK i \in DOMAIN Tail(q) : IsCargo(Tail(q)[i])
        BY <1>4 DEF Has
    <2>2. i + 1 \in DOMAIN q /\ IsCargo(q[i + 1]) /\ 1 \in DOMAIN q /\ IsCargo(q[1]) /\ i \in Nat
          /\ i >= 1
        <3>1. i \in Nat /\ i >= 1
            OBVIOUS
        <3> QED
            BY <1>4, <2>1, <3>1, TailFacts
    <2>3. i + 1 = 1
        BY <1>4, <2>2 DEF Once
    <2> QED
        BY <2>2, <2>3
<1>5. ASSUME NEW p, NEW v, NEW i \in DOMAIN q, IsCargo(q[i]), v = Restored(q[i].delta)[p],
             ~ (IsCargo(Head(q)) /\ v = Restored(Head(q).delta)[p])
      PROVE  Brings(Tail(q), p, v)
    <2>1. i - 1 \in DOMAIN Tail(q) /\ Tail(q)[i - 1] = q[i]
        BY <1>5, TailFacts
    <2> QED
        BY <1>5, <2>1 DEF Brings
<1>6. ASSUME NEW p, NEW v, NEW i \in DOMAIN Tail(q), IsCargo(Tail(q)[i]),
             v = Restored(Tail(q)[i].delta)[p]
      PROVE  Brings(q, p, v)
    BY <1>6, TailFacts DEF Brings
<1>7. ASSUME NEW p, NEW v, IsCargo(Head(q)), v = Restored(Head(q).delta)[p]
      PROVE  Brings(q, p, v)
    BY <1>7, TailFacts DEF Brings
<1>8. \A p, v : Brings(q, p, v) <=> \/ IsCargo(Head(q)) /\ v = Restored(Head(q).delta)[p]
                                    \/ Brings(Tail(q), p, v)
    BY <1>5, <1>6, <1>7 DEF Brings
<1> QED
    BY <1>2, <1>3, <1>4, <1>8

LEMMA SentCargo ==
    ASSUME NEW q \in Seq(Messages), NEW m \in Messages
    PROVE  /\ Has(Append(q, m)) <=> Has(q) \/ IsCargo(m)
           /\ Once(q) /\ ~ (Has(q) /\ IsCargo(m)) => Once(Append(q, m))
           /\ \A p, v : Brings(Append(q, m), p, v) <=> \/ IsCargo(m) /\ v = Restored(m.delta)[p]
                                                       \/ Brings(q, p, v)
<1>1. Has(Append(q, m)) <=> Has(q) \/ IsCargo(m)
    BY AppendFacts DEF Has
<1>2. Once(q) /\ ~ (Has(q) /\ IsCargo(m)) => Once(Append(q, m))
    BY AppendFacts DEF Has, Once
<1>3. \A p, v : Brings(Append(q, m), p, v) <=> \/ IsCargo(m) /\ v = Restored(m.delta)[p]
                                               \/ Brings(q, p, v)
    BY AppendFacts DEF Brings
<1> QED
    BY <1>1, <1>2, <1>3

\* Who has something to bring has the entity.
LEMMA BringsHas ==
    ASSUME NEW q, NEW p, NEW v, Brings(q, p, v)
    PROVE  Has(q)
BY DEF Brings, Has

LEMMA TakenSorted ==
    ASSUME NEW q \in Seq(Messages), q # <<>>, NEW p, Sorted(q, p)
    PROVE  /\ Sorted(Tail(q), p)
           /\ p \in DOMAIN Head(q).delta =>
                 \A v : In(Tail(q), p, v) => Head(q).delta[p] <= v
<1>1. ASSUME NEW i \in DOMAIN Tail(q), NEW j \in DOMAIN Tail(q), i < j,
             p \in DOMAIN Tail(q)[i].delta, p \in DOMAIN Tail(q)[j].delta
      PROVE  Tail(q)[i].delta[p] <= Tail(q)[j].delta[p]
    <2>1. i + 1 \in DOMAIN q /\ j + 1 \in DOMAIN q /\ i + 1 < j + 1
          /\ Tail(q)[i] = q[i + 1] /\ Tail(q)[j] = q[j + 1]
        <3>1. i \in Nat /\ j \in Nat
            BY TailFacts
        <3> QED
            BY <1>1, <3>1, TailFacts
    <2> QED
        BY <1>1, <2>1 DEF Sorted
<1>2. ASSUME p \in DOMAIN Head(q).delta, NEW i \in DOMAIN Tail(q), p \in DOMAIN Tail(q)[i].delta
      PROVE  Head(q).delta[p] <= Tail(q)[i].delta[p]
    <2>1. i + 1 \in DOMAIN q /\ 1 \in DOMAIN q /\ 1 < i + 1
          /\ Tail(q)[i] = q[i + 1] /\ Head(q) = q[1]
        <3>1. i \in Nat /\ i >= 1
            OBVIOUS
        <3> QED
            BY <3>1, TailFacts
    <2> QED
        BY <1>2, <2>1 DEF Sorted
<1> QED
    BY <1>1, <1>2 DEF Sorted, In, Says

LEMMA SentSorted ==
    ASSUME NEW q \in Seq(Messages), NEW m \in Messages, NEW p, Sorted(q, p),
           p \in DOMAIN m.delta => \A v \in Nat : In(q, p, v) => v <= m.delta[p]
    PROVE  Sorted(Append(q, m), p)
<1> SUFFICES ASSUME NEW i \in DOMAIN Append(q, m), NEW j \in DOMAIN Append(q, m), i < j,
                    p \in DOMAIN Append(q, m)[i].delta, p \in DOMAIN Append(q, m)[j].delta
             PROVE  Append(q, m)[i].delta[p] <= Append(q, m)[j].delta[p]
    BY DEF Sorted
<1>1. i \in DOMAIN q /\ Append(q, m)[i] = q[i] /\ q[i] \in Messages
    BY AppendFacts
<1>2. CASE j \in DOMAIN q
    BY <1>1, <1>2, AppendFacts DEF Sorted
<1>3. CASE j = Len(q) + 1
    <2>1. Append(q, m)[j] = m
        BY <1>3, AppendFacts
    <2>2. q[i].delta \in Deltas
        BY <1>1 DEF Messages
    <2>3. q[i].delta[p] \in Nat
        BY <1>1, <2>2, DeltaFacts
    <2>4. In(q, p, q[i].delta[p])
        BY <1>1 DEF In, Says
    <2> QED
        BY <1>1, <2>1, <2>3, <2>4
<1> QED
    BY <1>2, <1>3, AppendFacts

LEMMA TakenLatest ==
    ASSUME NEW q \in Seq(Messages), q # <<>>, NEW u, NEW p, NEW v, Latest(q, u, p, v)
    PROVE  Latest(Tail(q), IF p \in DOMAIN Head(q).delta THEN Head(q).delta[p] ELSE u, p, v)
<1>1. CASE u = v /\ \A i \in DOMAIN q : p \notin DOMAIN q[i].delta
    BY <1>1, TailFacts DEF Latest
<1>2. CASE \E i \in DOMAIN q : /\ Says(q[i], p, v)
                               /\ \A j \in DOMAIN q : i < j => p \notin DOMAIN q[j].delta
    <2>1. PICK i \in DOMAIN q : /\ Says(q[i], p, v)
                                /\ \A j \in DOMAIN q : i < j => p \notin DOMAIN q[j].delta
        BY <1>2
    <2>2. CASE i = 1
        <3>1. \A j \in DOMAIN Tail(q) : p \notin DOMAIN Tail(q)[j].delta
            <4> TAKE j \in DOMAIN Tail(q)
            <4>1. j + 1 \in DOMAIN q /\ Tail(q)[j] = q[j + 1] /\ 1 < j + 1
                <5>1. j \in Nat /\ j >= 1
                    OBVIOUS
                <5> QED
                    BY <5>1, TailFacts
            <4> QED
                BY <2>1, <2>2, <4>1
        <3>2. Head(q).delta[p] = v /\ p \in DOMAIN Head(q).delta
            BY <2>1, <2>2, TailFacts DEF Says
        <3> QED
            BY <3>1, <3>2 DEF Latest
    <2>3. CASE i # 1
        <3>1. i - 1 \in DOMAIN Tail(q) /\ Tail(q)[i - 1] = q[i] /\ i \in Nat /\ i >= 1
            BY <2>3, TailFacts
        <3>2. ASSUME NEW j \in DOMAIN Tail(q), i - 1 < j
              PROVE  p \notin DOMAIN Tail(q)[j].delta
            <4>1. j + 1 \in DOMAIN q /\ Tail(q)[j] = q[j + 1] /\ j \in Nat
                BY TailFacts
            <4>2. i < j + 1
                BY <3>1, <3>2, <4>1
            <4> QED
                BY <2>1, <4>1, <4>2
        <3> QED
            BY <2>1, <3>1, <3>2 DEF Latest
    <2> QED
        BY <2>2, <2>3
<1> QED
    BY <1>1, <1>2 DEF Latest

LEMMA SentLatest ==
    ASSUME NEW q \in Seq(Messages), NEW m \in Messages, NEW u, NEW p
    PROVE  /\ p \in DOMAIN m.delta => Latest(Append(q, m), u, p, m.delta[p])
           /\ \A v : p \notin DOMAIN m.delta /\ Latest(q, u, p, v) => Latest(Append(q, m), u, p, v)
<1>1. ASSUME p \in DOMAIN m.delta
      PROVE  Latest(Append(q, m), u, p, m.delta[p])
    <2>1. \A j \in DOMAIN Append(q, m) : ~ (Len(q) + 1 < j)
        OBVIOUS
    <2> QED
        BY <1>1, <2>1, AppendFacts DEF Latest, Says
<1>2. ASSUME NEW v, p \notin DOMAIN m.delta, Latest(q, u, p, v)
      PROVE  Latest(Append(q, m), u, p, v)
    <2>1. CASE u = v /\ \A i \in DOMAIN q : p \notin DOMAIN q[i].delta
        BY <1>2, <2>1, AppendFacts DEF Latest
    <2>2. CASE \E i \in DOMAIN q : /\ Says(q[i], p, v)
                                   /\ \A j \in DOMAIN q : i < j => p \notin DOMAIN q[j].delta
        BY <1>2, <2>2, AppendFacts DEF Latest
    <2> QED
        BY <1>2, <2>1, <2>2 DEF Latest
<1> QED
    BY <1>1, <1>2

-----------------------------------------------------------------------------
(* Parts and links.                                                          *)
LEMMA PartFacts ==
    /\ Base \in Parts /\ Ghost \in Parts /\ Cells \subseteq Parts
    /\ Base # Ghost /\ Base \notin Cells /\ Ghost \notin Cells
    /\ \A x, y \in Parts : <<x, y>> \in Links
    /\ BaseProps \subseteq Props /\ CellProps \subseteq Props /\ Props = BaseProps \cup CellProps
    /\ BaseProps \cap CellProps = {}
    /\ MaxWrites \in Nat /\ Nowhere \notin Cells
BY PropertiesAssumption DEF Parts, Props, Links

LEMMA SentFacts ==
    ASSUME NEW n \in [Links -> Seq(Messages)], NEW x \in Parts, NEW y \in Parts,
           NEW m \in Messages
    PROVE  /\ Sent(n, x, y, m) \in [Links -> Seq(Messages)]
           /\ Sent(n, x, y, m)[<<x, y>>] = Append(n[<<x, y>>], m)
           /\ \A l \in Links : l # <<x, y>> => Sent(n, x, y, m)[l] = n[l]
BY PartFacts DEF Sent

LEMMA TakenFacts ==
    ASSUME net \in [Links -> Seq(Messages)], NEW x \in Parts, NEW y \in Parts,
           net[<<x, y>>] # <<>>
    PROVE  /\ Taken(x, y) \in [Links -> Seq(Messages)]
           /\ Taken(x, y)[<<x, y>>] = Tail(net[<<x, y>>])
           /\ \A l \in Links : l # <<x, y>> => Taken(x, y)[l] = net[l]
BY PartFacts DEF Taken

LEMMA MessageFacts ==
    ASSUME Typed, NEW x \in Parts, NEW mask \in SUBSET Props, NEW kind \in Kinds
    PROVE  /\ Delta(x, mask) \in Deltas /\ DOMAIN Delta(x, mask) = mask
           /\ \A p \in mask : Delta(x, mask)[p] = value[x][p]
           /\ kind \notin {"ready", "commit"} => Message(kind, Delta(x, mask)) \in Messages
           /\ Message(kind, Delta(x, mask)).kind = kind
           /\ Message(kind, Delta(x, mask)).delta = Delta(x, mask)
           /\ Quiet(kind) \in Messages /\ Quiet(kind).kind = kind /\ Quiet(kind).delta = <<>>
<1>1. value[x] \in [Props -> Nat]
    BY DEF Typed
<1>2. Delta(x, mask) \in Deltas
    BY <1>1, DeltaFacts DEF Delta
<1> QED
    BY <1>2, DeltaFacts DEF Delta, Message, Quiet, Messages

\* What sending says, and that without the entity it carries nothing.
LEMMA SentKeeps ==
    ASSUME NEW n \in [Links -> Seq(Messages)], NEW x \in Parts, NEW y \in Parts,
           NEW m \in Messages, ~ IsCargo(m)
    PROVE  \A l \in Links :
              /\ Has(Sent(n, x, y, m)[l]) <=> Has(n[l])
              /\ Once(n[l]) => Once(Sent(n, x, y, m)[l])
              /\ \A p, v : Brings(Sent(n, x, y, m)[l], p, v) <=> Brings(n[l], p, v)
              /\ \A p, v : In(Sent(n, x, y, m)[l], p, v) <=>
                            In(n[l], p, v) \/ (l = <<x, y>> /\ Says(m, p, v))
<1> TAKE l \in Links
<1>1. CASE l = <<x, y>>
    <2>1. n[l] \in Seq(Messages)
        OBVIOUS
    <2>2. Sent(n, x, y, m)[l] = Append(n[l], m)
        BY <1>1, SentFacts
    <2>3. \A p, v : In(Sent(n, x, y, m)[l], p, v) <=> In(n[l], p, v) \/ Says(m, p, v)
        BY <2>1, <2>2, SentSays
    <2>4. /\ Has(Sent(n, x, y, m)[l]) <=> Has(n[l])
          /\ Once(n[l]) => Once(Sent(n, x, y, m)[l])
          /\ \A p, v : Brings(Sent(n, x, y, m)[l], p, v) <=> Brings(n[l], p, v)
        BY <2>1, <2>2, SentCargo
    <2> QED
        BY <1>1, <2>3, <2>4
<1>2. CASE l # <<x, y>>
    BY <1>2, SentFacts
<1> QED
    BY <1>1, <1>2

LEMMA TakenKeeps ==
    ASSUME net \in [Links -> Seq(Messages)], NEW x \in Parts, NEW y \in Parts,
           net[<<x, y>>] # <<>>, ~ IsCargo(Head(net[<<x, y>>]))
    PROVE  \A l \in Links :
              /\ Has(Taken(x, y)[l]) <=> Has(net[l])
              /\ Once(net[l]) => Once(Taken(x, y)[l])
              /\ \A p, v : Brings(Taken(x, y)[l], p, v) <=> Brings(net[l], p, v)
              /\ \A p, v : In(net[l], p, v) <=>
                            \/ In(Taken(x, y)[l], p, v)
                            \/ l = <<x, y>> /\ Says(Head(net[<<x, y>>]), p, v)
<1> TAKE l \in Links
<1>1. CASE l = <<x, y>>
    <2>1. net[l] \in Seq(Messages)
        OBVIOUS
    <2>2. Taken(x, y)[l] = Tail(net[l])
        BY <1>1, TakenFacts
    <2>3. \A p, v : In(net[l], p, v) <=> \/ In(Taken(x, y)[l], p, v)
                                         \/ Says(Head(net[<<x, y>>]), p, v)
        BY <1>1, <2>1, <2>2, TakenSays
    <2>4. /\ Has(Taken(x, y)[l]) <=> Has(net[l])
          /\ Once(net[l]) => Once(Taken(x, y)[l])
          /\ \A p, v : Brings(Taken(x, y)[l], p, v) <=> Brings(net[l], p, v)
        BY <1>1, <2>1, <2>2, TakenCargo
    <2> QED
        BY <1>1, <2>3, <2>4
<1>2. CASE l # <<x, y>>
    BY <1>2, TakenFacts
<1> QED
    BY <1>1, <1>2

\* Where the entity stays what the body has stays.
LEMMA CarriesKept ==
    ASSUME body' = body, NEW p, \A c \in Cells : Active(c) => value'[c][p] = value[c][p],
           \A l \in Links : \A v : Brings(net'[l], p, v) => Brings(net[l], p, v)
    PROVE  \A v : Carries(p, v)' => Carries(p, v)
BY DEF Carries, Active

\* The numbers among the variables.
LEMMA Numbers ==
    ASSUME Typed
    PROVE  /\ \A x \in Parts : value[x] \in [Props -> Nat]
           /\ \A x \in Parts, p \in Props : value[x][p] \in Nat
           /\ writes \in Nat /\ migrations \in Nat
BY DEF Typed

\* Where neither bodies nor links change, nor what the bodies have, the entity
\* carries the same.
LEMMA CarriesSame ==
    ASSUME body' = body, net' = net, \A c \in Cells : value'[c] = value[c]
    PROVE  \A p, v : Carries(p, v)' <=> Carries(p, v)
BY DEF Carries, Active

LEMMA InvParts ==
    ASSUME Inv
    PROVE  /\ Typed /\ OwnAlone /\ Bounded /\ Unique /\ Elsewhere /\ NotBehind /\ InOrder
           /\ BodyHears /\ BaseHears /\ GhostHears /\ ClientHears
BY DEF Inv

-----------------------------------------------------------------------------
(* What a step leaves alone.                                                 *)

\* Nobody gets more than its owner has.
LEMMA BoundedKept ==
    ASSUME Typed, Typed', Bounded, writes' = writes,
           \A p \in BaseProps : value'[Base][p] = value[Base][p],
           \A x \in Parts, p \in Props : value'[x][p] <= Limit(p),
           \A l \in Links, p \in Props, v \in Nat :
               In(net'[l], p, v) => In(net[l], p, v) \/ v <= Limit(p)
    PROVE  Bounded'
<1>1. \A p \in Props : Limit(p)' = Limit(p)
    BY DEF Limit
<1>2. ASSUME NEW p \in Props
      PROVE  value'[Base][p] <= writes'
    <2>1. CASE p \in BaseProps
        BY <2>1 DEF Bounded
    <2>2. CASE p \notin BaseProps
        BY <2>2, PartFacts DEF Limit
    <2> QED
        BY <2>1, <2>2
<1>3. \A l \in Links, p \in Props, v \in Nat : In(net'[l], p, v) => v <= Limit(p)
    BY DEF Bounded
<1> QED
    BY <1>1, <1>2, <1>3 DEF Bounded

LEMMA UniqueKept ==
    ASSUME Unique, body' = body, asked' = asked,
           \A l \in Links : /\ Has(net'[l]) => Has(net[l])
                            /\ Once(net[l]) => Once(net'[l])
    PROVE  Unique'
BY DEF Unique, Active

LEMMA ElsewhereKept ==
    ASSUME Elsewhere, asked' = asked, migrations' = migrations,
           \A s, t \in Cells : Has(net'[<<s, t>>]) => Has(net[<<s, t>>]),
           \A t \in Cells : Untouched(t) => Untouched(t)'
    PROVE  Elsewhere'
BY DEF Elsewhere

LEMMA NotBehindKept ==
    ASSUME NotBehind, migrations' = migrations, untold \subseteq untold',
           \A p \in CellProps, v \in Nat : Carries(p, v)' => Carries(p, v),
           \A p \in CellProps : value'[Base][p] = value[Base][p],
           \A c \in Cells, p \in CellProps, u \in Nat :
               In(net'[<<c, Base>>], p, u) => In(net[<<c, Base>>], p, u)
    PROVE  NotBehind'
BY DEF NotBehind

LEMMA InOrderKept ==
    ASSUME InOrder, migrations' = migrations, body' = body,
           \A c \in Cells : /\ net'[<<Base, c>>] = net[<<Base, c>>]
                            /\ net'[<<c, Base>>] = net[<<c, Base>>],
           \A c \in Cells, p \in BaseProps : Active(c) => value'[c][p] = value[c][p],
           \A p \in CellProps : value'[Base][p] = value[Base][p]
    PROVE  InOrder'
BY DEF InOrder, Active

LEMMA BodyHearsKept ==
    ASSUME BodyHears, missed \subseteq missed', runtime[Base] \subseteq runtime'[Base],
           \A p \in BaseProps, v \in Nat : Carries(p, v)' => Carries(p, v),
           \A p \in BaseProps : value'[Base][p] = value[Base][p],
           \A d \in Cells, p \in BaseProps, v \in Nat :
               In(net[<<Base, d>>], p, v) => In(net'[<<Base, d>>], p, v),
           \A p \in BaseProps : value[Base][p] \in Nat
    PROVE  BodyHears'
BY DEF BodyHears

LEMMA BaseHearsKept ==
    ASSUME BaseHears, untold \subseteq untold', body' = body,
           \A c \in Cells : runtime[c] \subseteq runtime'[c],
           \A p \in CellProps, v \in Nat : Carries(p, v)' => Carries(p, v),
           \A p \in CellProps : value'[Base][p] = value[Base][p],
           \A c \in Cells, p \in CellProps, v \in Nat :
               In(net[<<c, Base>>], p, v) => In(net'[<<c, Base>>], p, v)
    PROVE  BaseHears'
BY DEF BaseHears, Active

LEMMA GhostHearsKept ==
    ASSUME Typed, GhostHears, shadow' = shadow, body' = body, unseen' = unseen,
           value'[Ghost] = value[Ghost],
           \A c \in Cells : /\ view[c] \subseteq view'[c]
                            /\ value'[c] = value[c]
                            /\ net'[<<c, Ghost>>] = net[<<c, Ghost>>]
    PROVE  GhostHears'
<1> SUFFICES ASSUME NEW c \in shadow
             PROVE  /\ body[c] # "None"
                    /\ Active(c) => \A p \in Props \ unseen :
                        \/ p \in view'[c]
                        \/ Latest(net'[<<c, Ghost>>], value'[Ghost][p], p, value'[c][p])
    BY DEF GhostHears, Active
<1>1. c \in Cells
    BY DEF Typed
<1> QED
    BY <1>1 DEF GhostHears

LEMMA ClientHearsKept ==
    ASSUME ClientHears, wire' = wire, screen' = screen, unheard' = unheard,
           client \subseteq client',
           \A p \in Props : p \notin client' => value'[Base][p] = value[Base][p]
    PROVE  ClientHears'
BY DEF ClientHears, Updates

\* A step that only takes a message from a link.
LEMMA Taking ==
    ASSUME Typed, NEW x \in Parts, NEW y \in Parts, net[<<x, y>>] # <<>>, net' = Taken(x, y)
    PROVE  /\ net' \in [Links -> Seq(Messages)]
           /\ net[<<x, y>>] \in Seq(Messages) /\ Head(net[<<x, y>>]) \in Messages
           /\ net'[<<x, y>>] = Tail(net[<<x, y>>])
           /\ \A l \in Links : l # <<x, y>> => net'[l] = net[l]
           /\ \A l \in Links : \A p, v : In(net'[l], p, v) => In(net[l], p, v)
           /\ \A l \in Links : \A p, v :
                 In(net[l], p, v) =>
                     In(net'[l], p, v) \/ (l = <<x, y>> /\ Says(Head(net[<<x, y>>]), p, v))
           /\ \A p, v : Says(Head(net[<<x, y>>]), p, v) => In(net[<<x, y>>], p, v)
           /\ ~ IsCargo(Head(net[<<x, y>>])) =>
                 \A l \in Links : /\ Has(net'[l]) => Has(net[l])
                                  /\ Once(net[l]) => Once(net'[l])
                                  /\ \A p, v : Brings(net'[l], p, v) => Brings(net[l], p, v)
<1>1. net \in [Links -> Seq(Messages)]
    BY DEF Typed
<1>2. net[<<x, y>>] \in Seq(Messages)
    BY <1>1, PartFacts
<1>3. Head(net[<<x, y>>]) \in Messages
    BY <1>2, TailFacts
<1>4. /\ net' \in [Links -> Seq(Messages)]
      /\ net'[<<x, y>>] = Tail(net[<<x, y>>])
      /\ \A l \in Links : l # <<x, y>> => net'[l] = net[l]
    BY <1>1, TakenFacts
<1>5. ASSUME NEW l \in Links, NEW p, NEW v
      PROVE  In(net[l], p, v) <=> \/ In(net'[l], p, v)
                                  \/ l = <<x, y>> /\ Says(Head(net[<<x, y>>]), p, v)
    <2>1. CASE l = <<x, y>>
        <3>1. In(net[<<x, y>>], p, v) <=> \/ Says(Head(net[<<x, y>>]), p, v)
                                         \/ In(Tail(net[<<x, y>>]), p, v)
            BY <1>2, TakenSays
        <3> QED
            BY <1>4, <2>1, <3>1
    <2>2. CASE l # <<x, y>>
        BY <1>4, <2>2
    <2> QED
        BY <2>1, <2>2
<1>6. \A p, v : Says(Head(net[<<x, y>>]), p, v) => In(net[<<x, y>>], p, v)
    BY <1>2, TakenSays
<1>7. ASSUME ~ IsCargo(Head(net[<<x, y>>])), NEW l \in Links
      PROVE  /\ Has(net'[l]) => Has(net[l])
             /\ Once(net[l]) => Once(net'[l])
             /\ \A p, v : Brings(net'[l], p, v) => Brings(net[l], p, v)
    BY <1>1, <1>7, TakenKeeps
<1> QED
    BY <1>2, <1>3, <1>4, <1>5, <1>7, <1>6

\* The queue of deltas to the client as one of messages.
LEMMA UpdatesFacts ==
    ASSUME NEW q \in Seq(Deltas)
    PROVE  LET Q == [i \in DOMAIN q |-> Message("sync", q[i])] IN
           /\ Q \in Seq(Messages)
           /\ \A d \in Deltas : /\ Message("sync", d) \in Messages
                                /\ Message("sync", d).delta = d
                                /\ [i \in DOMAIN Append(q, d) |-> Message("sync", Append(q, d)[i])]
                                        = Append(Q, Message("sync", d))
           /\ q # <<>> =>
                /\ Q # <<>> /\ Head(Q) = Message("sync", Head(q)) /\ Head(q) \in Deltas
                /\ [i \in DOMAIN Tail(q) |-> Message("sync", Tail(q)[i])] = Tail(Q)
<1> DEFINE Q == [i \in DOMAIN q |-> Message("sync", q[i])]
<1>1. \A d \in Deltas : Message("sync", d) \in Messages /\ Message("sync", d).delta = d
    BY DEF Message, Messages, Kinds
<1>2. Q \in Seq(Messages) /\ Len(Q) = Len(q) /\ DOMAIN Q = 1..Len(q) /\ DOMAIN q = 1..Len(q)
    BY <1>1
<1>3. ASSUME NEW d \in Deltas
      PROVE  [i \in DOMAIN Append(q, d) |-> Message("sync", Append(q, d)[i])]
                 = Append(Q, Message("sync", d))
    <2>1. DOMAIN Append(q, d) = 1..(Len(q) + 1)
        OBVIOUS
    <2>2. DOMAIN Append(Q, Message("sync", d)) = 1..(Len(q) + 1)
        BY <1>1, <1>2
    <2>3. \A i \in 1..(Len(q) + 1) :
              Append(Q, Message("sync", d))[i] = Message("sync", Append(q, d)[i])
        BY <1>1, <1>2
    <2>4. Append(Q, Message("sync", d)) = [i \in 1..(Len(q) + 1) |-> Append(Q, Message("sync", d))[i]]
        BY <1>1, <1>2, <2>2
    <2> HIDE DEF Q
    <2> QED
        BY <2>1, <2>3, <2>4
<1>4. ASSUME q # <<>>
      PROVE  /\ Q # <<>> /\ Head(Q) = Message("sync", Head(q)) /\ Head(q) \in Deltas
             /\ [i \in DOMAIN Tail(q) |-> Message("sync", Tail(q)[i])] = Tail(Q)
    <2>1. Q # <<>> /\ Head(Q) = Message("sync", Head(q)) /\ Head(q) \in Deltas
        BY <1>2, <1>4
    <2>2. DOMAIN Tail(q) = 1..(Len(q) - 1) /\ DOMAIN Tail(Q) = 1..(Len(q) - 1)
        BY <1>2, <1>4, <2>1
    <2>3. \A i \in 1..(Len(q) - 1) : Tail(Q)[i] = Message("sync", Tail(q)[i])
        BY <1>2, <1>4, <2>1
    <2>4. Tail(Q) = [i \in 1..(Len(q) - 1) |-> Tail(Q)[i]]
        BY <1>2, <2>1, <2>2
    <2> HIDE DEF Q
    <2> QED
        BY <2>1, <2>2, <2>3, <2>4
<1> QED
    BY <1>1, <1>2, <1>3, <1>4

\* A step that is between the base part and its client only.
LEMMA CoreKept ==
    ASSUME Inv,
           UNCHANGED <<value, runtime, view, body, asked, cellCall, shadow, net, writes,
                       migrations, missed, untold, unseen>>
    PROVE  /\ OwnAlone' /\ Bounded' /\ Unique' /\ Elsewhere' /\ NotBehind' /\ InOrder'
           /\ BodyHears' /\ BaseHears' /\ GhostHears'
<1>1. OwnAlone' /\ Bounded'
    BY InvParts DEF OwnAlone, Bounded, Limit
<1>2. Unique' /\ Elsewhere'
    BY InvParts DEF Unique, Elsewhere, Untouched, Active
<1>3. \A p, v : Carries(p, v)' <=> Carries(p, v)
    BY CarriesSame
<1>4. NotBehind' /\ InOrder'
    BY <1>3, InvParts DEF NotBehind, InOrder, Active
<1>5. BodyHears' /\ BaseHears' /\ GhostHears'
    BY <1>3, InvParts DEF BodyHears, BaseHears, GhostHears, Active
<1> QED
    BY <1>1, <1>2, <1>4, <1>5

-----------------------------------------------------------------------------
(* The steps of the base part.                                               *)
LEMMA BaseWriteStep ==
    ASSUME Inv, NEW q \in Props, BaseWrite(q)
    PROVE  Inv'
<1>1. /\ q \in BaseProps /\ writes < MaxWrites /\ writes' = writes + 1
      /\ client' = client \cup {q} /\ missed' = missed \ {q}
      /\ UNCHANGED <<view, body, asked, cellCall, shadow, net, wire, screen, migrations,
                     untold, unseen, unheard>>
    BY DEF BaseWrite, Set, placeVars
<1>2. Typed /\ Typed'
    <2>1. value' \in [Parts -> [Props -> Nat]] /\ runtime' \in [Parts -> SUBSET Props]
        BY InvParts, PartFacts DEF BaseWrite, Set, Marked, Typed
    <2>2. Typed
        BY InvParts
    <2>3. client' \in SUBSET Props
        BY <1>1, <2>2 DEF Typed
    <2>4. writes' \in Nat
        BY <1>1, <2>2 DEF Typed
    <2> QED
        BY <1>1, <2>1, <2>2, <2>3, <2>4 DEF Typed
<1>3. /\ value'[Base][q] = writes + 1
      /\ \A p \in Props : p # q => value'[Base][p] = value[Base][p]
      /\ \A x \in Parts : x # Base => value'[x] = value[x]
      /\ runtime'[Base] = runtime[Base] \cup {q}
      /\ \A c \in Cells : runtime'[c] = runtime[c]
    BY <1>2, PartFacts DEF BaseWrite, Set, Marked, Typed
<1>4. \A p, v : Carries(p, v)' <=> Carries(p, v)
    BY <1>1, <1>3, PartFacts, CarriesSame
<1>5. OwnAlone'
    BY <1>1, <1>3, InvParts DEF OwnAlone
<1>6. Bounded'
    <2>1. \A p \in Props : Limit(p) <= Limit(p)' /\ value[Base][p] <= writes
        <3> TAKE p \in Props
        <3>1. value[Base][p] \in Nat /\ writes \in Nat /\ value'[Base][p] \in Nat
            <4>1. Typed
                BY <1>2
            <4> QED
                BY <1>2, PartFacts, Numbers DEF Typed
        <3> QED
            BY <1>1, <1>3, <3>1, InvParts DEF Limit, Bounded
    <2>2. \A p \in Props : Limit(p) \in Nat /\ Limit(p)' \in Nat
        BY <1>2, PartFacts DEF Limit, Typed
    <2>3. ASSUME NEW p \in Props
          PROVE  value'[Base][p] <= writes'
        <3>1. value[Base][p] \in Nat /\ writes \in Nat
            BY <1>2, PartFacts DEF Typed
        <3> QED
            BY <1>1, <1>3, <2>1, <3>1
    <2>4. ASSUME NEW p \in Props, NEW x \in Parts
          PROVE  value'[x][p] <= Limit(p)'
        <3>1. CASE x = Base
            <4>1. value'[Base][p] \in Nat /\ writes' \in Nat
                BY <1>2, PartFacts DEF Typed
            <4> QED
                BY <2>3, <3>1, <4>1 DEF Limit
        <3>2. CASE x # Base
            <4>1. value'[x][p] = value[x][p] /\ value[x][p] \in Nat
                BY <1>2, <1>3, <3>2 DEF Typed
            <4>2. value[x][p] <= Limit(p)
                BY InvParts DEF Bounded
            <4> QED
                BY <2>1, <2>2, <4>1, <4>2
        <3> QED
            BY <3>1, <3>2
    <2>5. ASSUME NEW p \in Props, NEW l \in Links, NEW v \in Nat, In(net'[l], p, v)
          PROVE  v <= Limit(p)'
        <3>1. v <= Limit(p)
            BY <1>1, <2>5, InvParts DEF Bounded
        <3> QED
            BY <2>1, <2>2, <3>1
    <2>6. writes' <= MaxWrites
        BY <1>1, <1>2, PartFacts DEF Typed
    <2> QED
        BY <2>3, <2>4, <2>5, <2>6 DEF Bounded
<1>7. Unique' /\ Elsewhere' /\ InOrder' /\ NotBehind' /\ BaseHears'
    <2>1. Unique' /\ Elsewhere'
        BY <1>1, InvParts DEF Unique, Elsewhere, Untouched, Active
    <2>2. InOrder' /\ NotBehind' /\ BaseHears'
        <3>1. \A p \in CellProps : value'[Base][p] = value[Base][p]
            BY <1>1, <1>3, PartFacts
        <3>2. \A c \in Cells : value'[c] = value[c]
            BY <1>3, PartFacts
        <3> QED
            BY <1>1, <1>3, <1>4, <3>1, <3>2, InvParts, InOrderKept, NotBehindKept, BaseHearsKept
    <2> QED
        BY <2>1, <2>2
<1>8. BodyHears'
    <2> SUFFICES ASSUME NEW p \in BaseProps \ missed', NEW v \in Nat, Carries(p, v)'
                 PROVE  \/ v = value'[Base][p]
                        \/ p \in runtime'[Base]
                        \/ \E d \in Cells : In(net'[<<Base, d>>], p, value'[Base][p])
        BY DEF BodyHears
    <2> QED
        BY <1>1, <1>3, <1>4, InvParts, PartFacts DEF BodyHears
<1>9. GhostHears'
    BY <1>1, <1>3, InvParts, PartFacts, GhostHearsKept
<1>10. ClientHears'
    BY <1>1, <1>3, InvParts, ClientHearsKept
<1> QED
    BY <1>2, <1>5, <1>6, <1>7, <1>8, <1>9, <1>10 DEF Inv

LEMMA SyncToCellsStep ==
    ASSUME Inv, SyncToCells
    PROVE  Inv'
<1> DEFINE d == cellCall
           m == Message("sync", Delta(Base, runtime[Base]))
<1>1. /\ d \in Cells
      /\ UNCHANGED <<value, view, client, body, asked, cellCall, shadow, wire, screen, writes,
                     migrations, missed, untold, unseen, unheard>>
    BY InvParts DEF SyncToCells, Typed, placeVars, historyVars
<1>2. CASE UNCHANGED <<net, runtime>>
    <2>1. Typed' /\ ClientHears'
        BY <1>1, <1>2, InvParts DEF Typed, ClientHears, Updates
    <2> QED
        BY <1>1, <1>2, <2>1, CoreKept DEF Inv
<1>3. CASE net' = Sent(net, Base, d, m) /\ runtime' = Cleared(runtime, Base)
    <2>1. /\ m \in Messages /\ ~ IsCargo(m) /\ m.kind = "sync"
          /\ DOMAIN m.delta = runtime[Base]
          /\ \A p \in runtime[Base] : m.delta[p] = value[Base][p]
          /\ runtime[Base] \subseteq BaseProps
        <3>1. runtime[Base] \in SUBSET Props
            BY InvParts, PartFacts DEF Typed
        <3>2. runtime[Base] \subseteq BaseProps
            BY InvParts DEF OwnAlone
        <3> QED
            BY <3>1, <3>2, InvParts, PartFacts, MessageFacts DEF IsCargo, Kinds
    <2> HIDE DEF m
    <2>2. /\ net' \in [Links -> Seq(Messages)]
          /\ net'[<<Base, d>>] = Append(net[<<Base, d>>], m)
          /\ \A l \in Links : l # <<Base, d>> => net'[l] = net[l]
          /\ net \in [Links -> Seq(Messages)]
        <3>1. net \in [Links -> Seq(Messages)]
            BY InvParts DEF Typed
        <3>2. d \in Parts /\ Base \in Parts
            BY <1>1, PartFacts
        <3>3. net' = Sent(net, Base, d, m) /\ m \in Messages
            BY <1>3, <2>1
        <3> HIDE DEF d
        <3> QED
            BY <3>1, <3>2, <3>3, SentFacts
    <2>3. \A l \in Links :
              /\ Has(net'[l]) <=> Has(net[l])
              /\ Once(net[l]) => Once(net'[l])
              /\ \A p, v : Brings(net'[l], p, v) <=> Brings(net[l], p, v)
              /\ \A p, v : In(net'[l], p, v) <=>
                            In(net[l], p, v) \/ (l = <<Base, d>> /\ Says(m, p, v))
        BY <1>1, <1>3, <2>1, <2>2, PartFacts, SentKeeps
    <2>4. /\ runtime' \in [Parts -> SUBSET Props] /\ runtime'[Base] = {}
          /\ \A c \in Cells : runtime'[c] = runtime[c]
        BY <1>3, InvParts, PartFacts DEF Cleared, Typed
    <2>5. Typed'
        BY <1>1, <2>2, <2>4, InvParts DEF Typed
    <2>6. OwnAlone'
        <3>1. About(net'[<<Base, d>>], BaseProps)
            <4>1. net[<<Base, d>>] \in Seq(Messages) /\ About(net[<<Base, d>>], BaseProps)
                BY <1>1, <2>2, InvParts, PartFacts DEF OwnAlone
            <4> QED
                BY <2>1, <2>2, <4>1, SentAbout
        <3>2. \A c \in Cells : /\ <<c, Base>> # <<Base, d>>
                               /\ c # d => <<Base, c>> # <<Base, d>>
            BY <1>1, PartFacts
        <3> QED
            BY <2>2, <2>4, <3>1, <3>2, InvParts, PartFacts DEF OwnAlone
    <2>7. Bounded'
        <3>1. \A x \in Parts, p \in Props : value'[x][p] <= Limit(p)
            BY <1>1, InvParts DEF Bounded
        <3>2. \A p \in Props : \A v : Says(m, p, v) => v <= Limit(p)
            BY <2>1, InvParts, PartFacts DEF Says, Bounded
        <3> QED
            BY <1>1, <2>3, <2>5, <3>1, <3>2, InvParts, BoundedKept
    <2>8. Unique'
        BY <1>1, <2>3, InvParts, UniqueKept
    <2>9. Elsewhere'
        <3>1. \A t \in Cells : Untouched(t) => Untouched(t)'
            BY <1>1, <2>2, PartFacts DEF Untouched
        <3> QED
            BY <1>1, <2>3, <3>1, InvParts, PartFacts, ElsewhereKept
    <2>10. \A p, v : Carries(p, v)' => Carries(p, v)
        BY <1>1, <2>3, CarriesKept
    <2>11. \A c \in Cells : net'[<<c, Base>>] = net[<<c, Base>>] /\ net'[<<c, Ghost>>] = net[<<c, Ghost>>]
        BY <2>2, PartFacts
    <2>12. NotBehind' /\ BaseHears' /\ GhostHears' /\ ClientHears'
        BY <1>1, <2>4, <2>10, <2>11, InvParts, NotBehindKept, BaseHearsKept, GhostHearsKept,
           ClientHearsKept, PartFacts
    <2>13. InOrder'
        <3>1. ASSUME NEW c \in Cells, NEW p \in BaseProps
              PROVE  Sorted(net'[<<Base, c>>], p)
            <4>1. CASE c = d
                <5>1. \A v \in Nat : In(net[<<Base, d>>], p, v) => v <= value[Base][p]
                    BY <1>1, InvParts, PartFacts DEF Bounded, Limit
                <5>2. Sorted(net[<<Base, d>>], p) /\ net[<<Base, d>>] \in Seq(Messages)
                    BY <1>1, <2>2, InvParts, PartFacts DEF InOrder
                <5> QED
                    BY <2>1, <2>2, <4>1, <5>1, <5>2, SentSorted
            <4>2. CASE c # d
                BY <2>2, <4>2, InvParts, PartFacts DEF InOrder
            <4> QED
                BY <4>1, <4>2
        <3>2. ASSUME migrations <= 1, NEW c \in Cells, NEW p \in BaseProps, NEW v \in Nat,
                     Active(c), In(net'[<<Base, c>>], p, v)
              PROVE  value[c][p] <= v
            <4>1. CASE In(net[<<Base, c>>], p, v)
                BY <3>2, <4>1, InvParts DEF InOrder
            <4>2. CASE Says(m, p, v)
                BY <2>1, <4>2, InvParts, PartFacts DEF Says, Bounded, Limit
            <4> QED
                BY <2>3, <3>2, <4>1, <4>2, PartFacts
        <3> QED
            BY <1>1, <2>11, <3>1, <3>2, InvParts DEF InOrder, Active
    <2>14. BodyHears'
        <3> SUFFICES ASSUME NEW p \in BaseProps \ missed, NEW v \in Nat, Carries(p, v)
                     PROVE  \/ v = value[Base][p]
                            \/ \E c \in Cells : In(net'[<<Base, c>>], p, value[Base][p])
            BY <1>1, <2>10 DEF BodyHears
        <3>1. CASE p \in runtime[Base]
            BY <1>1, <2>1, <2>3, <3>1, PartFacts DEF Says
        <3>2. CASE p \notin runtime[Base]
            BY <2>3, <3>2, InvParts, PartFacts DEF BodyHears
        <3> QED
            BY <3>1, <3>2
    <2> QED
        BY <2>5, <2>6, <2>7, <2>8, <2>9, <2>12, <2>13, <2>14 DEF Inv
<1> QED
    BY <1>2, <1>3 DEF SyncToCells

LEMMA FlushClientStep ==
    ASSUME Inv, FlushClient
    PROVE  Inv'
<1> DEFINE d == Delta(Base, client)
<1>1. /\ client' = {}
      /\ UNCHANGED <<value, runtime, view, body, asked, cellCall, shadow, net, screen, writes,
                     migrations, missed, untold, unseen>>
    BY DEF FlushClient, placeVars
<1>2. /\ d \in Deltas /\ DOMAIN d = client /\ \A p \in client : d[p] = value[Base][p]
      /\ wire \in Seq(Deltas)
    <2>1. client \in SUBSET Props
        BY InvParts DEF Typed
    <2>2. "sync" \in Kinds
        BY DEF Kinds
    <2>3. d \in Deltas /\ DOMAIN d = client /\ \A p \in client : d[p] = value[Base][p]
        BY <2>1, <2>2, InvParts, PartFacts, MessageFacts
    <2> QED
        BY <2>3, InvParts DEF Typed
<1> HIDE DEF d
<1>3. wire' \in Seq(Deltas) /\ ClientHears'
    <2>1. CASE unheard' = unheard \cup client /\ UNCHANGED wire
        BY <1>1, <1>2, <2>1, InvParts DEF ClientHears, Updates
    <2>2. CASE wire' = Append(wire, d) /\ unheard' = unheard \ client
        <3>1. Updates \in Seq(Messages) /\ Message("sync", d) \in Messages
              /\ Message("sync", d).delta = d
            BY <1>2, UpdatesFacts DEF Updates
        <3>2. Updates' = Append(Updates, Message("sync", d))
            BY <1>2, <2>2, UpdatesFacts DEF Updates
        <3>3. ASSUME NEW p \in Props \ unheard'
              PROVE  Latest(Updates', screen[p], p, value[Base][p])
            <4>1. CASE p \in client
                BY <1>2, <3>1, <3>2, <4>1, SentLatest
            <4>2. CASE p \notin client
                <5>1. Latest(Updates, screen[p], p, value[Base][p])
                    BY <2>2, <3>3, <4>2, InvParts DEF ClientHears
                <5> QED
                    BY <1>2, <3>1, <3>2, <4>2, <5>1, SentLatest
            <4> QED
                BY <4>1, <4>2
        <3> QED
            BY <1>1, <1>2, <2>2, <3>3 DEF ClientHears
    <2> QED
        BY <2>1, <2>2 DEF FlushClient, d
<1>4. Typed'
    BY <1>1, <1>3, InvParts DEF Typed
<1> QED
    BY <1>1, <1>3, <1>4, CoreKept DEF Inv

LEMMA ShowStep ==
    ASSUME Inv, Show
    PROVE  Inv'
<1>1. /\ wire # <<>> /\ screen' = Over(Head(wire), screen) /\ wire' = Tail(wire)
      /\ UNCHANGED <<value, runtime, view, client, body, asked, cellCall, shadow, net, writes,
                     migrations, missed, untold, unseen, unheard>>
    BY DEF Show, blockVars, placeVars, boundVars, historyVars
<1>2. wire \in Seq(Deltas) /\ screen \in [Props -> Nat] /\ Head(wire) \in Deltas
      /\ wire' \in Seq(Deltas)
    BY <1>1, InvParts DEF Typed
<1>3. screen' \in [Props -> Nat]
      /\ \A p \in Props : screen'[p] = IF p \in DOMAIN Head(wire) THEN Head(wire)[p] ELSE screen[p]
    BY <1>1, <1>2, OverFacts
<1>4. Typed'
    BY <1>1, <1>2, <1>3, InvParts DEF Typed
<1>5. ClientHears'
    <2>1. Updates \in Seq(Messages) /\ Updates # <<>> /\ Head(Updates).delta = Head(wire)
        <3>1. Head(Updates) = Message("sync", Head(wire)) /\ Updates \in Seq(Messages) /\ Updates # <<>>
            BY <1>1, <1>2, UpdatesFacts DEF Updates
        <3> QED
            BY <1>2, <3>1, UpdatesFacts
    <2>2. Updates' = Tail(Updates)
        BY <1>1, <1>2, UpdatesFacts DEF Updates
    <2>3. ASSUME NEW p \in Props \ unheard, p \notin client
          PROVE  Latest(Updates', screen'[p], p, value[Base][p])
        <3>1. Latest(Updates, screen[p], p, value[Base][p])
            BY <2>3, InvParts DEF ClientHears
        <3> QED
            BY <1>3, <2>1, <2>2, <3>1, TakenLatest
    <2> QED
        BY <1>1, <2>3 DEF ClientHears
<1> QED
    BY <1>1, <1>4, <1>5, CoreKept DEF Inv

LEMMA RequestCreateCellStep ==
    ASSUME Inv, NEW c \in Cells, RequestCreateCell(c)
    PROVE  Inv'
<1> DEFINE m == Message("create", FullSnapshot(Base))
<1>1. /\ ~ asked
      /\ UNCHANGED <<value, view, client, body, cellCall, shadow, wire, screen, writes,
                     migrations, missed, untold, unseen, unheard>>
    BY DEF RequestCreateCell, historyVars
<1>2. CASE UNCHANGED <<net, asked, runtime>>
    <2>1. Typed' /\ ClientHears'
        BY <1>1, <1>2, InvParts DEF Typed, ClientHears, Updates
    <2> QED
        BY <1>1, <1>2, <2>1, CoreKept DEF Inv
<1>3. CASE net' = Sent(net, Base, c, m) /\ asked' = TRUE /\ runtime' = Cleared(runtime, Base)
    <2>1. /\ m \in Messages /\ m.kind = "create"
          /\ \A p \in DOMAIN m.delta : p \in Props /\ m.delta[p] = value[Base][p]
          /\ \A p \in Props \ DOMAIN m.delta : value[Base][p] = 0
        <3> DEFINE mask == {p \in Props : p \in Strings => value[Base][p] # 0}
        <3>1. "create" \in Kinds
            BY DEF Kinds
        <3>2. mask \in SUBSET Props
            OBVIOUS
        <3>3. m = Message("create", Delta(Base, mask))
            BY DEF FullSnapshot
        <3>4. \A p \in Props \ mask : value[Base][p] = 0
            OBVIOUS
        <3> HIDE DEF mask, m
        <3> QED
            BY <3>1, <3>2, <3>3, <3>4, InvParts, PartFacts, MessageFacts
    <2> HIDE DEF m
    <2>2. /\ net' \in [Links -> Seq(Messages)]
          /\ net'[<<Base, c>>] = Append(net[<<Base, c>>], m)
          /\ \A l \in Links : l # <<Base, c>> => net'[l] = net[l]
        <3>1. net \in [Links -> Seq(Messages)]
            BY InvParts DEF Typed
        <3>2. c \in Parts /\ Base \in Parts
            BY PartFacts
        <3>3. net' = Sent(net, Base, c, m) /\ m \in Messages
            BY <1>3, <2>1
        <3> QED
            BY <3>1, <3>2, <3>3, SentFacts
    <2>3. \A d \in Cells : Untouched(d) /\ ~ Active(d)
        BY <1>1, InvParts DEF Elsewhere, Untouched, Active
    <2> DEFINE q == net[<<Base, c>>]
    <2>4. /\ q \in Seq(Messages)
          /\ \A p, v : ~ In(q, p, v) /\ ~ Brings(q, p, v)
          /\ ~ Has(q) /\ Once(q) /\ About(q, BaseProps) /\ \A p : Sorted(q, p)
        <3>1. q = <<>>
            BY <2>3 DEF Untouched
        <3>2. <<>> \in Seq(Messages)
            OBVIOUS
        <3>3. Once(<<>>) /\ About(<<>>, BaseProps) /\ \A p : Sorted(<<>>, p)
            BY DEF Once, About, Sorted
        <3> QED
            BY <3>1, <3>2, <3>3, NothingSaid
    <2>5. net'[<<Base, c>>] = Append(q, m) /\ m \in Messages
        BY <2>1, <2>2
    <2> HIDE DEF q
    <2>6. \A p, v : In(net'[<<Base, c>>], p, v) <=> Says(m, p, v)
        <3>1. \A p, v : In(Append(q, m), p, v) <=> In(q, p, v) \/ Says(m, p, v)
            BY <2>4, <2>5, SentSays
        <3> QED
            BY <2>4, <2>5, <3>1
    <2>7. /\ Once(net'[<<Base, c>>])
          /\ \A p, v : Brings(net'[<<Base, c>>], p, v) => v = Restored(m.delta)[p]
        BY <2>4, <2>5, SentCargo
    <2>8. \A l \in Links : l # <<Base, c>> => ~ Has(net'[l])
        BY <1>1, <2>2, InvParts DEF Unique
    <2>9. \A p \in Props : \A v : Carries(p, v)' => v = value[Base][p]
        <3> TAKE p \in Props
        <3>1. Restored(m.delta)[p] = value[Base][p]
            <4>1. m.delta \in Deltas
                BY <2>1 DEF Messages
            <4> QED
                BY <2>1, <4>1, RestoredFacts
        <3>2. \A l \in Links : \A v : Brings(net'[l], p, v) => v = value[Base][p]
            BY <2>7, <2>8, <3>1, BringsHas
        <3> QED
            BY <1>1, <2>3, <3>2 DEF Carries, Active
    <2>10. /\ runtime' \in [Parts -> SUBSET Props] /\ runtime'[Base] = {}
          /\ \A d \in Cells : runtime'[d] = runtime[d]
        BY <1>3, InvParts, PartFacts DEF Cleared, Typed
    <2>11. Typed'
        BY <1>1, <1>3, <2>2, <2>10, InvParts DEF Typed
    <2>12. \A d \in Cells : /\ net'[<<d, Base>>] = <<>>
                            /\ net'[<<d, Ghost>>] = net[<<d, Ghost>>]
                            /\ d # c => net'[<<Base, d>>] = <<>>
        <3> TAKE d \in Cells
        <3>1. <<d, Base>> # <<Base, c>> /\ <<d, Ghost>> # <<Base, c>> /\ (d # c => <<Base, d>> # <<Base, c>>)
            BY PartFacts
        <3> QED
            BY <2>2, <2>3, <3>1, PartFacts DEF Untouched
    <2>13. OwnAlone'
        <3>1. About(<<>>, BaseProps) /\ About(<<>>, CellProps)
            BY DEF About
        <3>2. About(net'[<<Base, c>>], BaseProps)
            BY <2>1, <2>2, <2>4, SentAbout DEF q
        <3> QED
            BY <2>10, <2>12, <3>1, <3>2, InvParts DEF OwnAlone
    <2>14. Bounded'
        <3>1. \A x \in Parts, p \in Props : value'[x][p] <= Limit(p)
            BY <1>1, InvParts DEF Bounded
        <3>2. ASSUME NEW l \in Links, NEW p \in Props, NEW v \in Nat, In(net'[l], p, v)
              PROVE  In(net[l], p, v) \/ v <= Limit(p)
            <4>1. CASE l = <<Base, c>>
                BY <1>1, <2>1, <2>6, <3>1, <3>2, <4>1, PartFacts DEF Says
            <4>2. CASE l # <<Base, c>>
                BY <2>2, <3>2, <4>2
            <4> QED
                BY <4>1, <4>2
        <3> QED
            BY <1>1, <2>11, <3>1, <3>2, InvParts, BoundedKept
    <2>15. Unique'
        <3>1. \A l \in Links : Once(net'[l])
            BY <2>2, <2>7, InvParts DEF Unique
        <3> QED
            BY <1>1, <1>3, <2>3, <2>8, <3>1 DEF Unique, Active
    <2>16. Elsewhere'
        <3>1. \A t \in Cells : t # c => Untouched(t)'
            BY <1>1, <2>3, <2>12 DEF Untouched
        <3>2. \A s, t \in Cells : ~ Has(net'[<<s, t>>])
            BY <2>8, PartFacts
        <3> QED
            BY <1>3, <3>1, <3>2 DEF Elsewhere
    <2>17. NotBehind'
        <3> SUFFICES ASSUME NEW p \in CellProps, NEW v \in Nat, Carries(p, v)'
                     PROVE  /\ value'[Base][p] <= v
                            /\ \A d \in Cells, u \in Nat : In(net'[<<d, Base>>], p, u) => u <= v
            BY DEF NotBehind
        <3>1. v = value[Base][p] /\ value[Base][p] \in Nat
            BY <2>9, InvParts, PartFacts, Numbers
        <3>2. \A d \in Cells, u \in Nat : ~ In(net'[<<d, Base>>], p, u)
            BY <2>12, NothingSaid
        <3> QED
            BY <1>1, <3>1, <3>2
    <2>18. InOrder'
        <3>1. \A p : Sorted(<<>>, p)
            BY DEF Sorted
        <3>2. \A p : Sorted(net'[<<Base, c>>], p)
            BY <2>1, <2>2, <2>4, SentSorted DEF q
        <3> QED
            BY <1>1, <2>3, <2>12, <3>1, <3>2, NothingSaid DEF InOrder, Active
    <2>19. BodyHears' /\ BaseHears'
        BY <1>1, <2>9, PartFacts DEF BodyHears, BaseHears
    <2>20. GhostHears' /\ ClientHears'
        BY <1>1, <2>12, InvParts, GhostHearsKept, ClientHearsKept
    <2> QED
        BY <2>11, <2>13, <2>14, <2>15, <2>16, <2>17, <2>18, <2>19, <2>20 DEF Inv
<1> QED
    BY <1>2, <1>3 DEF RequestCreateCell

LEMMA HandleCellReadyStep ==
    ASSUME Inv, NEW c \in Cells, HandleCellReady(c)
    PROVE  Inv'
<1>1. /\ net[<<c, Base>>] # <<>> /\ Head(net[<<c, Base>>]).kind = "ready"
      /\ net' = Taken(c, Base) /\ cellCall' = c
      /\ UNCHANGED <<value, runtime, view, client, body, asked, shadow, wire, screen, writes,
                     migrations, missed, untold, unseen, unheard>>
    BY DEF HandleCellReady, Arrived, blockVars, boundVars, historyVars
<1> DEFINE q == net[<<c, Base>>]
           m == Head(q)
<1>2. /\ net' \in [Links -> Seq(Messages)]
      /\ q \in Seq(Messages) /\ m \in Messages /\ ~ IsCargo(m)
      /\ net'[<<c, Base>>] = Tail(q)
      /\ \A l \in Links : l # <<c, Base>> => net'[l] = net[l]
      /\ \A l \in Links : \A p, v : In(net'[l], p, v) => In(net[l], p, v)
      /\ \A l \in Links : \A p, v :
            In(net[l], p, v) => In(net'[l], p, v) \/ (l = <<c, Base>> /\ Says(m, p, v))
      /\ \A l \in Links : /\ Has(net'[l]) => Has(net[l])
                          /\ Once(net[l]) => Once(net'[l])
                          /\ \A p, v : Brings(net'[l], p, v) => Brings(net[l], p, v)
    <2>1. c \in Parts /\ Base \in Parts /\ Typed
        BY InvParts, PartFacts
    <2> QED
        BY <1>1, <2>1, Taking DEF IsCargo
<1>3. \A p, v : ~ Says(m, p, v)
    BY <1>1, <1>2 DEF Says, Messages
<1> HIDE DEF q, m
<1>4. \A l \in Links : \A p, v : In(net'[l], p, v) <=> In(net[l], p, v)
    BY <1>2, <1>3
<1>5. Typed'
    BY <1>1, <1>2, InvParts DEF Typed
<1>6. \A d \in Cells : /\ net'[<<Base, d>>] = net[<<Base, d>>]
                       /\ net'[<<d, Ghost>>] = net[<<d, Ghost>>]
                       /\ d # c => net'[<<d, Base>>] = net[<<d, Base>>]
    BY <1>2, PartFacts
<1>7. OwnAlone'
    <2>1. About(net'[<<c, Base>>], CellProps)
        BY <1>1, <1>2, InvParts, TakenAbout DEF OwnAlone, q
    <2> QED
        BY <1>1, <1>6, <2>1, InvParts DEF OwnAlone
<1>8. Bounded'
    BY <1>1, <1>2, <1>5, InvParts, BoundedKept DEF Bounded
<1>9. Unique'
    BY <1>1, <1>2, InvParts, UniqueKept
<1>10. Elsewhere'
    <2>1. \A t \in Cells : Untouched(t) => t # c
        BY <1>1 DEF Untouched
    <2>2. \A t \in Cells : Untouched(t) => Untouched(t)'
        BY <1>1, <1>6, <2>1 DEF Untouched
    <2> QED
        BY <1>1, <1>2, <2>2, InvParts, PartFacts, ElsewhereKept
<1>11. \A p, v : Carries(p, v)' => Carries(p, v)
    BY <1>1, <1>2, CarriesKept
<1>12. NotBehind' /\ BodyHears' /\ BaseHears' /\ GhostHears' /\ ClientHears'
    <2>1. \A p \in BaseProps : value[Base][p] \in Nat
        BY InvParts, PartFacts, Numbers
    <2>2. NotBehind' /\ BodyHears' /\ BaseHears'
        BY <1>1, <1>4, <1>11, <2>1, InvParts, PartFacts, NotBehindKept, BodyHearsKept, BaseHearsKept
    <2> QED
        BY <1>1, <1>6, <2>2, InvParts, GhostHearsKept, ClientHearsKept
<1>13. InOrder'
    <2>1. ASSUME migrations = 0, NEW d \in Cells, NEW p \in CellProps
          PROVE  Sorted(net'[<<d, Base>>], p)
        <3>1. Sorted(net[<<d, Base>>], p)
            BY <2>1, InvParts DEF InOrder
        <3>2. CASE d = c
            BY <1>1, <1>2, <3>1, <3>2, TakenSorted DEF q
        <3> QED
            BY <1>6, <3>1, <3>2
    <2> QED
        BY <1>1, <1>4, <1>6, <2>1, InvParts, PartFacts DEF InOrder, Active
<1> QED
    BY <1>5, <1>7, <1>8, <1>9, <1>10, <1>12, <1>13 DEF Inv

LEMMA SyncFromCellStep ==
    ASSUME Inv, NEW c \in Cells, SyncFromCell(c)
    PROVE  Inv'
<1> DEFINE q == net[<<c, Base>>]
           m == Head(q)
<1>1. /\ q # <<>> /\ m.kind = "sync"
      /\ net' = Taken(c, Base) /\ value' = Applied(Base, m.delta)
      /\ client' = client \cup DOMAIN m.delta /\ untold' = untold \cup Late(c, m.delta)
      /\ UNCHANGED <<runtime, view, body, asked, cellCall, shadow, wire, screen, writes,
                     migrations, missed, unseen, unheard>>
    BY DEF SyncFromCell, Arrived, Payload, placeVars, boundVars
<1>2. /\ net' \in [Links -> Seq(Messages)]
      /\ q \in Seq(Messages) /\ m \in Messages /\ ~ IsCargo(m)
      /\ net'[<<c, Base>>] = Tail(q)
      /\ \A l \in Links : l # <<c, Base>> => net'[l] = net[l]
      /\ \A l \in Links : \A p, v : In(net'[l], p, v) => In(net[l], p, v)
      /\ \A l \in Links : \A p, v :
            In(net[l], p, v) => In(net'[l], p, v) \/ (l = <<c, Base>> /\ Says(m, p, v))
      /\ \A p, v : Says(m, p, v) => In(q, p, v)
      /\ \A l \in Links : /\ Has(net'[l]) => Has(net[l])
                          /\ Once(net[l]) => Once(net'[l])
                          /\ \A p, v : Brings(net'[l], p, v) => Brings(net[l], p, v)
    <2>1. c \in Parts /\ Base \in Parts /\ Typed
        BY InvParts, PartFacts
    <2> QED
        BY <1>1, <2>1, Taking DEF IsCargo
<1>3. DOMAIN m.delta \subseteq CellProps /\ m.delta \in Deltas
    <2>1. About(q, CellProps)
        BY InvParts DEF OwnAlone
    <2> QED
        BY <1>1, <1>2, <2>1, TakenAbout DEF Messages
<1>4. \A p \in DOMAIN m.delta : m.delta[p] \in Nat /\ In(q, p, m.delta[p])
    BY <1>2, <1>3, DeltaFacts DEF Says
<1>5. /\ value' \in [Parts -> [Props -> Nat]]
      /\ \A p \in Props : value'[Base][p] = IF p \in DOMAIN m.delta THEN m.delta[p] ELSE value[Base][p]
      /\ \A x \in Parts : x # Base => value'[x] = value[x]
    <2>1. value[Base] \in [Props -> Nat] /\ value \in [Parts -> [Props -> Nat]]
        BY InvParts, PartFacts DEF Typed
    <2>2. value' = [value EXCEPT ![Base] = Over(m.delta, value[Base])]
        BY <1>1 DEF Applied
    <2>3. /\ Over(m.delta, value[Base]) \in [Props -> Nat]
          /\ \A p \in Props : Over(m.delta, value[Base])[p] =
                                IF p \in DOMAIN m.delta THEN m.delta[p] ELSE value[Base][p]
        BY <1>3, <2>1, OverFacts
    <2> HIDE DEF m
    <2> QED
        BY <2>1, <2>2, <2>3, PartFacts
<1> HIDE DEF m
<1>6. Typed'
    <2>1. client' \in SUBSET Props
        BY <1>1, <1>3, InvParts, PartFacts DEF Typed
    <2> QED
        BY <1>1, <1>2, <1>5, <2>1, InvParts DEF Typed
<1>7. /\ \A p \in BaseProps : value'[Base][p] = value[Base][p]
      /\ \A d \in Cells : /\ value'[d] = value[d]
                          /\ net'[<<Base, d>>] = net[<<Base, d>>]
                          /\ net'[<<d, Ghost>>] = net[<<d, Ghost>>]
                          /\ d # c => net'[<<d, Base>>] = net[<<d, Base>>]
    BY <1>2, <1>3, <1>5, PartFacts
<1>8. OwnAlone'
    <2>1. About(net'[<<c, Base>>], CellProps)
        BY <1>1, <1>2, InvParts, TakenAbout DEF OwnAlone
    <2> QED
        BY <1>1, <1>7, <2>1, InvParts DEF OwnAlone
<1>9. Bounded'
    <2>1. ASSUME NEW x \in Parts, NEW p \in Props
          PROVE  value'[x][p] <= Limit(p)
        <3>1. CASE x = Base /\ p \in DOMAIN m.delta
            BY <1>4, <1>5, <3>1, InvParts, PartFacts DEF Bounded
        <3>2. CASE ~ (x = Base /\ p \in DOMAIN m.delta)
            BY <1>5, <3>2, InvParts DEF Bounded
        <3> QED
            BY <3>1, <3>2
    <2> QED
        BY <1>1, <1>2, <1>6, <1>7, <2>1, InvParts, BoundedKept
<1>10. Unique' /\ Elsewhere'
    <2>1. \A t \in Cells : Untouched(t) => Untouched(t)'
        BY <1>1, <1>7 DEF Untouched
    <2> QED
        BY <1>1, <1>2, <2>1, InvParts, PartFacts, UniqueKept, ElsewhereKept
<1>11. \A p, v : Carries(p, v)' => Carries(p, v)
    BY <1>1, <1>2, <1>7, CarriesKept
<1>12. NotBehind'
    <2> SUFFICES ASSUME NEW p \in CellProps, migrations' = 0 \/ p \notin untold',
                        NEW v \in Nat, Carries(p, v)'
                 PROVE  /\ value'[Base][p] <= v
                        /\ \A d \in Cells, u \in Nat : In(net'[<<d, Base>>], p, u) => u <= v
        BY DEF NotBehind
    <2>1. /\ value[Base][p] <= v
          /\ \A d \in Cells, u \in Nat : In(net[<<d, Base>>], p, u) => u <= v
        BY <1>1, <1>11, InvParts DEF NotBehind
    <2> QED
        BY <1>2, <1>4, <1>5, <2>1, PartFacts
<1>13. InOrder'
    <2> SUFFICES ASSUME migrations = 0, NEW d \in Cells, NEW p \in CellProps
                 PROVE  /\ Sorted(net'[<<d, Base>>], p)
                        /\ \A v \in Nat : In(net'[<<d, Base>>], p, v) => value'[Base][p] <= v
        BY <1>1, <1>7, InvParts, PartFacts DEF InOrder, Active
    <2>1. /\ Sorted(net[<<d, Base>>], p)
          /\ \A v \in Nat : In(net[<<d, Base>>], p, v) => value[Base][p] <= v
        BY InvParts DEF InOrder
    <2>2. CASE d = c
        <3>1. Sorted(q, p)
            BY <2>1, <2>2
        <3>2. /\ Sorted(Tail(q), p)
              /\ p \in DOMAIN m.delta => \A v : In(Tail(q), p, v) => m.delta[p] <= v
            BY <1>1, <1>2, <3>1, TakenSorted DEF m
        <3> QED
            BY <1>2, <1>5, <2>1, <2>2, <3>2, PartFacts
    <2>3. CASE d # c
        <3>1. ~ Untouched(c)
            BY <1>1 DEF Untouched
        <3>2. Untouched(d)
            BY <2>3, <3>1, InvParts DEF Elsewhere
        <3>3. net'[<<d, Base>>] = <<>>
            BY <1>7, <2>3, <3>2 DEF Untouched
        <3> QED
            BY <1>7, <2>1, <2>3, <3>3, NothingSaid
    <2> QED
        BY <2>2, <2>3
<1>14. BodyHears'
    <2>1. \A p \in BaseProps : value[Base][p] \in Nat
        BY InvParts, PartFacts, Numbers
    <2> QED
        BY <1>1, <1>7, <1>11, <2>1, InvParts, PartFacts, BodyHearsKept
<1>15. BaseHears'
    <2> SUFFICES ASSUME NEW p \in CellProps, p \notin untold', NEW v \in Nat, Carries(p, v)'
                 PROVE  \/ value'[Base][p] = v
                        \/ \E d \in Cells : Active(d) /\ p \in runtime[d]
                        \/ \E d \in Cells : In(net'[<<d, Base>>], p, v)
        BY <1>1 DEF BaseHears, Active
    <2>1. /\ p \notin untold /\ p \notin Late(c, m.delta) /\ Carries(p, v) /\ p \in Props
          /\ value[Base][p] \in Nat
        BY <1>1, <1>11, InvParts, PartFacts, Numbers
    <2>2. CASE \E d \in Cells : Active(d) /\ p \in runtime[d]
        BY <2>2
    <2>3. CASE \E d \in Cells : In(net[<<d, Base>>], p, v)
        <3>1. PICK d \in Cells : In(net[<<d, Base>>], p, v)
            BY <2>3
        <3>2. In(net'[<<d, Base>>], p, v) \/ Says(m, p, v)
            BY <1>2, <3>1, PartFacts
        <3> QED
            BY <1>5, <2>1, <3>2 DEF Says
    <2>4. CASE value[Base][p] = v /\ p \in DOMAIN m.delta
        <3>1. m.delta[p] <= v /\ m.delta[p] \in Nat /\ In(q, p, m.delta[p])
            BY <1>4, <2>1, <2>4, InvParts DEF NotBehind
        <3>2. v <= m.delta[p]
            <4>1. CASE migrations = 0
                BY <2>4, <3>1, <4>1, InvParts DEF InOrder
            <4>2. CASE migrations # 0
                <5>1. ~ (m.delta[p] < value[Base][p])
                    BY <2>1, <2>4, <4>2 DEF Late
                <5> QED
                    BY <2>1, <2>4, <3>1, <5>1
            <4> QED
                BY <4>1, <4>2
        <3>3. m.delta[p] = v
            BY <3>1, <3>2
        <3> QED
            BY <1>5, <2>1, <2>4, <3>3
    <2>5. CASE value[Base][p] = v /\ p \notin DOMAIN m.delta
        BY <1>5, <2>1, <2>5
    <2> QED
        BY <2>1, <2>2, <2>3, <2>4, <2>5, InvParts DEF BaseHears
<1>16. GhostHears' /\ ClientHears'
    BY <1>1, <1>5, <1>7, InvParts, PartFacts, GhostHearsKept, ClientHearsKept
<1> QED
    BY <1>6, <1>8, <1>9, <1>10, <1>12, <1>13, <1>14, <1>15, <1>16 DEF Inv

-----------------------------------------------------------------------------
(* The steps of the body.                                                    *)

\* A script of the body may write.
LEMMA BoundedGrows ==
    ASSUME Typed, Typed', Bounded, writes' = writes \/ writes' = writes + 1, writes' <= MaxWrites,
           value'[Base] = value[Base],
           \A x \in Parts, p \in Props :
               value'[x][p] <= Limit(p) \/ (p \in CellProps /\ value'[x][p] = writes'),
           \A l \in Links, p \in Props, v \in Nat : In(net'[l], p, v) => In(net[l], p, v)
    PROVE  Bounded'
<1>1. writes \in Nat /\ writes' \in Nat /\ writes <= writes'
    BY DEF Typed
<1>2. ASSUME NEW p \in Props
      PROVE  /\ Limit(p) \in Nat /\ Limit(p)' \in Nat /\ Limit(p) <= Limit(p)'
             /\ p \in CellProps => Limit(p)' = writes'
             /\ value'[Base][p] <= writes'
    <2>1. value[Base][p] \in Nat /\ value[Base][p] <= writes
        BY PartFacts, Numbers DEF Bounded
    <2> QED
        BY <1>1, <2>1, PartFacts DEF Limit
<1>3. ASSUME NEW x \in Parts, NEW p \in Props
      PROVE  value'[x][p] <= Limit(p)'
    <2>1. value'[x][p] \in Nat
        BY DEF Typed
    <2> QED
        BY <1>1, <1>2, <2>1
<1>4. ASSUME NEW l \in Links, NEW p \in Props, NEW v \in Nat, In(net'[l], p, v)
      PROVE  v <= Limit(p)'
    <2>1. v <= Limit(p)
        BY <1>4 DEF Bounded
    <2> QED
        BY <1>2, <2>1
<1> QED
    BY <1>2, <1>3, <1>4 DEF Bounded

LEMMA CellWriteStep ==
    ASSUME Inv, NEW c \in Cells, NEW q \in Props, CellWrite(c, q)
    PROVE  Inv'
<1>1. /\ q \in CellProps /\ body[c] = "Active" /\ writes < MaxWrites /\ writes' = writes + 1
      /\ untold' = untold \ {q} /\ unseen' = unseen \ {q}
      /\ UNCHANGED <<client, body, asked, cellCall, shadow, net, wire, screen, migrations,
                     missed, unheard>>
    BY DEF CellWrite, Set, Active, placeVars
<1>2. value' \in [Parts -> [Props -> Nat]] /\ runtime' \in [Parts -> SUBSET Props]
      /\ view' \in [Parts -> SUBSET Props]
    BY InvParts, PartFacts DEF CellWrite, Set, Marked, Typed
<1>3. /\ value'[c][q] = writes + 1
      /\ \A p \in Props : p # q => value'[c][p] = value[c][p]
      /\ \A x \in Parts : x # c => value'[x] = value[x]
      /\ runtime'[c] = runtime[c] \cup {q} /\ view'[c] = view[c] \cup {q}
      /\ \A x \in Parts : x # c => runtime'[x] = runtime[x] /\ view'[x] = view[x]
    BY InvParts, PartFacts DEF CellWrite, Set, Marked, Typed
<1>4. Typed'
    <2>1. writes' \in Nat
        BY <1>1, InvParts DEF Typed
    <2> QED
        BY <1>1, <1>2, <2>1, InvParts DEF Typed
<1>5. value'[Base] = value[Base] /\ value'[Ghost] = value[Ghost]
    BY <1>3, PartFacts
<1>6. /\ \A d \in Cells : Active(d) => d = c
      /\ \A l \in Links : ~ Has(net[l])
    BY <1>1, InvParts DEF Unique, Active
<1>7. \A p, v : Carries(p, v)' <=> v = value'[c][p]
    BY <1>1, <1>6, BringsHas DEF Carries, Active
<1>8. \A p, v : Carries(p, v) <=> v = value[c][p]
    BY <1>1, <1>6, BringsHas DEF Carries, Active
<1>9. OwnAlone'
    BY <1>1, <1>3, InvParts, PartFacts DEF OwnAlone
<1>10. Bounded'
    <2>1. writes' <= MaxWrites
        BY <1>1, InvParts, PartFacts, Numbers
    <2>2. ASSUME NEW x \in Parts, NEW p \in Props
          PROVE  value'[x][p] <= Limit(p) \/ (p \in CellProps /\ value'[x][p] = writes')
        BY <1>1, <1>3, InvParts, PartFacts DEF Bounded
    <2> QED
        BY <1>1, <1>4, <1>5, <2>1, <2>2, InvParts, BoundedGrows
<1>11. Unique' /\ Elsewhere'
    BY <1>1, InvParts DEF Unique, Elsewhere, Untouched, Active
<1>12. NotBehind'
    <2> SUFFICES ASSUME NEW p \in CellProps, migrations = 0 \/ p \notin untold'
                 PROVE  /\ value[Base][p] <= value'[c][p]
                        /\ \A d \in Cells, u \in Nat : In(net[<<d, Base>>], p, u) => u <= value'[c][p]
        BY <1>1, <1>5, <1>7 DEF NotBehind
    <2>1. CASE p = q
        <3>1. writes \in Nat /\ value[Base][q] \in Nat /\ value[Base][q] <= writes
              /\ Limit(q) = writes
            BY <1>1, InvParts, PartFacts, Numbers DEF Bounded, Limit
        <3>2. \A d \in Cells, u \in Nat : In(net[<<d, Base>>], q, u) => u <= writes
            BY <3>1, InvParts, PartFacts DEF Bounded
        <3> QED
            BY <1>3, <2>1, <3>1, <3>2
    <2>2. CASE p # q
        <3>1. value[c][p] \in Nat /\ value'[c][p] = value[c][p]
            BY <1>3, <2>2, InvParts, PartFacts, Numbers
        <3> QED
            BY <1>1, <1>8, <2>2, <3>1, InvParts DEF NotBehind
    <2> QED
        BY <2>1, <2>2
<1>13. InOrder'
    <2>1. \A d \in Cells, p \in BaseProps : value'[d][p] = value[d][p]
        BY <1>1, <1>3, PartFacts
    <2> QED
        BY <1>1, <1>5, <2>1, InvParts, InOrderKept
<1>14. BodyHears'
    <2> SUFFICES ASSUME NEW p \in BaseProps \ missed
                 PROVE  \/ value'[c][p] = value[Base][p]
                        \/ p \in runtime[Base]
                        \/ \E d \in Cells : In(net[<<Base, d>>], p, value[Base][p])
        BY <1>1, <1>3, <1>5, <1>7, PartFacts DEF BodyHears
    <2>1. value'[c][p] = value[c][p] /\ value[c][p] \in Nat
        BY <1>1, <1>3, InvParts, PartFacts, Numbers
    <2> QED
        BY <1>8, <2>1, InvParts DEF BodyHears
<1>15. BaseHears'
    <2> SUFFICES ASSUME NEW p \in CellProps, p \notin untold', p \notin runtime'[c]
                 PROVE  \/ value[Base][p] = value'[c][p]
                        \/ \E d \in Cells : In(net[<<d, Base>>], p, value'[c][p])
        BY <1>1, <1>5, <1>7 DEF BaseHears, Active
    <2>1. value'[c][p] = value[c][p] /\ value[c][p] \in Nat /\ p \notin runtime[c] /\ p \notin untold
        BY <1>1, <1>3, InvParts, PartFacts, Numbers
    <2> QED
        BY <1>6, <1>8, <2>1, InvParts DEF BaseHears
<1>16. GhostHears'
    <2> SUFFICES ASSUME NEW d \in shadow
                 PROVE  /\ body[d] # "None"
                        /\ Active(d) => \A p \in Props \ unseen' :
                            \/ p \in view'[d]
                            \/ Latest(net[<<d, Ghost>>], value[Ghost][p], p, value'[d][p])
        BY <1>1, <1>5 DEF GhostHears, Active
    <2>1. d \in Cells /\ body[d] # "None"
        BY InvParts DEF Typed, GhostHears
    <2>2. ASSUME Active(d), NEW p \in Props \ unseen', p \notin view'[d]
          PROVE  Latest(net[<<d, Ghost>>], value[Ghost][p], p, value'[d][p])
        <3>1. d = c
            BY <1>6, <2>1, <2>2
        <3>2. p # q /\ p \notin unseen /\ p \notin view[c]
            BY <1>1, <1>3, <2>2, <3>1
        <3>3. value'[d][p] = value[d][p]
            BY <1>3, <3>1, <3>2
        <3> QED
            BY <2>2, <3>1, <3>2, <3>3, InvParts DEF GhostHears
    <2> QED
        BY <2>1, <2>2
<1>17. ClientHears'
    BY <1>1, <1>5, InvParts, ClientHearsKept
<1> QED
    BY <1>4, <1>9, <1>10, <1>11, <1>12, <1>13, <1>14, <1>15, <1>16, <1>17 DEF Inv

LEMMA EnsureRealGhostStep ==
    ASSUME Inv, NEW c \in Cells, EnsureRealGhost(c)
    PROVE  Inv'
<1>1. /\ body[c] = "Active" /\ shadow' = shadow \cup {c}
      /\ unseen' = {p \in Props \ view[c] : value[Ghost][p] # value[c][p] \/ ToCome(Ghost, p)}
      /\ UNCHANGED <<value, runtime, view, client, body, asked, cellCall, net, wire, screen,
                     writes, migrations, missed, untold, unheard>>
    BY DEF EnsureRealGhost, Active, blockVars, boundVars
<1>2. Typed'
    BY <1>1, InvParts DEF Typed
<1>3. OwnAlone' /\ Bounded' /\ Unique' /\ Elsewhere'
    BY <1>1, InvParts DEF OwnAlone, Bounded, Limit, Unique, Elsewhere, Untouched, Active
<1>4. \A p, v : Carries(p, v)' <=> Carries(p, v)
    BY <1>1, CarriesSame
<1>5. NotBehind' /\ InOrder' /\ BodyHears' /\ BaseHears' /\ ClientHears'
    BY <1>1, <1>4, InvParts DEF NotBehind, InOrder, BodyHears, BaseHears, ClientHears,
                                Updates, Active
<1>6. GhostHears'
    <2> SUFFICES ASSUME NEW d \in shadow'
                 PROVE  /\ body[d] # "None"
                        /\ Active(d) => \A p \in Props \ unseen' :
                            \/ p \in view[d]
                            \/ Latest(net[<<d, Ghost>>], value[Ghost][p], p, value[d][p])
        BY <1>1 DEF GhostHears, Active
    <2>1. body[d] # "None"
        BY <1>1, InvParts DEF GhostHears
    <2>2. ASSUME Active(d), NEW p \in Props \ unseen', p \notin view[d]
          PROVE  Latest(net[<<d, Ghost>>], value[Ghost][p], p, value[d][p])
        <3>1. d = c
            <4>1. d \in Cells
                BY <1>1, InvParts DEF Typed
            <4> QED
                BY <1>1, <2>2, <4>1, InvParts DEF Unique, Active
        <3>2. value[Ghost][p] = value[d][p] /\ ~ ToCome(Ghost, p)
            BY <1>1, <2>2, <3>1
        <3>3. ASSUME NEW i \in DOMAIN net[<<c, Ghost>>], p \in DOMAIN net[<<c, Ghost>>][i].delta
              PROVE  FALSE
            <4> DEFINE v == net[<<c, Ghost>>][i].delta[p]
            <4>1. /\ net[<<c, Ghost>>][i] \in Messages /\ <<c, Ghost>> \in Links
                  /\ c \in Parts
                <5>1. net[<<c, Ghost>>] \in Seq(Messages) /\ <<c, Ghost>> \in Links /\ c \in Parts
                    BY InvParts, PartFacts DEF Typed
                <5> QED
                    BY <3>3, <5>1
            <4>2. v \in Nat
                <5>1. net[<<c, Ghost>>][i].delta \in Deltas
                    BY <4>1 DEF Messages
                <5> QED
                    BY <3>3, <5>1, DeltaFacts
            <4>3. In(net[<<c, Ghost>>], p, v)
                BY <3>3 DEF In, Says
            <4>4. v <= MaxWrites
                <5>1. v <= Limit(p) /\ writes <= MaxWrites /\ value[Base][p] <= writes
                    BY <4>1, <4>2, <4>3, InvParts DEF Bounded
                <5>2. writes \in Nat /\ value[Base][p] \in Nat /\ MaxWrites \in Nat
                    BY InvParts, PartFacts, Numbers
                <5> QED
                    BY <4>2, <5>1, <5>2 DEF Limit
            <4>5. UnderWay(Ghost, p, v)
                BY <3>3, <4>1 DEF UnderWay
            <4>6. v \in 0..MaxWrites
                BY <4>2, <4>4, PartFacts
            <4> HIDE DEF v
            <4> QED
                BY <3>2, <4>5, <4>6 DEF ToCome
        <3> QED
            BY <3>1, <3>2, <3>3 DEF Latest
    <2> QED
        BY <2>1, <2>2
<1> QED
    BY <1>2, <1>3, <1>5, <1>6 DEF Inv

\* What an answer without a delta leaves.
LEMMA QuietKeeps ==
    ASSUME NEW n \in [Links -> Seq(Messages)], NEW x \in Parts, NEW y \in Parts,
           NEW kind \in {"ready", "commit"}
    PROVE  LET s == Sent(n, x, y, Quiet(kind)) IN
           /\ s \in [Links -> Seq(Messages)]
           /\ s[<<x, y>>] = Append(n[<<x, y>>], Quiet(kind))
           /\ \A l \in Links : l # <<x, y>> => s[l] = n[l]
           /\ \A l \in Links :
                /\ Has(s[l]) <=> Has(n[l])
                /\ \A p, v : Brings(s[l], p, v) <=> Brings(n[l], p, v)
                /\ \A p, v : In(s[l], p, v) <=> In(n[l], p, v)
                /\ \A S : About(n[l], S) => About(s[l], S)
                /\ \A p : Sorted(n[l], p) => Sorted(s[l], p)
                /\ \A u, p, v : Latest(n[l], u, p, v) => Latest(s[l], u, p, v)
<1> DEFINE m == Quiet(kind)
           s == Sent(n, x, y, m)
<1>1. /\ m \in Messages /\ ~ IsCargo(m) /\ m.kind # "sync"
      /\ m.delta = <<>> /\ DOMAIN m.delta = {}
    BY DeltaFacts DEF Quiet, Message, Messages, Kinds, IsCargo
<1> HIDE DEF m
<1>2. /\ s \in [Links -> Seq(Messages)]
      /\ s[<<x, y>>] = Append(n[<<x, y>>], m)
      /\ \A l \in Links : l # <<x, y>> => s[l] = n[l]
    BY <1>1, SentFacts
<1>3. \A l \in Links :
        /\ Has(s[l]) <=> Has(n[l])
        /\ \A p, v : Brings(s[l], p, v) <=> Brings(n[l], p, v)
        /\ \A p, v : In(s[l], p, v) <=> In(n[l], p, v)
    BY <1>1, SentKeeps DEF Says
<1> HIDE DEF s
<1>4. ASSUME NEW l \in Links
      PROVE  /\ \A S : About(n[l], S) => About(s[l], S)
             /\ \A p : Sorted(n[l], p) => Sorted(s[l], p)
             /\ \A u, p, v : Latest(n[l], u, p, v) => Latest(s[l], u, p, v)
    <2>1. CASE l # <<x, y>>
        BY <1>2, <2>1
    <2>2. CASE l = <<x, y>>
        <3>1. n[l] \in Seq(Messages) /\ s[l] = Append(n[l], m)
            BY <1>2, <2>2
        <3>2. \A S : About(n[l], S) => About(s[l], S)
            BY <1>1, <3>1, SentAbout
        <3>3. \A p : Sorted(n[l], p) => Sorted(s[l], p)
            BY <1>1, <3>1, SentSorted
        <3>4. \A u, p, v : Latest(n[l], u, p, v) => Latest(s[l], u, p, v)
            BY <1>1, <3>1, SentLatest
        <3> QED
            BY <3>2, <3>3, <3>4
    <2> QED
        BY <2>1, <2>2
<1> QED
    BY <1>2, <1>3, <1>4 DEF s, m

LEMMA HandleCreateCellStep ==
    ASSUME Inv, NEW c \in Cells, HandleCreateCell(c)
    PROVE  Inv'
<1> DEFINE q == net[<<Base, c>>]
           m == Head(q)
           snapshot == m.delta
<1>1. PICK early \in {{}} \cup {{p} : p \in CellProps} :
        /\ q # <<>> /\ m.kind = "create" /\ body[c] = "None"
        /\ writes + Cardinality(early) <= MaxWrites
        /\ writes' = writes + Cardinality(early)
        /\ value' = [value EXCEPT ![c] = Over(snapshot,
                        [p \in Props |-> IF p \in early THEN writes' ELSE 0])]
        /\ untold' = untold \cup (early \ DOMAIN snapshot)
        /\ body' = [body EXCEPT ![c] = "Active"]
        /\ net' = Sent(Taken(Base, c), c, Base, Quiet("ready"))
        /\ UNCHANGED <<runtime, view, client, asked, cellCall, shadow, wire, screen,
                       migrations, missed, unseen, unheard>>
    BY DEF HandleCreateCell, Arrived, Payload
<1>2. /\ early \subseteq CellProps
      /\ \/ writes' = writes
         \/ writes' = writes + 1
      /\ writes' <= MaxWrites /\ writes \in Nat /\ writes' \in Nat
    <2>1. Cardinality(early) = 0 \/ Cardinality(early) = 1
        <3>1. CASE early = {}
            BY <3>1, FS_EmptySet
        <3>2. CASE early # {}
            <4>1. PICK p \in CellProps : early = {p}
                BY <3>2
            <4> QED
                BY <4>1, FS_Singleton
        <3> QED
            BY <3>1, <3>2
    <2>2. writes \in Nat /\ early \subseteq CellProps
        BY InvParts, Numbers
    <2> HIDE DEF m
    <2> QED
        BY <1>1, <2>1, <2>2
<1>3. /\ q \in Seq(Messages) /\ m \in Messages /\ IsCargo(m) /\ snapshot \in Deltas
      /\ net \in [Links -> Seq(Messages)]
    <2>1. q \in Seq(Messages) /\ net \in [Links -> Seq(Messages)]
        BY InvParts, PartFacts DEF Typed
    <2>2. m \in Messages
        BY <1>1, <2>1, TailFacts
    <2> QED
        BY <1>1, <2>1, <2>2 DEF IsCargo, Messages
<1> DEFINE n == Taken(Base, c)
<1>4. /\ n \in [Links -> Seq(Messages)] /\ n[<<Base, c>>] = Tail(q)
      /\ \A l \in Links : l # <<Base, c>> => n[l] = net[l]
    BY <1>1, <1>3, PartFacts, TakenFacts
<1>5. /\ \A p, v : In(q, p, v) <=> Says(m, p, v) \/ In(Tail(q), p, v)
      /\ Has(q) /\ (Once(q) => ~ Has(Tail(q)))
      /\ \A p : Brings(q, p, Restored(snapshot)[p])
    BY <1>1, <1>3, TakenSays, TakenCargo
<1> HIDE DEF m, n
<1>6. net' = Sent(n, c, Base, Quiet("ready")) /\ c \in Parts /\ Base \in Parts
      /\ "ready" \in {"ready", "commit"}
    BY <1>1, PartFacts DEF n
<1>7. /\ net' \in [Links -> Seq(Messages)]
      /\ net'[<<c, Base>>] = Append(n[<<c, Base>>], Quiet("ready"))
      /\ \A l \in Links : l # <<c, Base>> => net'[l] = n[l]
      /\ \A l \in Links :
           /\ Has(net'[l]) <=> Has(n[l])
           /\ \A p, v : In(net'[l], p, v) <=> In(n[l], p, v)
           /\ \A S : About(n[l], S) => About(net'[l], S)
           /\ \A p : Sorted(n[l], p) => Sorted(net'[l], p)
    BY <1>4, <1>6, QuietKeeps
<1>8. <<Base, c>> \in Links /\ <<c, Base>> \in Links /\ <<Base, c>> # <<c, Base>>
    BY PartFacts
\* The entity was in the message.
<1>9. /\ \A d \in Cells : ~ Active(d)
      /\ \A l \in Links : l # <<Base, c>> => ~ Has(net[l])
      /\ Once(q) /\ asked = TRUE
    BY <1>5, <1>8, InvParts DEF Unique, Typed
<1>10. \A l \in Links : ~ Has(net'[l])
    BY <1>4, <1>5, <1>7, <1>9
<1>11. body' \in [Cells -> {"None", "Active", "Migrating"}] /\ body'[c] = "Active"
       /\ \A d \in Cells : d # c => body'[d] = body[d]
    BY <1>1, InvParts DEF Typed
<1>12. \A d \in Cells : body'[d] = "Active" => d = c
    BY <1>9, <1>11 DEF Active
<1>13. \A p, v : Carries(p, v)' <=> v = value'[c][p]
    BY <1>10, <1>11, <1>12, BringsHas DEF Carries, Active
<1>14. \A p : Carries(p, Restored(snapshot)[p])
    BY <1>5, <1>8 DEF Carries
<1>15. /\ value' \in [Parts -> [Props -> Nat]]
       /\ \A x \in Parts : x # c => value'[x] = value[x]
       /\ \A p \in Props : value'[c][p] = IF p \in DOMAIN snapshot THEN snapshot[p]
                                          ELSE IF p \in early THEN writes' ELSE 0
    <2> DEFINE f == [p \in Props |-> IF p \in early THEN writes' ELSE 0]
    <2>1. f \in [Props -> Nat]
        BY <1>2
    <2>2. Over(snapshot, f) \in [Props -> Nat]
          /\ \A p \in Props : Over(snapshot, f)[p] = IF p \in DOMAIN snapshot THEN snapshot[p] ELSE f[p]
        BY <1>3, <2>1, OverFacts
    <2>3. \A p \in Props : f[p] = IF p \in early THEN writes' ELSE 0
        OBVIOUS
    <2>4. value' = [value EXCEPT ![c] = Over(snapshot, f)]
        BY <1>1
    <2> HIDE DEF f, snapshot
    <2>5. value \in [Parts -> [Props -> Nat]] /\ c \in Parts
        BY InvParts, PartFacts DEF Typed
    <2> QED
        BY <2>2, <2>3, <2>4, <2>5
<1>16. \A p \in DOMAIN snapshot : p \in Props /\ snapshot[p] \in Nat /\ In(q, p, snapshot[p])
    <2>1. \A p \in DOMAIN snapshot : p \in Props /\ snapshot[p] \in Nat
        BY <1>3, DeltaFacts
    <2> QED
        BY <1>5, <2>1 DEF Says
<1>17. \A p \in Props : \/ value'[c][p] = Restored(snapshot)[p]
                        \/ p \in CellProps /\ p \in untold' /\ value'[c][p] = writes'
    <2> TAKE p \in Props
    <2>1. Restored(snapshot)[p] = IF p \in DOMAIN snapshot THEN snapshot[p] ELSE 0
        BY <1>3, RestoredFacts
    <2> QED
        BY <1>1, <1>2, <1>15, <2>1
<1> HIDE DEF snapshot
<1>18. Typed'
    BY <1>1, <1>2, <1>7, <1>11, <1>15, InvParts DEF Typed
<1>19. \A d \in Cells : /\ About(net[<<Base, d>>], BaseProps) /\ About(net[<<d, Base>>], CellProps)
                        /\ <<d, Base>> # <<Base, c>> /\ <<Base, d>> # <<c, Base>>
                        /\ d # c => <<Base, d>> # <<Base, c>> /\ <<d, Base>> # <<c, Base>>
                        /\ <<d, Base>> \in Links /\ <<Base, d>> \in Links
    BY InvParts, PartFacts DEF OwnAlone
<1>20. OwnAlone'
    <2>1. About(n[<<Base, c>>], BaseProps)
        BY <1>1, <1>3, <1>4, <1>19, TakenAbout DEF m
    <2>2. \A d \in Cells : About(n[<<Base, d>>], BaseProps) /\ About(n[<<d, Base>>], CellProps)
        BY <1>4, <1>19, <2>1
    <2> QED
        BY <1>1, <1>7, <1>19, <2>2, InvParts DEF OwnAlone
<1>21. \A l \in Links : \A p, v : In(net'[l], p, v) => In(net[l], p, v)
    BY <1>4, <1>5, <1>7
<1>22. Bounded'
    <2>1. value'[Base] = value[Base]
        BY <1>15, PartFacts
    <2>2. ASSUME NEW x \in Parts, NEW p \in Props
          PROVE  value'[x][p] <= Limit(p) \/ (p \in CellProps /\ value'[x][p] = writes')
        <3>1. value[x][p] <= Limit(p) /\ Limit(p) \in Nat
            BY InvParts, PartFacts, Numbers DEF Bounded, Limit
        <3>2. p \in DOMAIN snapshot => snapshot[p] <= Limit(p)
            BY <1>8, <1>16, InvParts DEF Bounded
        <3> QED
            BY <1>2, <1>15, <3>1, <3>2
    <2>3. Typed /\ Bounded
        BY InvParts
    <2>4. (writes' = writes \/ writes' = writes + 1) /\ writes' <= MaxWrites
        BY <1>1, <1>2
    <2> QED
        BY <1>18, <1>21, <2>1, <2>2, <2>3, <2>4, BoundedGrows
<1>23. Unique'
    BY <1>1, <1>9, <1>10, <1>12 DEF Unique, Active, Has, Once
<1>24. Elsewhere'
    <2>1. ~ Untouched(c)
        BY <1>1 DEF Untouched
    <2>2. \A t \in Cells : t # c /\ Untouched(t) => Untouched(t)'
        BY <1>1, <1>4, <1>7, <1>11, <1>19 DEF Untouched
    <2>3. migrations = 0 => \A t \in Cells : t # c => Untouched(t)
        BY <2>1, InvParts DEF Elsewhere
    <2>4. \A s, t \in Cells : ~ Has(net'[<<s, t>>])
        BY <1>10, PartFacts
    <2> QED
        BY <1>1, <1>9, <2>2, <2>3, <2>4 DEF Elsewhere
<1>25. NotBehind'
    <2> SUFFICES ASSUME NEW p \in CellProps, migrations = 0 \/ p \notin untold'
                 PROVE  /\ value'[Base][p] <= value'[c][p]
                        /\ \A d \in Cells, u \in Nat : In(net'[<<d, Base>>], p, u) => u <= value'[c][p]
        BY <1>1, <1>13 DEF NotBehind
    <2>1. value'[Base] = value[Base] /\ value[Base][p] \in Nat /\ p \in Props /\ value'[c][p] \in Nat
        BY <1>15, InvParts, PartFacts, Numbers
    <2>2. CASE value'[c][p] = Restored(snapshot)[p] /\ (migrations = 0 \/ p \notin untold)
        BY <1>14, <1>19, <1>21, <2>1, <2>2, InvParts DEF NotBehind
    <2>3. CASE value'[c][p] = writes'
        <3>1. value[Base][p] <= writes /\ Limit(p) = writes
            BY <2>1, InvParts, PartFacts DEF Bounded, Limit
        <3>2. \A d \in Cells, u \in Nat : In(net[<<d, Base>>], p, u) => u <= writes
            BY <1>19, <2>1, <3>1, InvParts DEF Bounded
        <3>3. \A u \in Nat : u <= writes => u <= writes'
            BY <1>2
        <3>4. \A d \in Cells, u \in Nat : In(net'[<<d, Base>>], p, u) => u <= writes'
            BY <1>19, <1>21, <3>2, <3>3
        <3> QED
            BY <2>1, <2>3, <3>1, <3>3, <3>4
    <2> QED
        BY <1>1, <1>17, <2>1, <2>2, <2>3
<1>26. InOrder'
    <2>1. ASSUME NEW d \in Cells, NEW p \in BaseProps
          PROVE  Sorted(net'[<<Base, d>>], p)
        <3>1. Sorted(net[<<Base, d>>], p)
            BY InvParts DEF InOrder
        <3>2. d = c => Sorted(Tail(q), p)
            BY <1>1, <1>3, <3>1, TakenSorted
        <3> QED
            BY <1>4, <1>7, <1>19, <3>1, <3>2
    <2>2. ASSUME NEW p \in BaseProps, NEW v \in Nat, In(net'[<<Base, c>>], p, v)
          PROVE  value'[c][p] <= v
        <3>1. Sorted(q, p)
            BY InvParts DEF InOrder
        <3>2. p \in DOMAIN snapshot => snapshot[p] <= v
            <4>1. In(Tail(q), p, v)
                BY <1>4, <1>7, <1>8, <2>2
            <4> QED
                BY <1>1, <1>3, <3>1, <4>1, TakenSorted DEF m, snapshot
        <3>3. p \in Props /\ p \notin early
            BY <1>2, PartFacts
        <3> QED
            BY <1>15, <3>2, <3>3
    <2>3. ASSUME migrations = 0, NEW d \in Cells, NEW p \in CellProps
          PROVE  /\ Sorted(net'[<<d, Base>>], p)
                 /\ \A v \in Nat : In(net'[<<d, Base>>], p, v) => value'[Base][p] <= v
        <3>1. /\ Sorted(net[<<d, Base>>], p)
              /\ \A v \in Nat : In(net[<<d, Base>>], p, v) => value[Base][p] <= v
            BY <2>3, InvParts DEF InOrder
        <3>2. value'[Base] = value[Base]
            BY <1>15, PartFacts
        <3> QED
            BY <1>4, <1>7, <1>19, <1>21, <3>1, <3>2
    <2> QED
        BY <1>1, <1>12, <2>1, <2>2, <2>3 DEF InOrder, Active
<1>27. BodyHears'
    <2> SUFFICES ASSUME NEW p \in BaseProps \ missed
                 PROVE  \/ value'[c][p] = value[Base][p]
                        \/ p \in runtime[Base]
                        \/ \E d \in Cells : In(net'[<<Base, d>>], p, value[Base][p])
        BY <1>1, <1>13, <1>15, PartFacts DEF BodyHears
    <2>1. p \in Props /\ value'[c][p] = Restored(snapshot)[p] /\ value'[c][p] \in Nat
        BY <1>15, <1>17, PartFacts
    <2>2. CASE \E d \in Cells : In(net[<<Base, d>>], p, value[Base][p])
        <3>1. PICK d \in Cells : In(net[<<Base, d>>], p, value[Base][p])
            BY <2>2
        <3>2. CASE d = c /\ Says(m, p, value[Base][p])
            BY <1>15, <2>1, <3>2 DEF Says, snapshot
        <3>3. CASE ~ (d = c /\ Says(m, p, value[Base][p]))
            <4>1. In(n[<<Base, d>>], p, value[Base][p])
                BY <1>4, <1>5, <1>19, <3>1, <3>3
            <4> QED
                BY <1>7, <1>19, <4>1
        <3> QED
            BY <3>2, <3>3
    <2> QED
        BY <1>14, <2>1, <2>2, InvParts DEF BodyHears
<1>28. BaseHears'
    <2> SUFFICES ASSUME NEW p \in CellProps, p \notin untold'
                 PROVE  \/ value[Base][p] = value'[c][p]
                        \/ \E d \in Cells : In(net'[<<d, Base>>], p, value'[c][p])
        BY <1>13, <1>15, PartFacts DEF BaseHears
    <2>1. p \in Props /\ value'[c][p] = Restored(snapshot)[p] /\ value'[c][p] \in Nat
        BY <1>15, <1>17, PartFacts
    <2>2. p \notin untold
        BY <1>1
    <2>3. \A d \in Cells, v \in Nat : In(net[<<d, Base>>], p, v) => In(net'[<<d, Base>>], p, v)
        BY <1>4, <1>7, <1>19
    <2> QED
        BY <1>9, <1>14, <2>1, <2>3, <2>2, InvParts DEF BaseHears
<1>29. GhostHears'
    BY <1>1, <1>11, <1>12, InvParts DEF GhostHears, Active, Typed
<1>30. ClientHears'
    BY <1>1, <1>15, InvParts, PartFacts, ClientHearsKept
<1> QED
    BY <1>18, <1>20, <1>22, <1>23, <1>24, <1>25, <1>26, <1>27, <1>28, <1>29, <1>30 DEF Inv

LEMMA SyncFromBaseStep ==
    ASSUME Inv, NEW c \in Cells, SyncFromBase(c)
    PROVE  Inv'
<1> DEFINE q == net[<<Base, c>>]
           m == Head(q)
<1>1. /\ q # <<>> /\ m.kind = "sync" /\ net' = Taken(Base, c)
      /\ IF body[c] = "None" THEN UNCHANGED <<value, view>>
         ELSE value' = Applied(c, m.delta) /\ view' = Marked(view, c, DOMAIN m.delta)
      /\ Active(c) => /\ unseen' = unseen \ DOMAIN m.delta
                      /\ missed' = missed \cup Overtaken(c, m.delta)
      /\ ~ Active(c) => /\ missed' = missed \cup {p \in DOMAIN m.delta : m.delta[p] = value[Base][p]}
                        /\ unseen' = unseen
      /\ UNCHANGED <<runtime, client, body, asked, cellCall, shadow, wire, screen, writes,
                     migrations, untold, unheard>>
    BY DEF SyncFromBase, Arrived, Payload, Viewed, placeVars, boundVars
<1>2. /\ net' \in [Links -> Seq(Messages)]
      /\ q \in Seq(Messages) /\ m \in Messages /\ ~ IsCargo(m)
      /\ net'[<<Base, c>>] = Tail(q)
      /\ \A l \in Links : l # <<Base, c>> => net'[l] = net[l]
      /\ \A l \in Links : \A p, v : In(net'[l], p, v) => In(net[l], p, v)
      /\ \A l \in Links : \A p, v :
            In(net[l], p, v) => In(net'[l], p, v) \/ (l = <<Base, c>> /\ Says(m, p, v))
      /\ \A p, v : Says(m, p, v) => In(q, p, v)
      /\ \A l \in Links : /\ Has(net'[l]) => Has(net[l])
                          /\ Once(net[l]) => Once(net'[l])
                          /\ \A p, v : Brings(net'[l], p, v) => Brings(net[l], p, v)
    <2>1. c \in Parts /\ Base \in Parts /\ Typed
        BY InvParts, PartFacts
    <2> QED
        BY <1>1, <2>1, Taking DEF IsCargo
<1>3. DOMAIN m.delta \subseteq BaseProps /\ m.delta \in Deltas
    <2>1. About(q, BaseProps)
        BY InvParts DEF OwnAlone
    <2> QED
        BY <1>1, <1>2, <2>1, TakenAbout DEF Messages
<1>4. \A p \in DOMAIN m.delta : /\ m.delta[p] \in Nat /\ In(q, p, m.delta[p])
                                /\ p \in BaseProps /\ p \in Props
    BY <1>2, <1>3, DeltaFacts DEF Says
<1>5. /\ value' \in [Parts -> [Props -> Nat]]
      /\ \A x \in Parts : x # c => value'[x] = value[x]
      /\ \A p \in Props : value'[c][p] = IF p \in DOMAIN m.delta /\ body[c] # "None"
                                         THEN m.delta[p] ELSE value[c][p]
    <2>1. value[c] \in [Props -> Nat] /\ value \in [Parts -> [Props -> Nat]] /\ c \in Parts
        BY InvParts, PartFacts DEF Typed
    <2>2. /\ Over(m.delta, value[c]) \in [Props -> Nat]
          /\ \A p \in Props : Over(m.delta, value[c])[p] =
                                IF p \in DOMAIN m.delta THEN m.delta[p] ELSE value[c][p]
        BY <1>3, <2>1, OverFacts
    <2>3. CASE body[c] = "None"
        BY <1>1, <2>1, <2>3
    <2>4. CASE body[c] # "None"
        <3>1. value' = [value EXCEPT ![c] = Over(m.delta, value[c])]
            BY <1>1, <2>4 DEF Applied
        <3> HIDE DEF m
        <3> QED
            BY <2>1, <2>2, <2>4, <3>1
    <2> QED
        BY <2>3, <2>4
<1>6. /\ view' \in [Parts -> SUBSET Props]
      /\ \A x \in Parts : view[x] \subseteq view'[x]
      /\ Active(c) => DOMAIN m.delta \subseteq view'[c]
    <2>1. view \in [Parts -> SUBSET Props] /\ c \in Parts /\ DOMAIN m.delta \subseteq Props
        BY <1>4, InvParts, PartFacts DEF Typed
    <2>2. CASE body[c] = "None"
        BY <1>1, <2>1, <2>2 DEF Active
    <2>3. CASE body[c] # "None"
        <3>1. view' = [view EXCEPT ![c] = @ \cup DOMAIN m.delta]
            BY <1>1, <2>3 DEF Marked
        <3> HIDE DEF m
        <3> QED
            BY <2>1, <3>1
    <2> QED
        BY <2>2, <2>3
<1> HIDE DEF m
<1>7. Typed'
    BY <1>1, <1>2, <1>5, <1>6, InvParts DEF Typed
<1>8. /\ value'[Base] = value[Base] /\ value'[Ghost] = value[Ghost]
      /\ \A d \in Cells : \A p \in CellProps : value'[d][p] = value[d][p]
      /\ \A d \in Cells : /\ net'[<<d, Base>>] = net[<<d, Base>>]
                          /\ net'[<<d, Ghost>>] = net[<<d, Ghost>>]
                          /\ d # c => net'[<<Base, d>>] = net[<<Base, d>>]
                          /\ <<Base, d>> \in Links
    BY <1>2, <1>4, <1>5, PartFacts
<1>9. OwnAlone'
    <2>1. About(net'[<<Base, c>>], BaseProps)
        BY <1>1, <1>2, InvParts, TakenAbout DEF OwnAlone
    <2> QED
        BY <1>1, <1>8, <2>1, InvParts DEF OwnAlone
<1>10. Bounded'
    <2>1. ASSUME NEW x \in Parts, NEW p \in Props
          PROVE  value'[x][p] <= Limit(p)
        <3>1. CASE x = c /\ p \in DOMAIN m.delta /\ body[c] # "None"
            BY <1>4, <1>5, <1>8, <3>1, InvParts DEF Bounded
        <3>2. CASE ~ (x = c /\ p \in DOMAIN m.delta /\ body[c] # "None")
            BY <1>5, <3>2, InvParts DEF Bounded
        <3> QED
            BY <3>1, <3>2
    <2> QED
        BY <1>1, <1>2, <1>7, <1>8, <2>1, InvParts, BoundedKept
<1>11. Unique' /\ Elsewhere'
    <2>1. \A t \in Cells : Untouched(t) => Untouched(t)'
        BY <1>1, <1>8 DEF Untouched
    <2> QED
        BY <1>1, <1>2, <2>1, InvParts, PartFacts, UniqueKept, ElsewhereKept
<1>12. \A p \in CellProps : \A v : Carries(p, v)' => Carries(p, v)
    BY <1>1, <1>2, <1>8, CarriesKept
<1>13. NotBehind' /\ BaseHears'
    BY <1>1, <1>8, <1>12, InvParts, PartFacts, NotBehindKept, BaseHearsKept
<1>14. InOrder'
    <2>1. ASSUME NEW d \in Cells, NEW p \in BaseProps
          PROVE  Sorted(net'[<<Base, d>>], p)
        <3>1. Sorted(net[<<Base, d>>], p)
            BY InvParts DEF InOrder
        <3>2. d = c => Sorted(Tail(q), p)
            BY <1>1, <1>2, <3>1, TakenSorted
        <3> QED
            BY <1>2, <1>8, <3>1, <3>2
    <2>2. ASSUME migrations <= 1, NEW d \in Cells, NEW p \in BaseProps, NEW v \in Nat,
                 Active(d), In(net'[<<Base, d>>], p, v)
          PROVE  value'[d][p] <= v
        <3>1. value[d][p] <= v
            BY <1>2, <1>8, <2>2, InvParts DEF InOrder
        <3>2. CASE d = c /\ p \in DOMAIN m.delta
            <4>1. Sorted(q, p)
                BY InvParts DEF InOrder
            <4>2. In(Tail(q), p, v)
                BY <1>2, <2>2, <3>2
            <4>3. m.delta[p] <= v
                BY <1>1, <1>2, <3>2, <4>1, <4>2, TakenSorted DEF m
            <4> QED
                BY <1>4, <1>5, <2>2, <3>2, <4>3 DEF Active
        <3>3. CASE ~ (d = c /\ p \in DOMAIN m.delta)
            BY <1>5, <3>1, <3>3, PartFacts
        <3> QED
            BY <3>2, <3>3
    <2> QED
        BY <1>1, <1>8, <2>1, <2>2, InvParts DEF InOrder, Active
<1>15. BodyHears'
    <2> SUFFICES ASSUME NEW p \in BaseProps \ missed', NEW v \in Nat, Carries(p, v)'
                 PROVE  \/ v = value[Base][p]
                        \/ p \in runtime[Base]
                        \/ \E d \in Cells : In(net'[<<Base, d>>], p, value[Base][p])
        BY <1>1, <1>8 DEF BodyHears
    <2>1. p \in Props /\ p \notin missed /\ value[Base][p] \in Nat /\ value[c][p] \in Nat
        BY <1>1, InvParts, PartFacts, Numbers
    <2>2. ASSUME NEW u \in Nat, Carries(p, u),
                 ~ (p \in DOMAIN m.delta /\ m.delta[p] = value[Base][p]),
                 u # value[Base][p], p \notin runtime[Base]
          PROVE  \E d \in Cells : In(net'[<<Base, d>>], p, value[Base][p])
        <3>1. PICK d \in Cells : In(net[<<Base, d>>], p, value[Base][p])
            BY <2>1, <2>2, InvParts DEF BodyHears
        <3>2. ~ Says(m, p, value[Base][p])
            BY <2>2 DEF Says
        <3> QED
            BY <1>2, <1>8, <3>1, <3>2
    <2>3. CASE ~ Active(c)
        <3>1. Carries(p, v)
            <4>1. \A d \in Cells : Active(d) => value'[d][p] = value[d][p]
                BY <1>5, <2>3, PartFacts
            <4> QED
                BY <1>1, <1>2, <4>1, CarriesKept
        <3>2. ~ (p \in DOMAIN m.delta /\ m.delta[p] = value[Base][p])
            BY <1>1, <2>3
        <3> QED
            BY <2>2, <3>1, <3>2
    <2>4. CASE Active(c)
        <3>1. v = value'[c][p] /\ Carries(p, value[c][p])
            <4>1. \A l \in Links : ~ Has(net'[l])
                BY <1>2, <2>4, InvParts DEF Unique
            <4>2. \A d \in Cells : body'[d] = "Active" => d = c
                BY <1>1, <2>4, InvParts DEF Unique, Active
            <4> QED
                BY <2>4, <4>1, <4>2, BringsHas DEF Carries, Active
        <3>2. CASE p \in DOMAIN m.delta
            <4>1. v = m.delta[p] /\ v \in Nat
                BY <1>4, <1>5, <2>1, <2>4, <3>1, <3>2 DEF Active
            <4>2. ASSUME value[c][p] = value[Base][p]
                  PROVE  v = value[Base][p]
                <5>1. v <= value[Base][p]
                    BY <1>4, <1>8, <2>1, <3>2, <4>1, InvParts DEF Bounded, Limit
                <5>2. value[c][p] <= v
                    <6>1. CASE migrations <= 1
                        BY <1>4, <2>4, <3>2, <4>1, <6>1, InvParts DEF InOrder
                    <6>2. CASE ~ (migrations <= 1)
                        <7>1. p \notin Overtaken(c, m.delta)
                            BY <1>1, <2>4
                        <7> QED
                            BY <2>1, <3>2, <4>1, <6>2, <7>1 DEF Overtaken
                    <6> QED
                        BY <6>1, <6>2
                <5> QED
                    BY <2>1, <4>1, <4>2, <5>1, <5>2
            <4> QED
                BY <2>1, <2>2, <3>1, <3>2, <4>1, <4>2
        <3>3. CASE p \notin DOMAIN m.delta
            <4>1. v = value[c][p]
                BY <1>5, <2>1, <3>1, <3>3
            <4> QED
                BY <2>2, <3>1, <3>3, <4>1
        <3> QED
            BY <3>2, <3>3
    <2> QED
        BY <2>3, <2>4
<1>16. GhostHears'
    <2> SUFFICES ASSUME NEW d \in shadow
                 PROVE  /\ body[d] # "None"
                        /\ Active(d) => \A p \in Props \ unseen' :
                            \/ p \in view'[d]
                            \/ Latest(net[<<d, Ghost>>], value[Ghost][p], p, value'[d][p])
        <3>1. \A d \in shadow : d \in Cells
            BY InvParts DEF Typed
        <3> QED
            BY <1>1, <1>8, <3>1 DEF GhostHears, Active
    <2>1. d \in Cells /\ d \in Parts /\ body[d] # "None"
        BY InvParts, PartFacts DEF Typed, GhostHears
    <2>2. ASSUME Active(d), NEW p \in Props \ unseen', p \notin view'[d]
          PROVE  Latest(net[<<d, Ghost>>], value[Ghost][p], p, value'[d][p])
        <3>1. p \notin unseen /\ p \notin view[d] /\ value'[d][p] = value[d][p]
            <4>1. CASE d = c
                BY <1>1, <1>5, <1>6, <2>1, <2>2, <4>1
            <4>2. CASE d # c
                <5>1. ~ Active(c)
                    BY <2>1, <2>2, <4>2, InvParts DEF Unique
                <5> QED
                    BY <1>1, <1>5, <1>6, <2>1, <2>2, <4>2, <5>1
            <4> QED
                BY <4>1, <4>2
        <3> QED
            BY <2>2, <3>1, InvParts DEF GhostHears
    <2> QED
        BY <2>1, <2>2
<1>17. ClientHears'
    BY <1>1, <1>8, InvParts, ClientHearsKept
<1> QED
    BY <1>7, <1>9, <1>10, <1>11, <1>13, <1>14, <1>15, <1>16, <1>17 DEF Inv

LEMMA CellSyncStep ==
    ASSUME Inv, NEW c \in Cells, CellSync(c)
    PROVE  Inv'
<1> DEFINE q == net[<<c, Base>>]
           g == net[<<c, Ghost>>]
           mb == Message("sync", Delta(c, runtime[c]))
           mg == Message("ghost", Delta(c, view[c]))
<1>1. PICK lost \in SUBSET Listeners(c) :
        /\ net' = [l \in DOMAIN net |-> IF l[1] = c /\ l[2] \in Listeners(c) \ lost
                                       THEN Append(net[l], News(c, l[2])) ELSE net[l]]
        /\ untold' = IF Base \in lost THEN untold \cup runtime[c] ELSE untold
        /\ unseen' = IF Ghost \in lost THEN unseen \cup view[c] ELSE unseen
    BY DEF CellSync
<1>2. /\ body[c] # "None"
      /\ runtime' = Cleared(runtime, c) /\ view' = Cleared(view, c)
      /\ UNCHANGED <<value, client, body, asked, cellCall, shadow, wire, screen, writes,
                     migrations, missed, unheard>>
    BY DEF CellSync, placeVars
<1> DEFINE told == Base \in Listeners(c) \ lost
           shown == Ghost \in Listeners(c) \ lost
<1>3. /\ told => Active(c)
      /\ Active(c) /\ runtime[c] # {} /\ ~ told => Base \in lost
      /\ Active(c) /\ c \in shadow /\ view[c] # {} /\ ~ shown => Ghost \in lost
    BY PartFacts DEF Listeners, ToBase, ToGhost
<1>4. /\ runtime[c] \subseteq CellProps /\ runtime[c] \in SUBSET Props /\ view[c] \in SUBSET Props
      /\ c \in Parts /\ c # Base /\ c # Ghost /\ value[c] \in [Props -> Nat]
    <2>1. c \in Parts /\ c # Base /\ c # Ghost
        BY PartFacts
    <2> QED
        BY <2>1, InvParts DEF Typed, OwnAlone
<1>5. /\ mb \in Messages /\ ~ IsCargo(mb) /\ mb.kind = "sync" /\ DOMAIN mb.delta = runtime[c]
      /\ \A p \in runtime[c] : mb.delta[p] = value[c][p]
      /\ mg \in Messages /\ ~ IsCargo(mg) /\ mg.kind = "ghost" /\ DOMAIN mg.delta = view[c]
      /\ \A p \in view[c] : mg.delta[p] = value[c][p]
    <2>1. "sync" \in Kinds /\ "ghost" \in Kinds
        BY DEF Kinds
    <2>2. Typed
        BY InvParts
    <2>3. /\ mb \in Messages /\ mb.kind = "sync" /\ DOMAIN mb.delta = runtime[c]
          /\ \A p \in runtime[c] : mb.delta[p] = value[c][p]
        BY <1>4, <2>1, <2>2, MessageFacts
    <2>4. /\ mg \in Messages /\ mg.kind = "ghost" /\ DOMAIN mg.delta = view[c]
          /\ \A p \in view[c] : mg.delta[p] = value[c][p]
        BY <1>4, <2>1, <2>2, MessageFacts
    <2> HIDE DEF mb, mg
    <2> QED
        BY <2>3, <2>4 DEF IsCargo
<1>6. News(c, Base) = mb /\ News(c, Ghost) = mg
    BY PartFacts DEF News
<1>7. net \in [Links -> Seq(Messages)] /\ q \in Seq(Messages) /\ g \in Seq(Messages)
      /\ <<c, Base>> \in Links /\ <<c, Ghost>> \in Links
    <2>1. net \in [Links -> Seq(Messages)]
        BY InvParts DEF Typed
    <2> QED
        BY <1>4, <2>1, PartFacts
<1> HIDE DEF mb, mg
<1>8. /\ net'[<<c, Base>>] = IF told THEN Append(q, mb) ELSE q
      /\ net'[<<c, Ghost>>] = IF shown THEN Append(g, mg) ELSE g
      /\ \A l \in Links : l # <<c, Base>> /\ l # <<c, Ghost>> => net'[l] = net[l]
    <2>1. \A l \in Links : net'[l] = IF l[1] = c /\ l[2] \in Listeners(c) \ lost
                                     THEN Append(net[l], News(c, l[2])) ELSE net[l]
        BY <1>1, <1>7
    <2>2. \A l \in Links : l = <<l[1], l[2]>>
        BY DEF Links
    <2>3. \A x \in Listeners(c) : x = Base \/ x = Ghost
        BY DEF Listeners
    <2> QED
        BY <1>6, <1>7, <2>1, <2>2, <2>3
<1>9. net' \in [Links -> Seq(Messages)]
    <2>1. DOMAIN net' = Links
        BY <1>1, <1>7
    <2>2. \A l \in Links : net'[l] \in Seq(Messages)
        <3>1. Append(q, mb) \in Seq(Messages) /\ Append(g, mg) \in Seq(Messages)
            BY <1>5, <1>7, AppendFacts
        <3>2. \A l \in Links : net[l] \in Seq(Messages)
            BY <1>7
        <3> HIDE DEF q, g, told, shown
        <3> QED
            BY <1>7, <1>8, <3>1, <3>2
    <2>3. net' = [l \in DOMAIN net' |-> net'[l]]
        BY <1>1
    <2> QED
        BY <2>1, <2>2, <2>3
<1>10. /\ runtime' \in [Parts -> SUBSET Props] /\ view' \in [Parts -> SUBSET Props]
       /\ runtime'[c] = {} /\ view'[c] = {}
       /\ \A x \in Parts : x # c => runtime'[x] = runtime[x] /\ view'[x] = view[x]
    BY <1>2, <1>4, InvParts DEF Typed, Cleared
<1>11. Typed'
    <2>1. UNCHANGED <<value, client, body, asked, cellCall, shadow, wire, screen, writes, migrations>>
        BY <1>2
    <2> QED
        BY <1>9, <1>10, <2>1, InvParts DEF Typed
<1>12. \A p, v : In(net'[<<c, Base>>], p, v) <=> In(q, p, v) \/ (told /\ Says(mb, p, v))
    BY <1>5, <1>7, <1>8, SentSays
<1>13. \A p, v : In(net'[<<c, Ghost>>], p, v) <=> In(g, p, v) \/ (shown /\ Says(mg, p, v))
    BY <1>5, <1>7, <1>8, SentSays
<1>14. \A p \in Props : \A v : Says(mb, p, v) \/ Says(mg, p, v) => v = value[c][p]
    BY <1>5 DEF Says
<1>15. \A l \in Links : /\ Has(net'[l]) <=> Has(net[l])
                        /\ Once(net[l]) => Once(net'[l])
                        /\ \A p, v : Brings(net'[l], p, v) <=> Brings(net[l], p, v)
    <2> TAKE l \in Links
    <2>1. CASE l = <<c, Base>>
        <3>1. net[l] = q /\ net'[l] = IF told THEN Append(q, mb) ELSE q
            BY <1>8, <2>1
        <3> HIDE DEF q, told
        <3> QED
            BY <1>5, <1>7, <3>1, SentCargo
    <2>2. CASE l = <<c, Ghost>>
        <3>1. net[l] = g /\ net'[l] = IF shown THEN Append(g, mg) ELSE g
            BY <1>8, <2>2
        <3> HIDE DEF g, shown
        <3> QED
            BY <1>5, <1>7, <3>1, SentCargo
    <2>3. CASE l # <<c, Base>> /\ l # <<c, Ghost>>
        BY <1>8, <2>3
    <2> QED
        BY <2>1, <2>2, <2>3
<1>16. \A d \in Cells : /\ net'[<<Base, d>>] = net[<<Base, d>>]
                        /\ d # c => /\ net'[<<d, Base>>] = net[<<d, Base>>]
                                    /\ net'[<<d, Ghost>>] = net[<<d, Ghost>>]
                        /\ <<d, Base>> \in Links
    BY <1>4, <1>8, PartFacts
<1> HIDE DEF q, g, told, shown
<1>17. OwnAlone'
    <2>1. About(net'[<<c, Base>>], CellProps)
        <3>1. About(q, CellProps)
            BY InvParts DEF OwnAlone, q
        <3> QED
            BY <1>4, <1>5, <1>7, <1>8, <3>1, SentAbout
    <2> QED
        BY <1>10, <1>16, <2>1, InvParts, PartFacts DEF OwnAlone
<1>18. Bounded'
    <2>1. \A x \in Parts, p \in Props : value'[x][p] <= Limit(p)
        BY <1>2, InvParts DEF Bounded
    <2>2. ASSUME NEW l \in Links, NEW p \in Props, NEW v \in Nat, In(net'[l], p, v)
          PROVE  In(net[l], p, v) \/ v <= Limit(p)
        BY <1>2, <1>4, <1>8, <1>12, <1>13, <1>14, <2>1, <2>2 DEF q, g
    <2> QED
        BY <1>2, <1>11, <2>1, <2>2, InvParts, BoundedKept
<1>19. Unique' /\ Elsewhere'
    <2>1. \A t \in Cells : Untouched(t) => Untouched(t)'
        BY <1>2, <1>16 DEF Untouched
    <2> QED
        BY <1>2, <1>15, <2>1, InvParts, PartFacts, UniqueKept, ElsewhereKept
<1>20. \A p, v : Carries(p, v)' => Carries(p, v)
    BY <1>2, <1>15, CarriesKept
<1>21. \A p : Active(c) => /\ Carries(p, value[c][p])
                           /\ \A v : Carries(p, v) => v = value[c][p]
    BY BringsHas, InvParts DEF Carries, Unique
<1>22. NotBehind'
    <2> SUFFICES ASSUME NEW p \in CellProps, migrations = 0 \/ p \notin untold,
                        NEW v \in Nat, Carries(p, v)
                 PROVE  /\ value[Base][p] <= v
                        /\ \A d \in Cells, u \in Nat : In(net'[<<d, Base>>], p, u) => u <= v
        BY <1>1, <1>2, <1>20 DEF NotBehind
    <2>1. /\ value[Base][p] <= v /\ p \in Props
          /\ \A d \in Cells, u \in Nat : In(net[<<d, Base>>], p, u) => u <= v
        BY InvParts, PartFacts DEF NotBehind
    <2>2. ASSUME NEW u \in Nat, told, Says(mb, p, u)
          PROVE  u <= v
        BY <1>3, <1>14, <1>21, <2>1, <2>2
    <2> QED
        BY <1>12, <1>16, <2>1, <2>2 DEF q
<1>23. InOrder'
    <2>1. ASSUME migrations = 0, NEW d \in Cells, NEW p \in CellProps
          PROVE  /\ Sorted(net'[<<d, Base>>], p)
                 /\ \A v \in Nat : In(net'[<<d, Base>>], p, v) => value[Base][p] <= v
        <3>1. /\ Sorted(net[<<d, Base>>], p)
              /\ \A v \in Nat : In(net[<<d, Base>>], p, v) => value[Base][p] <= v
            BY <2>1, InvParts DEF InOrder
        <3>2. CASE d = c /\ told
            <4>1. Carries(p, value[c][p]) /\ value[c][p] \in Nat
                BY <1>3, <1>4, <1>21, <3>2, PartFacts
            <4>2. /\ value[Base][p] <= value[c][p]
                  /\ \A u \in Nat : In(q, p, u) => u <= value[c][p]
                BY <2>1, <4>1, InvParts DEF NotBehind, q
            <4>3. p \in DOMAIN mb.delta => mb.delta[p] = value[c][p]
                BY <1>5
            <4>4. Sorted(Append(q, mb), p)
                BY <1>5, <1>7, <3>1, <3>2, <4>2, <4>3, SentSorted DEF q
            <4> QED
                BY <1>8, <1>12, <1>14, <3>1, <3>2, <4>2, <4>4, PartFacts DEF q
        <3>3. CASE ~ (d = c /\ told)
            BY <1>8, <1>16, <3>1, <3>3 DEF q
        <3> QED
            BY <3>2, <3>3
    <2> QED
        BY <1>2, <1>16, <2>1, InvParts DEF InOrder, Active
<1>24. BodyHears'
    <2>1. \A p \in BaseProps : value[Base][p] \in Nat
        BY InvParts, PartFacts, Numbers
    <2> QED
        BY <1>2, <1>4, <1>10, <1>16, <1>20, <2>1, InvParts, PartFacts, BodyHearsKept
<1>25. BaseHears'
    <2> SUFFICES ASSUME NEW p \in CellProps, p \notin untold', NEW v \in Nat, Carries(p, v)
                 PROVE  \/ value[Base][p] = v
                        \/ \E d \in Cells : body[d] = "Active" /\ p \in runtime'[d]
                        \/ \E d \in Cells : In(net'[<<d, Base>>], p, v)
        BY <1>2, <1>20 DEF BaseHears, Active
    <2>1. p \notin untold /\ p \in Props
        BY <1>1, PartFacts
    <2>2. CASE \E d \in Cells : Active(d) /\ p \in runtime[d]
        <3>1. PICK d \in Cells : Active(d) /\ p \in runtime[d]
            BY <2>2
        <3>2. CASE d # c
            <4>1. p \in runtime'[d]
                BY <1>10, <3>1, <3>2, PartFacts
            <4> QED
                BY <3>1, <4>1 DEF Active
        <3>3. CASE d = c
            <4>1. told
                BY <1>1, <1>3, <3>1, <3>3
            <4>2. Says(mb, p, v)
                BY <1>5, <1>21, <3>1, <3>3 DEF Says
            <4> QED
                BY <1>12, <4>1, <4>2
        <3> QED
            BY <3>2, <3>3
    <2>3. CASE \E d \in Cells : In(net[<<d, Base>>], p, v)
        <3>1. PICK d \in Cells : In(net[<<d, Base>>], p, v)
            BY <2>3
        <3> QED
            BY <1>12, <1>16, <3>1 DEF q
    <2> QED
        BY <2>1, <2>2, <2>3, InvParts DEF BaseHears
<1>26. GhostHears'
    <2> SUFFICES ASSUME NEW d \in shadow
                 PROVE  /\ body[d] # "None"
                        /\ Active(d) => \A p \in Props \ unseen' :
                            \/ p \in view'[d]
                            \/ Latest(net'[<<d, Ghost>>], value[Ghost][p], p, value[d][p])
        BY <1>2 DEF GhostHears, Active
    <2>1. d \in Cells /\ d \in Parts /\ body[d] # "None"
        BY InvParts, PartFacts DEF Typed, GhostHears
    <2>2. ASSUME Active(d), NEW p \in Props \ unseen', p \notin view'[d]
          PROVE  Latest(net'[<<d, Ghost>>], value[Ghost][p], p, value[d][p])
        <3>1. p \notin unseen
            BY <1>1, <2>2
        <3>2. p \notin view[d] => Latest(net[<<d, Ghost>>], value[Ghost][p], p, value[d][p])
            BY <2>2, <3>1, InvParts DEF GhostHears
        <3>3. CASE d # c
            BY <1>10, <1>16, <2>1, <2>2, <3>2, <3>3
        <3>4. CASE d = c /\ p \in view[c]
            <4>1. shown
                BY <1>1, <1>3, <2>2, <3>4
            <4>2. Latest(Append(g, mg), value[Ghost][p], p, mg.delta[p])
                BY <1>5, <1>7, <3>4, SentLatest
            <4> QED
                BY <1>5, <1>8, <3>4, <4>1, <4>2
        <3>5. CASE d = c /\ p \notin view[c]
            <4>1. Latest(g, value[Ghost][p], p, value[c][p])
                BY <3>2, <3>5 DEF g
            <4>2. Latest(Append(g, mg), value[Ghost][p], p, value[c][p])
                BY <1>5, <1>7, <3>5, <4>1, SentLatest
            <4> QED
                BY <1>8, <3>5, <4>1, <4>2
        <3> QED
            BY <3>3, <3>4, <3>5
    <2> QED
        BY <2>1, <2>2
<1>27. ClientHears'
    BY <1>2, InvParts, ClientHearsKept
<1> QED
    BY <1>11, <1>17, <1>18, <1>19, <1>22, <1>23, <1>24, <1>25, <1>26, <1>27 DEF Inv

LEMMA BeginMigrationStep ==
    ASSUME Inv, NEW c \in Cells, NEW t \in Cells, BeginMigration(c, t)
    PROVE  Inv'
<1> DEFINE m == Transfer(c)
           cells == {p \in CellProps \cap Strings : value[c][p] # 0}
           bases == {p \in BaseProps \cap Strings : value[c][p] # 0}
<1>1. /\ Active(c) /\ t # c
      /\ UNCHANGED <<value, runtime, view, client, asked, cellCall, shadow, wire, screen,
                     writes, unseen, unheard>>
    BY DEF BeginMigration, blockVars
<1>2. CASE UNCHANGED <<net, body, migrations, untold, missed>>
    <2>1. Typed' /\ ClientHears'
        BY <1>1, <1>2, InvParts DEF Typed, ClientHears, Updates
    <2> QED
        BY <1>1, <1>2, <2>1, CoreKept DEF Inv
<1>3. CASE /\ net' = Sent(net, c, t, m)
           /\ body' = [body EXCEPT ![c] = "Migrating"]
           /\ migrations' = migrations + 1
           /\ untold' = untold \cup runtime[c] \cup cells
           /\ missed' = missed \cup bases
    <2>1. /\ m \in Messages /\ IsCargo(m) /\ m.kind = "transfer" /\ m.delta \in Deltas
          /\ DOMAIN m.delta = Props \ Strings
          /\ \A p \in Props \ Strings : m.delta[p] = value[c][p]
        <3>1. "transfer" \in Kinds /\ c \in Parts /\ (Props \ Strings) \in SUBSET Props /\ Typed
            BY InvParts, PartFacts DEF Kinds
        <3>2. m = Message("transfer", Delta(c, Props \ Strings))
            BY DEF Transfer, Captured
        <3> HIDE DEF m
        <3> QED
            BY <3>1, <3>2, MessageFacts DEF IsCargo
    <2>2. \A p \in Props : Restored(m.delta)[p] = IF p \in Strings THEN 0 ELSE value[c][p]
        BY <2>1, RestoredFacts
    <2> HIDE DEF m
    <2>3. net \in [Links -> Seq(Messages)] /\ c \in Parts /\ t \in Parts /\ <<c, t>> \in Links
          /\ value[c] \in [Props -> Nat] /\ migrations \in Nat
        BY InvParts, PartFacts DEF Typed
    <2>4. /\ net' \in [Links -> Seq(Messages)]
          /\ net'[<<c, t>>] = Append(net[<<c, t>>], m)
          /\ \A l \in Links : l # <<c, t>> => net'[l] = net[l]
        <3>1. net' = Sent(net, c, t, m) /\ m \in Messages
            BY <1>3, <2>1
        <3> QED
            BY <2>3, <3>1, SentFacts
    <2> DEFINE q == net[<<c, t>>]
    <2>5. q \in Seq(Messages) /\ net'[<<c, t>>] = Append(q, m)
        BY <2>3, <2>4
    <2>6. /\ \A l \in Links : ~ Has(net[l]) /\ Once(net[l])
          /\ \A d \in Cells : Active(d) => d = c
        BY <1>1, InvParts DEF Unique
    <2> HIDE DEF q
    <2>7. /\ \A p, v : In(net'[<<c, t>>], p, v) <=> In(q, p, v) \/ Says(m, p, v)
          /\ ~ Has(q) /\ Once(q)
        BY <2>1, <2>3, <2>5, <2>6, SentSays DEF q
    <2>8. /\ Once(net'[<<c, t>>])
          /\ \A p, v : Brings(net'[<<c, t>>], p, v) <=> v = Restored(m.delta)[p]
        BY <2>1, <2>5, <2>7, SentCargo, BringsHas
    <2>9. /\ body' \in [Cells -> {"None", "Active", "Migrating"}] /\ body'[c] = "Migrating"
          /\ \A d \in Cells : d # c => body'[d] = body[d]
        BY <1>3, InvParts DEF Typed
    <2>10. \A d \in Cells : body'[d] # "Active"
        BY <2>6, <2>9 DEF Active
    <2>11. \A p, v : Carries(p, v)' => v = Restored(m.delta)[p]
        BY <2>4, <2>6, <2>8, <2>10, BringsHas DEF Carries, Active
    <2>12. \A p : Carries(p, value[c][p])
        BY <1>1 DEF Carries
    <2>13. \A d \in Cells : /\ net'[<<d, Base>>] = net[<<d, Base>>]
                            /\ net'[<<Base, d>>] = net[<<Base, d>>]
                            /\ <<d, Base>> \in Links
        BY <2>4, PartFacts
    <2>14. Typed'
        <3>1. migrations' \in Nat
            BY <1>3, <2>3
        <3> QED
            BY <1>1, <2>4, <2>9, <3>1, InvParts DEF Typed
    <2>15. OwnAlone'
        BY <1>1, <2>13, InvParts DEF OwnAlone
    <2>16. Bounded'
        <3>1. \A x \in Parts, p \in Props : value'[x][p] <= Limit(p)
            BY <1>1, InvParts DEF Bounded
        <3>2. ASSUME NEW l \in Links, NEW p \in Props, NEW v \in Nat, In(net'[l], p, v)
              PROVE  In(net[l], p, v) \/ v <= Limit(p)
            <4>1. Says(m, p, v) => v <= Limit(p)
                BY <1>1, <2>1, <2>3, <3>1 DEF Says
            <4>2. CASE l = <<c, t>>
                BY <2>7, <3>2, <4>1, <4>2 DEF q
            <4>3. CASE l # <<c, t>>
                BY <2>4, <3>2, <4>3
            <4> QED
                BY <4>2, <4>3
        <3> QED
            BY <1>1, <2>14, <3>1, <3>2, InvParts, BoundedKept
    <2>17. asked = TRUE
        BY <1>1, InvParts DEF Elsewhere, Untouched, Active, Typed
    <2>18. Unique'
        <3>1. \A l \in Links : Once(net'[l]) /\ (Has(net'[l]) => l = <<c, t>>)
            BY <2>4, <2>6, <2>8
        <3> QED
            BY <1>1, <2>10, <2>17, <3>1 DEF Unique, Active
    <2>19. Elsewhere'
        <3>1. migrations + 1 # 0
            BY <2>3
        <3>2. ASSUME migrations + 1 <= 1, NEW s \in Cells, NEW d \in Cells, Has(net'[<<s, d>>])
              PROVE  Untouched(d)'
            <4>1. d = t /\ <<s, d>> \in Links
                BY <2>4, <2>6, <3>2, PartFacts
            <4>2. Untouched(t)
                <5>1. ~ Untouched(c)
                    BY <1>1 DEF Untouched, Active
                <5>2. migrations = 0
                    BY <2>3, <3>2
                <5> QED
                    BY <1>1, <5>1, <5>2, InvParts DEF Elsewhere
            <4> QED
                BY <1>1, <2>9, <2>13, <4>1, <4>2 DEF Untouched
        <3> QED
            BY <1>1, <1>3, <2>17, <3>1, <3>2 DEF Elsewhere
    <2>20. NotBehind'
        <3> SUFFICES ASSUME NEW p \in CellProps, p \notin untold', NEW v \in Nat, Carries(p, v)'
                     PROVE  /\ value[Base][p] <= v
                            /\ \A d \in Cells, u \in Nat : In(net[<<d, Base>>], p, u) => u <= v
            <4>1. migrations' # 0
                BY <1>3, <2>3
            <4> QED
                BY <1>1, <2>13, <4>1 DEF NotBehind
        <3>1. p \in Props /\ p \notin untold /\ p \notin cells /\ value[c][p] \in Nat
            BY <1>3, <2>3, PartFacts
        <3>2. v = value[c][p]
            BY <2>2, <2>11, <3>1
        <3> QED
            BY <2>12, <3>1, <3>2, InvParts DEF NotBehind
    <2>21. InOrder'
        <3>1. migrations' # 0
            BY <1>3, <2>3
        <3> QED
            BY <2>10, <2>13, <3>1, InvParts DEF InOrder, Active
    <2>22. BodyHears'
        <3> SUFFICES ASSUME NEW p \in BaseProps \ missed', NEW v \in Nat, Carries(p, v)'
                     PROVE  \/ v = value[Base][p]
                            \/ p \in runtime[Base]
                            \/ \E d \in Cells : In(net[<<Base, d>>], p, value[Base][p])
            BY <1>1, <2>13 DEF BodyHears
        <3>1. p \in Props /\ p \notin missed /\ p \notin bases /\ value[c][p] \in Nat
            BY <1>3, <2>3, PartFacts
        <3>2. v = value[c][p]
            BY <2>2, <2>11, <3>1
        <3> QED
            BY <2>12, <3>1, <3>2, InvParts DEF BodyHears
    <2>23. BaseHears'
        <3> SUFFICES ASSUME NEW p \in CellProps, p \notin untold', NEW v \in Nat, Carries(p, v)'
                     PROVE  \/ value[Base][p] = v
                            \/ \E d \in Cells : In(net[<<d, Base>>], p, v)
            BY <1>1, <2>13 DEF BaseHears
        <3>1. p \in Props /\ p \notin untold /\ p \notin cells /\ p \notin runtime[c]
              /\ value[c][p] \in Nat
            BY <1>3, <2>3, PartFacts
        <3>2. v = value[c][p]
            BY <2>2, <2>11, <3>1
        <3>3. \A d \in Cells : ~ (Active(d) /\ p \in runtime[d])
            BY <2>6, <3>1
        <3> QED
            BY <2>12, <3>1, <3>2, <3>3, InvParts DEF BaseHears
    <2>24. GhostHears'
        <3>1. \A d \in shadow : d \in Cells /\ body[d] # "None"
            BY InvParts DEF Typed, GhostHears
        <3> QED
            BY <1>1, <2>9, <2>10, <3>1 DEF GhostHears, Active
    <2>25. ClientHears'
        BY <1>1, InvParts, ClientHearsKept
    <2> QED
        BY <2>14, <2>15, <2>16, <2>18, <2>19, <2>20, <2>21, <2>22, <2>23, <2>24, <2>25 DEF Inv
<1> QED
    BY <1>2, <1>3 DEF BeginMigration

LEMMA ApplyGhostSyncStep ==
    ASSUME Inv, NEW c \in Cells, ApplyGhostSync(c)
    PROVE  Inv'
<1> DEFINE q == net[<<c, Ghost>>]
           m == Head(q)
<1>1. /\ q # <<>> /\ m.kind = "ghost" /\ net' = Taken(c, Ghost)
      /\ value' = Applied(Ghost, m.delta)
      /\ unseen' = IF Active(c) THEN unseen ELSE unseen \cup DOMAIN m.delta
      /\ UNCHANGED <<runtime, view, client, body, asked, cellCall, shadow, wire, screen, writes,
                     migrations, missed, untold, unheard>>
    BY DEF ApplyGhostSync, Arrived, Payload, placeVars, boundVars
<1>2. /\ net' \in [Links -> Seq(Messages)]
      /\ q \in Seq(Messages) /\ m \in Messages /\ ~ IsCargo(m)
      /\ net'[<<c, Ghost>>] = Tail(q)
      /\ \A l \in Links : l # <<c, Ghost>> => net'[l] = net[l]
      /\ \A l \in Links : \A p, v : In(net'[l], p, v) => In(net[l], p, v)
      /\ \A p, v : Says(m, p, v) => In(q, p, v)
      /\ \A l \in Links : /\ Has(net'[l]) => Has(net[l])
                          /\ Once(net[l]) => Once(net'[l])
                          /\ \A p, v : Brings(net'[l], p, v) => Brings(net[l], p, v)
    <2>1. c \in Parts /\ Ghost \in Parts /\ Typed
        BY InvParts, PartFacts
    <2> QED
        BY <1>1, <2>1, Taking DEF IsCargo
<1>3. \A p \in DOMAIN m.delta : /\ m.delta[p] \in Nat /\ In(q, p, m.delta[p]) /\ p \in Props
    <2>1. m.delta \in Deltas
        BY <1>2 DEF Messages
    <2> QED
        BY <1>2, <2>1, DeltaFacts DEF Says
<1>4. /\ value' \in [Parts -> [Props -> Nat]]
      /\ \A x \in Parts : x # Ghost => value'[x] = value[x]
      /\ \A p \in Props : value'[Ghost][p] = IF p \in DOMAIN m.delta THEN m.delta[p]
                                             ELSE value[Ghost][p]
    <2>1. value[Ghost] \in [Props -> Nat] /\ value \in [Parts -> [Props -> Nat]] /\ Ghost \in Parts
        BY InvParts, PartFacts DEF Typed
    <2>2. m.delta \in Deltas
        BY <1>2 DEF Messages
    <2>3. /\ Over(m.delta, value[Ghost]) \in [Props -> Nat]
          /\ \A p \in Props : Over(m.delta, value[Ghost])[p] =
                                IF p \in DOMAIN m.delta THEN m.delta[p] ELSE value[Ghost][p]
        BY <2>1, <2>2, OverFacts
    <2>4. value' = [value EXCEPT ![Ghost] = Over(m.delta, value[Ghost])]
        BY <1>1 DEF Applied
    <2> HIDE DEF m
    <2> QED
        BY <2>1, <2>3, <2>4
<1> HIDE DEF m
<1>5. Typed'
    BY <1>1, <1>2, <1>4, InvParts DEF Typed
<1>6. /\ value'[Base] = value[Base]
      /\ \A d \in Cells : /\ value'[d] = value[d]
                          /\ net'[<<d, Base>>] = net[<<d, Base>>]
                          /\ net'[<<Base, d>>] = net[<<Base, d>>]
                          /\ d # c => net'[<<d, Ghost>>] = net[<<d, Ghost>>]
    BY <1>2, <1>4, PartFacts
<1>7. OwnAlone'
    BY <1>1, <1>6, InvParts DEF OwnAlone
<1>8. Bounded'
    <2>1. ASSUME NEW x \in Parts, NEW p \in Props
          PROVE  value'[x][p] <= Limit(p)
        <3>1. CASE x = Ghost /\ p \in DOMAIN m.delta
            BY <1>3, <1>4, <3>1, InvParts, PartFacts DEF Bounded
        <3>2. CASE ~ (x = Ghost /\ p \in DOMAIN m.delta)
            BY <1>4, <3>2, InvParts DEF Bounded
        <3> QED
            BY <3>1, <3>2
    <2> QED
        BY <1>1, <1>2, <1>5, <1>6, <2>1, InvParts, BoundedKept
<1>9. Unique' /\ Elsewhere'
    <2>1. \A t \in Cells : Untouched(t) => Untouched(t)'
        BY <1>1, <1>6 DEF Untouched
    <2> QED
        BY <1>1, <1>2, <2>1, InvParts, PartFacts, UniqueKept, ElsewhereKept
<1>10. \A p, v : Carries(p, v)' => Carries(p, v)
    BY <1>1, <1>2, <1>6, CarriesKept
<1>11. NotBehind' /\ BaseHears' /\ BodyHears'
    <2>1. \A p \in BaseProps : value[Base][p] \in Nat
        BY InvParts, PartFacts, Numbers
    <2> QED
        BY <1>1, <1>6, <1>10, <2>1, InvParts, PartFacts, NotBehindKept, BaseHearsKept, BodyHearsKept
<1>12. InOrder' /\ ClientHears'
    BY <1>1, <1>6, InvParts, InOrderKept, ClientHearsKept
<1>13. GhostHears'
    <2> SUFFICES ASSUME NEW d \in shadow
                 PROVE  /\ body[d] # "None"
                        /\ Active(d) => \A p \in Props \ unseen' :
                            \/ p \in view[d]
                            \/ Latest(net'[<<d, Ghost>>], value'[Ghost][p], p, value[d][p])
        <3>1. \A d \in shadow : d \in Cells
            BY InvParts DEF Typed
        <3> QED
            BY <1>1, <1>6, <3>1 DEF GhostHears, Active
    <2>1. d \in Cells /\ body[d] # "None"
        BY InvParts DEF Typed, GhostHears
    <2>2. ASSUME Active(d), NEW p \in Props \ unseen', p \notin view[d]
          PROVE  Latest(net'[<<d, Ghost>>], value'[Ghost][p], p, value[d][p])
        <3>1. Latest(net[<<d, Ghost>>], value[Ghost][p], p, value[d][p])
            BY <1>1, <2>2, InvParts DEF GhostHears
        <3>2. CASE d = c
            <4>1. Latest(q, value[Ghost][p], p, value[c][p])
                BY <3>1, <3>2
            <4>2. Latest(Tail(q), IF p \in DOMAIN m.delta THEN m.delta[p] ELSE value[Ghost][p],
                         p, value[c][p])
                BY <1>1, <1>2, <4>1, TakenLatest DEF m
            <4> QED
                BY <1>2, <1>4, <3>2, <4>2
        <3>3. CASE d # c
            <4>1. ~ Active(c)
                BY <2>1, <2>2, <3>3, InvParts DEF Unique
            <4> QED
                BY <1>1, <1>4, <1>6, <2>1, <2>2, <3>1, <3>3, <4>1
        <3> QED
            BY <3>2, <3>3
    <2> QED
        BY <2>1, <2>2
<1> QED
    BY <1>5, <1>7, <1>8, <1>9, <1>11, <1>12, <1>13 DEF Inv

\* A snapshot that meets a body: the entity is nowhere, or was elsewhere.
LEMMA DroppedTransferStep ==
    ASSUME Inv, NEW s \in Cells, NEW c \in Cells, ApplyMigrationTransfer(s, c), body[c] # "None"
    PROVE  Inv'
<1>1. /\ net[<<s, c>>] # <<>> /\ Head(net[<<s, c>>]).kind = "transfer" /\ net' = Taken(s, c)
      /\ UNCHANGED <<value, runtime, view, client, body, asked, cellCall, shadow, wire, screen,
                     writes, migrations, missed, untold, unseen, unheard>>
    BY DEF ApplyMigrationTransfer, Arrived, boundVars, historyVars
<1>2. /\ net' \in [Links -> Seq(Messages)]
      /\ \A l \in Links : l # <<s, c>> => net'[l] = net[l]
      /\ \A l \in Links : \A p, v : In(net'[l], p, v) => In(net[l], p, v)
      /\ \A l \in Links : /\ Has(net'[l]) => Has(net[l])
                          /\ Once(net[l]) => Once(net'[l])
                          /\ \A p, v : Brings(net'[l], p, v) => Brings(net[l], p, v)
    <2>1. s \in Parts /\ c \in Parts /\ Typed /\ <<s, c>> \in Links
        BY InvParts, PartFacts
    <2>2. /\ net' \in [Links -> Seq(Messages)] /\ net[<<s, c>>] \in Seq(Messages)
          /\ Head(net[<<s, c>>]) \in Messages /\ net'[<<s, c>>] = Tail(net[<<s, c>>])
          /\ \A l \in Links : l # <<s, c>> => net'[l] = net[l]
          /\ \A l \in Links : \A p, v : In(net'[l], p, v) => In(net[l], p, v)
        BY <1>1, <2>1, Taking
    <2>3. ~ Has(net'[<<s, c>>])
        <3>1. Once(net[<<s, c>>]) /\ IsCargo(Head(net[<<s, c>>]))
            BY <1>1, <2>1, InvParts DEF Unique, IsCargo
        <3> QED
            BY <1>1, <2>2, <3>1, TakenCargo
    <2>4. /\ \A p, v : ~ Brings(net'[<<s, c>>], p, v)
          /\ Once(net'[<<s, c>>])
        BY <2>3 DEF Brings, Has, Once
    <2> QED
        BY <2>2, <2>3, <2>4
<1>3. Typed'
    BY <1>1, <1>2, InvParts DEF Typed
<1>4. \A d \in Cells : /\ net'[<<d, Base>>] = net[<<d, Base>>]
                       /\ net'[<<Base, d>>] = net[<<Base, d>>]
                       /\ net'[<<d, Ghost>>] = net[<<d, Ghost>>]
    BY <1>2, PartFacts
<1>5. OwnAlone'
    BY <1>1, <1>4, InvParts DEF OwnAlone
<1>6. Bounded'
    BY <1>1, <1>2, <1>3, InvParts, BoundedKept DEF Bounded
<1>7. Unique' /\ Elsewhere'
    <2>1. \A t \in Cells : Untouched(t) => Untouched(t)'
        BY <1>1, <1>4 DEF Untouched
    <2> QED
        BY <1>1, <1>2, <2>1, InvParts, PartFacts, UniqueKept, ElsewhereKept
<1>8. \A p, v : Carries(p, v)' => Carries(p, v)
    BY <1>1, <1>2, CarriesKept
<1>9. NotBehind' /\ BaseHears' /\ BodyHears'
    <2>1. \A p \in BaseProps : value[Base][p] \in Nat
        BY InvParts, PartFacts, Numbers
    <2> QED
        BY <1>1, <1>4, <1>8, <2>1, InvParts, PartFacts, NotBehindKept, BaseHearsKept, BodyHearsKept
<1>10. InOrder' /\ ClientHears'
    BY <1>1, <1>4, InvParts, InOrderKept, ClientHearsKept
<1>11. GhostHears'
    BY <1>1, <1>4, InvParts, GhostHearsKept
<1> QED
    BY <1>3, <1>5, <1>6, <1>7, <1>9, <1>10, <1>11 DEF Inv

LEMMA ApplyMigrationTransferStep ==
    ASSUME Inv, NEW s \in Cells, NEW c \in Cells, ApplyMigrationTransfer(s, c)
    PROVE  Inv'
<1>30. SUFFICES ASSUME body[c] = "None" PROVE Inv'
    BY DroppedTransferStep
<1> DEFINE q == net[<<s, c>>]
           m == Head(q)
           n == Taken(s, c)
           k == Sent(n, c, Base, Quiet("ready"))
<1>1. /\ q # <<>> /\ m.kind = "transfer" /\ body[c] = "None"
      /\ value' = [value EXCEPT ![c] = Restored(m.delta)]
      /\ runtime' = Cleared(runtime, c) /\ view' = Cleared(view, c)
      /\ body' = [body EXCEPT ![c] = "Active"]
      /\ net' = Sent(k, c, s, Quiet("commit"))
      /\ UNCHANGED <<client, asked, cellCall, shadow, wire, screen, writes, migrations,
                     missed, untold, unseen, unheard>>
    BY <1>30 DEF ApplyMigrationTransfer, Arrived, Payload, boundVars, historyVars
<1>2. /\ s \in Parts /\ c \in Parts /\ Base \in Parts /\ <<s, c>> \in Links
      /\ net \in [Links -> Seq(Messages)] /\ q \in Seq(Messages)
      /\ value \in [Parts -> [Props -> Nat]]
    BY InvParts, PartFacts DEF Typed
<1>3. m \in Messages /\ IsCargo(m) /\ m.delta \in Deltas
    <2>1. m \in Messages
        BY <1>1, <1>2, TailFacts
    <2> QED
        BY <1>1, <2>1 DEF IsCargo, Messages
<1>4. /\ n \in [Links -> Seq(Messages)] /\ n[<<s, c>>] = Tail(q)
      /\ \A l \in Links : l # <<s, c>> => n[l] = net[l]
    BY <1>1, <1>2, TakenFacts
<1>5. /\ \A p, v : In(q, p, v) <=> Says(m, p, v) \/ In(Tail(q), p, v)
      /\ Has(q) /\ (Once(q) => ~ Has(Tail(q)))
      /\ \A p : Brings(q, p, Restored(m.delta)[p])
    BY <1>1, <1>2, <1>3, TakenSays, TakenCargo
<1> HIDE DEF m, n
<1>6. /\ k \in [Links -> Seq(Messages)]
      /\ \A l \in Links : l # <<c, Base>> => k[l] = n[l]
      /\ \A l \in Links : /\ Has(k[l]) <=> Has(n[l])
                          /\ \A p, v : In(k[l], p, v) <=> In(n[l], p, v)
                          /\ \A S : About(n[l], S) => About(k[l], S)
    <2>1. "ready" \in {"ready", "commit"}
        OBVIOUS
    <2> QED
        BY <1>2, <1>4, <2>1, QuietKeeps
<1> HIDE DEF k
<1>7. /\ net' \in [Links -> Seq(Messages)]
      /\ \A l \in Links : l # <<c, s>> => net'[l] = k[l]
      /\ \A l \in Links : /\ Has(net'[l]) <=> Has(k[l])
                          /\ \A p, v : In(net'[l], p, v) <=> In(k[l], p, v)
                          /\ \A S : About(k[l], S) => About(net'[l], S)
    <2>1. "commit" \in {"ready", "commit"} /\ net' = Sent(k, c, s, Quiet("commit"))
        BY <1>1
    <2>2. k \in [Links -> Seq(Messages)] /\ c \in Parts /\ s \in Parts
        BY <1>2, <1>6
    <2> QED
        BY <2>1, <2>2, QuietKeeps
\* The entity was in the message.
<1>8. /\ \A d \in Cells : ~ Active(d)
      /\ \A l \in Links : l # <<s, c>> => ~ Has(net[l])
      /\ Once(q) /\ asked = TRUE
    BY <1>2, <1>5, InvParts DEF Unique, Typed
<1>9. \A l \in Links : ~ Has(net'[l])
    BY <1>2, <1>4, <1>5, <1>6, <1>7, <1>8
<1>10. /\ migrations # 0 /\ (migrations <= 1 => Untouched(c))
    BY <1>5, InvParts DEF Elsewhere
<1>11. /\ body' \in [Cells -> {"None", "Active", "Migrating"}] /\ body'[c] = "Active"
       /\ \A d \in Cells : d # c => body'[d] = body[d]
    BY <1>1, InvParts DEF Typed
<1>12. \A d \in Cells : body'[d] = "Active" => d = c
    BY <1>8, <1>11 DEF Active
<1>13. \A p, v : Carries(p, v)' <=> v = value'[c][p]
    BY <1>9, <1>11, <1>12, BringsHas DEF Carries, Active
<1>14. \A p : Carries(p, Restored(m.delta)[p])
    BY <1>2, <1>5 DEF Carries
<1>15. /\ value' \in [Parts -> [Props -> Nat]] /\ value'[c] = Restored(m.delta)
       /\ value'[Base] = value[Base]
       /\ \A x \in Parts : x # c => value'[x] = value[x]
    <2>1. Restored(m.delta) \in [Props -> Nat] /\ c # Base
        BY <1>3, PartFacts, RestoredFacts
    <2> QED
        BY <1>1, <1>2, <2>1
<1>16. \A p : Carries(p, value'[c][p])
    BY <1>14, <1>15
<1>17. /\ runtime' \in [Parts -> SUBSET Props] /\ view' \in [Parts -> SUBSET Props]
       /\ runtime'[c] = {} /\ runtime'[Base] = runtime[Base]
       /\ \A d \in Cells : d # c => runtime'[d] = runtime[d]
    BY <1>1, InvParts, PartFacts DEF Typed, Cleared
<1>18. Typed'
    BY <1>1, <1>7, <1>11, <1>15, <1>17, InvParts DEF Typed
<1>19. \A l \in Links : \A p, v : In(net'[l], p, v) => In(net[l], p, v)
    BY <1>2, <1>4, <1>5, <1>6, <1>7
<1>20. \A d \in Cells :
            /\ net'[<<Base, d>>] = net[<<Base, d>>]
            /\ \A p, v : In(net'[<<d, Base>>], p, v) <=> In(net[<<d, Base>>], p, v)
            /\ \A S : About(net[<<d, Base>>], S) => About(net'[<<d, Base>>], S)
            /\ d # c => net'[<<d, Base>>] = net[<<d, Base>>]
    <2> TAKE d \in Cells
    <2>1. /\ <<Base, d>> \in Links /\ <<d, Base>> \in Links
          /\ <<Base, d>> # <<s, c>> /\ <<Base, d>> # <<c, Base>> /\ <<Base, d>> # <<c, s>>
          /\ <<d, Base>> # <<s, c>> /\ <<d, Base>> # <<c, s>>
          /\ d # c => <<d, Base>> # <<c, Base>>
        BY PartFacts
    <2> QED
        BY <1>4, <1>6, <1>7, <2>1
<1>21. OwnAlone'
    BY <1>17, <1>20, InvParts DEF OwnAlone
<1>22. Bounded'
    <2>1. ASSUME NEW x \in Parts, NEW p \in Props
          PROVE  value'[x][p] <= Limit(p)
        <3>1. value[x][p] <= Limit(p) /\ Limit(p) \in Nat
            BY InvParts, PartFacts, Numbers DEF Bounded, Limit
        <3>2. CASE x = c /\ p \in DOMAIN m.delta
            <4>1. m.delta[p] \in Nat /\ In(q, p, m.delta[p])
                BY <1>3, <1>5, <3>2, DeltaFacts DEF Says
            <4>2. m.delta[p] <= Limit(p)
                BY <1>2, <4>1, InvParts DEF Bounded
            <4> QED
                BY <1>3, <1>15, <3>2, <4>2, RestoredFacts
        <3>3. CASE x = c /\ p \notin DOMAIN m.delta
            BY <1>3, <1>15, <3>1, <3>3, RestoredFacts
        <3>4. CASE x # c
            BY <1>15, <3>1, <3>4
        <3> QED
            BY <3>2, <3>3, <3>4
    <2> QED
        BY <1>1, <1>15, <1>18, <1>19, <2>1, InvParts, BoundedKept
<1>23. Unique' /\ Elsewhere'
    <2>1. Unique'
        BY <1>1, <1>8, <1>9, <1>12 DEF Unique, Active, Has, Once
    <2>2. \A x, d \in Cells : ~ Has(net'[<<x, d>>])
        BY <1>9, PartFacts
    <2> QED
        BY <1>1, <1>8, <1>10, <2>1, <2>2 DEF Elsewhere
<1>24. NotBehind'
    <2> SUFFICES ASSUME NEW p \in CellProps, p \notin untold
                 PROVE  /\ value[Base][p] <= value'[c][p]
                        /\ \A d \in Cells, u \in Nat : In(net[<<d, Base>>], p, u) => u <= value'[c][p]
        BY <1>1, <1>10, <1>13, <1>15, <1>20 DEF NotBehind
    <2>1. value'[c][p] \in Nat
        BY <1>2, <1>15, PartFacts
    <2> QED
        BY <1>16, <2>1, InvParts DEF NotBehind
<1>25. InOrder'
    <2>1. ASSUME migrations <= 1, NEW p \in BaseProps, NEW v \in Nat, In(net'[<<Base, c>>], p, v)
          PROVE  FALSE
        <3>1. net'[<<Base, c>>] = <<>>
            BY <1>10, <1>20, <2>1 DEF Untouched
        <3> QED
            BY <2>1, <3>1, NothingSaid
    <2> QED
        BY <1>1, <1>10, <1>12, <1>20, <2>1, InvParts DEF InOrder, Active
<1>26. BodyHears'
    <2> SUFFICES ASSUME NEW p \in BaseProps \ missed
                 PROVE  \/ value'[c][p] = value[Base][p]
                        \/ p \in runtime[Base]
                        \/ \E d \in Cells : In(net[<<Base, d>>], p, value[Base][p])
        BY <1>1, <1>13, <1>15, <1>17, <1>20 DEF BodyHears
    <2>1. value'[c][p] \in Nat
        BY <1>2, <1>15, PartFacts
    <2> QED
        BY <1>16, <2>1, InvParts DEF BodyHears
<1>27. BaseHears'
    <2> SUFFICES ASSUME NEW p \in CellProps, p \notin untold'
                 PROVE  \/ value[Base][p] = value'[c][p]
                        \/ \E d \in Cells : In(net'[<<d, Base>>], p, value'[c][p])
        BY <1>13, <1>15 DEF BaseHears
    <2>1. value'[c][p] \in Nat
        BY <1>2, <1>15, PartFacts
    <2>2. \/ value[Base][p] = value'[c][p]
          \/ \E d \in Cells : In(net[<<d, Base>>], p, value'[c][p])
        BY <1>1, <1>8, <1>16, <2>1, InvParts DEF BaseHears
    <2> QED
        BY <1>20, <2>2
<1>28. GhostHears'
    <2>1. \A d \in shadow : d \in Cells /\ body[d] # "None" /\ d # c
        BY <1>1, InvParts DEF Typed, GhostHears
    <2> QED
        BY <1>1, <1>11, <1>12, <2>1 DEF GhostHears, Active
<1>29. ClientHears'
    BY <1>1, <1>15, InvParts, ClientHearsKept
<1> QED
    BY <1>18, <1>21, <1>22, <1>23, <1>24, <1>25, <1>26, <1>27, <1>28, <1>29 DEF Inv

LEMMA ApplyMigrationCommitStep ==
    ASSUME Inv, NEW s \in Cells, NEW c \in Cells, ApplyMigrationCommit(s, c)
    PROVE  Inv'
<1> DEFINE q == net[<<s, c>>]
           m == Head(q)
<1>1. /\ q # <<>> /\ m.kind = "commit" /\ net' = Taken(s, c) /\ body[c] = "Migrating"
      /\ body' = [body EXCEPT ![c] = "None"]
      /\ runtime' = Cleared(runtime, c) /\ view' = Cleared(view, c)
      /\ shadow' = shadow \ {c}
      /\ UNCHANGED <<value, client, asked, cellCall, wire, screen, writes, migrations,
                     missed, untold, unseen, unheard>>
    BY DEF ApplyMigrationCommit, Arrived, boundVars, historyVars
<1>2. /\ net' \in [Links -> Seq(Messages)]
      /\ m \in Messages /\ ~ IsCargo(m)
      /\ \A l \in Links : l # <<s, c>> => net'[l] = net[l]
      /\ \A l \in Links : \A p, v : In(net'[l], p, v) => In(net[l], p, v)
      /\ \A l \in Links : /\ Has(net'[l]) => Has(net[l])
                          /\ Once(net[l]) => Once(net'[l])
                          /\ \A p, v : Brings(net'[l], p, v) => Brings(net[l], p, v)
    <2>1. c \in Parts /\ s \in Parts /\ Typed
        BY InvParts, PartFacts
    <2> QED
        BY <1>1, <2>1, Taking DEF IsCargo
<1> HIDE DEF m
<1>3. /\ body' \in [Cells -> {"None", "Active", "Migrating"}]
      /\ body'[c] = "None" /\ ~ Active(c)
      /\ \A d \in Cells : d # c => body'[d] = body[d]
    BY <1>1, InvParts DEF Typed, Active
<1>4. /\ runtime' \in [Parts -> SUBSET Props] /\ view' \in [Parts -> SUBSET Props]
      /\ runtime'[c] = {} /\ runtime'[Base] = runtime[Base]
      /\ \A d \in Cells : d # c => runtime'[d] = runtime[d] /\ view'[d] = view[d]
    BY <1>1, InvParts, PartFacts DEF Typed, Cleared
<1>5. Typed'
    <2>1. shadow' \in SUBSET Cells
        BY <1>1, InvParts DEF Typed
    <2> QED
        BY <1>1, <1>2, <1>3, <1>4, <2>1, InvParts DEF Typed
<1>6. \A d \in Cells : Active(d)' <=> Active(d)
    BY <1>3 DEF Active
<1>7. \A d \in Cells : /\ net'[<<Base, d>>] = net[<<Base, d>>]
                       /\ net'[<<d, Base>>] = net[<<d, Base>>]
                       /\ net'[<<d, Ghost>>] = net[<<d, Ghost>>]
                       /\ \A e \in Cells : <<d, e>> \in Links
    BY <1>2, PartFacts
<1>8. OwnAlone'
    BY <1>4, <1>7, InvParts DEF OwnAlone
<1>9. Bounded'
    <2>1. \A x \in Parts, p \in Props : value'[x][p] <= Limit(p)
        BY <1>1, InvParts DEF Bounded
    <2> QED
        BY <1>1, <1>2, <1>5, <2>1, InvParts, BoundedKept
<1>10. Unique'
    BY <1>1, <1>2, <1>6, InvParts DEF Unique
<1>11. Elsewhere'
    <2>1. \A t \in Cells : Untouched(t) => Untouched(t)'
        BY <1>1, <1>3, <1>7 DEF Untouched
    <2> QED
        BY <1>1, <1>2, <1>7, <2>1, InvParts DEF Elsewhere
<1>12. \A p, v : Carries(p, v)' => Carries(p, v)
    BY <1>1, <1>2, <1>6 DEF Carries
<1>13. NotBehind'
    BY <1>1, <1>7, <1>12, InvParts, NotBehindKept
<1>14. InOrder'
    BY <1>1, <1>6, <1>7, InvParts DEF InOrder
<1>15. BodyHears'
    <2>1. \A p \in BaseProps : value[Base][p] \in Nat
        BY InvParts, PartFacts, Numbers
    <2> QED
        BY <1>1, <1>4, <1>7, <1>12, <2>1, InvParts, BodyHearsKept
<1>16. BaseHears'
    <2>1. \A d \in Cells : Active(d) => runtime'[d] = runtime[d]
        BY <1>3, <1>4
    <2> QED
        BY <1>1, <1>6, <1>7, <1>12, <2>1, InvParts DEF BaseHears
<1>17. GhostHears'
    <2> SUFFICES ASSUME NEW d \in shadow'
                 PROVE  /\ body'[d] # "None"
                        /\ Active(d) => \A p \in Props \ unseen :
                            \/ p \in view'[d]
                            \/ Latest(net'[<<d, Ghost>>], value[Ghost][p], p, value[d][p])
        <3>1. \A d \in shadow' : d \in Cells
            BY <1>1, InvParts DEF Typed
        <3> QED
            BY <1>1, <1>6, <3>1 DEF GhostHears
    <2>1. d \in Cells /\ d # c /\ d \in shadow
        BY <1>1, InvParts DEF Typed
    <2> QED
        BY <1>3, <1>4, <1>7, <2>1, InvParts DEF GhostHears
<1>18. ClientHears'
    BY <1>1, InvParts, ClientHearsKept
<1> QED
    BY <1>5, <1>8, <1>9, <1>10, <1>11, <1>13, <1>14, <1>15, <1>16, <1>17, <1>18 DEF Inv

-----------------------------------------------------------------------------
(* The specification.                                                        *)
LEMMA InitInv ==
    ASSUME Init
    PROVE  Inv
<1>1. /\ value = [x \in Parts |-> Default] /\ Default = [p \in Props |-> 0]
      /\ net = [l \in Parts \X Parts |-> <<>>] /\ wire = <<>> /\ screen = Default
      /\ body = [c \in Cells |-> "None"] /\ asked = FALSE
      /\ runtime = [x \in Parts |-> {}] /\ view = [x \in Parts |-> {}]
      /\ client = {} /\ shadow = {} /\ cellCall = Nowhere
      /\ writes = 0 /\ migrations = 0
    BY DEF Init, Default
<1>2. \A l \in Links : net[l] = <<>>
    BY <1>1 DEF Links
<1>3. \A x \in Parts, p \in Props : value[x][p] = 0
    BY <1>1
<1>4. Typed
    <2>1. <<>> \in Seq(Messages) /\ <<>> \in Seq(Deltas)
        OBVIOUS
    <2>2. net \in [Links -> Seq(Messages)] /\ wire \in Seq(Deltas)
        BY <1>1, <2>1 DEF Links
    <2>3. value \in [Parts -> [Props -> Nat]] /\ screen \in [Props -> Nat]
        BY <1>1
    <2> QED
        BY <1>1, <2>2, <2>3 DEF Typed
<1>5. \A l \in Links : /\ ~ Has(net[l]) /\ Once(net[l])
                       /\ \A p, v : ~ In(net[l], p, v) /\ ~ Brings(net[l], p, v)
                       /\ \A S : About(net[l], S)
                       /\ \A p : Sorted(net[l], p)
    <2>1. Once(<<>>) /\ (\A S : About(<<>>, S)) /\ (\A p : Sorted(<<>>, p))
        BY DEF Once, About, Sorted
    <2> QED
        BY <1>2, <2>1, NothingSaid
<1>6. \A c \in Cells : /\ <<c, Base>> \in Links /\ <<Base, c>> \in Links /\ c \in Parts
                       /\ \A d \in Cells : <<c, d>> \in Links
    BY PartFacts
<1>7. OwnAlone
    BY <1>1, <1>5, <1>6, PartFacts DEF OwnAlone
<1>8. Bounded
    <2>1. \A p \in Props : value[Base][p] = 0 /\ Limit(p) = 0
        BY <1>1, <1>3, PartFacts DEF Limit
    <2>2. writes = 0 /\ writes <= MaxWrites
        BY <1>1, PartFacts
    <2> QED
        BY <1>3, <1>5, <2>1, <2>2 DEF Bounded
<1>9. \A c \in Cells : body[c] = "None" /\ ~ Active(c)
    BY <1>1 DEF Active
<1>10. Unique
    BY <1>1, <1>5, <1>9 DEF Unique
<1>11. Elsewhere
    <2>1. \A t \in Cells : Untouched(t)
        BY <1>1, <1>2, <1>6, <1>9, PartFacts DEF Untouched
    <2> QED
        BY <1>1, <1>5, <1>6, <2>1 DEF Elsewhere
<1>12. \A p, v : ~ Carries(p, v)
    BY <1>5, <1>9 DEF Carries
<1>13. NotBehind /\ BodyHears /\ BaseHears
    BY <1>12 DEF NotBehind, BodyHears, BaseHears
<1>14. InOrder
    BY <1>5, <1>6, <1>9 DEF InOrder
<1>15. GhostHears
    BY <1>1 DEF GhostHears
<1>16. ClientHears
    <2>1. DOMAIN Updates = {}
        BY <1>1 DEF Updates
    <2> QED
        BY <1>1, <1>3, <2>1, PartFacts DEF ClientHears, Latest, Default
<1> QED
    BY <1>4, <1>7, <1>8, <1>10, <1>11, <1>13, <1>14, <1>15, <1>16 DEF Inv

LEMMA NextInv ==
    ASSUME Inv, [Next]_vars
    PROVE  Inv'
<1>1. ASSUME NEW p \in Props, BaseWrite(p)
      PROVE  Inv'
    BY <1>1, BaseWriteStep
<1>2. ASSUME NEW p \in Props, NEW c \in Cells, CellWrite(c, p)
      PROVE  Inv'
    BY <1>2, CellWriteStep
<1>3. ASSUME SyncToCells \/ FlushClient \/ Show
      PROVE  Inv'
    BY <1>3, SyncToCellsStep, FlushClientStep, ShowStep
<1>4. ASSUME NEW c \in Cells, RequestCreateCell(c) \/ HandleCellReady(c) \/ SyncFromCell(c)
      PROVE  Inv'
    BY <1>4, RequestCreateCellStep, HandleCellReadyStep, SyncFromCellStep
<1>5. ASSUME NEW c \in Cells, HandleCreateCell(c) \/ SyncFromBase(c) \/ CellSync(c)
      PROVE  Inv'
    BY <1>5, HandleCreateCellStep, SyncFromBaseStep, CellSyncStep
<1>6. ASSUME NEW c \in Cells, EnsureRealGhost(c) \/ ApplyGhostSync(c)
      PROVE  Inv'
    BY <1>6, EnsureRealGhostStep, ApplyGhostSyncStep
<1>7. ASSUME NEW c \in Cells, NEW t \in Cells,
             BeginMigration(c, t) \/ ApplyMigrationTransfer(t, c) \/ ApplyMigrationCommit(t, c)
      PROVE  Inv'
    BY <1>7, BeginMigrationStep, ApplyMigrationTransferStep, ApplyMigrationCommitStep
<1>8. CASE UNCHANGED vars
    <2>1. UNCHANGED <<value, runtime, view, client, body, asked, cellCall, shadow, net, wire,
                      screen, writes, migrations, missed, untold, unseen, unheard>>
        BY <1>8 DEF vars, blockVars, placeVars, boundVars, historyVars
    <2>2. Typed' /\ ClientHears'
        BY <2>1, InvParts DEF Typed, ClientHears, Updates
    <2> QED
        BY <2>1, <2>2, CoreKept DEF Inv
<1> QED
    BY <1>1, <1>2, <1>3, <1>4, <1>5, <1>6, <1>7, <1>8 DEF Next

(***************************************************************************)
(* The invariant holds: the entity is at most at one place, no value that the *)
(* base has is newer than the body's, deltas of one link do not go back until a *)
(* body has come back to a CellApp, and who listens hears what is new.         *)
(***************************************************************************)
THEOREM InvHolds == Spec => []Inv
<1>1. Init => Inv
    BY InitInv
<1>2. Inv /\ [Next]_vars => Inv'
    BY NextInv
<1> QED
    BY <1>1, <1>2, PTL DEF Spec

\* What a link says is under way.
LEMMA InUnderWay ==
    ASSUME NEW x \in Parts, NEW y, NEW p, NEW v, In(net[<<x, y>>], p, v)
    PROVE  UnderWay(y, p, v)
BY DEF In, Says, UnderWay

(***************************************************************************)
(* The base part and the body have each other's values, or these are dirty or  *)
(* under way, whatever migrates, is refused or comes late; what is lost is     *)
(* what the history variables name (BaseRuntime::syncToCells,                  *)
(* CellRuntime::syncToBases, handlePropertySyncFromBase, EntityMigration).      *)
(***************************************************************************)
THEOREM OwnersStayCurrent == Spec => []OwnersAreCurrent
<1>1. Inv => OwnersAreCurrent
    <2> SUFFICES ASSUME Inv
                 PROVE  OwnersAreCurrent
        OBVIOUS
    <2>1. TypeOK
        <3>1. value \in [Parts -> [Props -> 0..MaxWrites]]
            <4>1. ASSUME NEW x \in Parts, NEW p \in Props
                  PROVE  value[x][p] \in 0..MaxWrites
                <5>1. /\ value[x][p] \in Nat /\ value[Base][p] \in Nat
                      /\ writes \in Nat /\ MaxWrites \in Nat
                    BY InvParts, PartFacts, Numbers
                <5>2. value[x][p] <= Limit(p) /\ value[Base][p] <= writes /\ writes <= MaxWrites
                    BY InvParts DEF Bounded
                <5> QED
                    BY <5>1, <5>2 DEF Limit
            <4> QED
                BY <4>1, InvParts DEF Typed
        <3> QED
            BY <3>1, InvParts, PartFacts DEF TypeOK, Typed, OwnAlone
    <2>2. ASSUME NEW c \in Cells, Active(c)
          PROVE  \A p : Carries(p, value[c][p])
        BY <2>2 DEF Carries
    <2>3. CellIsCurrent
        <3> SUFFICES ASSUME NEW c \in Cells, Active(c), NEW p \in BaseProps \ missed
                     PROVE  \/ value[c][p] = value[Base][p]
                            \/ p \in runtime[Base]
                            \/ \E d \in Cells : UnderWay(d, p, value[Base][p])
            BY DEF CellIsCurrent
        <3>1. value[c][p] \in Nat
            BY InvParts, PartFacts, Numbers
        <3> QED
            BY <2>2, <3>1, InvParts, InUnderWay, PartFacts DEF BodyHears
    <2>4. BaseIsCurrent
        <3> SUFFICES ASSUME NEW c \in Cells, Active(c), NEW p \in CellProps \ untold
                     PROVE  \/ value[Base][p] = value[c][p]
                            \/ p \in runtime[c]
                            \/ UnderWay(Base, p, value[c][p])
            BY DEF BaseIsCurrent
        <3>1. value[c][p] \in Nat
            BY InvParts, PartFacts, Numbers
        <3>2. \A d \in Cells : Active(d) => d = c
            BY InvParts DEF Unique
        <3> QED
            BY <2>2, <3>1, <3>2, InvParts, InUnderWay, PartFacts DEF BaseHears
    <2> QED
        BY <2>1, <2>3, <2>4 DEF OwnersAreCurrent
<1> QED
    BY <1>1, InvHolds, PTL

(***************************************************************************)
(* The client shows what the base has, or is told, unless it was gone when the *)
(* update was flushed (BaseApp::flushClientPropertyUpdates).                   *)
(***************************************************************************)
THEOREM ClientStaysCurrent == Spec => []ClientIsCurrent
<1>1. Inv => ClientIsCurrent
    <2> SUFFICES ASSUME Inv, NEW p \in Props \ unheard, p \notin client
                 PROVE  \/ screen[p] = value[Base][p]
                        \/ \E i \in DOMAIN wire : p \in DOMAIN wire[i] /\ wire[i][p] = value[Base][p]
        BY DEF ClientIsCurrent
    <2>1. Latest(Updates, screen[p], p, value[Base][p])
        BY InvParts DEF ClientHears
    <2>2. DOMAIN Updates = DOMAIN wire /\ \A i \in DOMAIN wire : Updates[i].delta = wire[i]
        BY DEF Updates, Message
    <2> QED
        BY <2>1, <2>2 DEF Latest, Says
<1> QED
    BY <1>1, InvHolds, PTL

(***************************************************************************)
(* The ghost has what the body has, or is told, from the first change after it *)
(* was bound (GhostManager, CellRuntime::syncRealGhosts).                      *)
(***************************************************************************)
THEOREM GhostStaysCurrent == Spec => []GhostIsCurrent
<1>1. Inv => GhostIsCurrent
    <2> SUFFICES ASSUME Inv, NEW c \in shadow, Active(c), NEW p \in Props \ unseen
                 PROVE  \/ value[Ghost][p] = value[c][p]
                        \/ p \in view[c]
                        \/ UnderWay(Ghost, p, value[c][p])
        BY DEF GhostIsCurrent
    <2>1. c \in Cells /\ c \in Parts
        BY InvParts, PartFacts DEF Typed
    <2>2. p \in view[c] \/ Latest(net[<<c, Ghost>>], value[Ghost][p], p, value[c][p])
        BY InvParts DEF GhostHears
    <2>3. Latest(net[<<c, Ghost>>], value[Ghost][p], p, value[c][p]) =>
            value[Ghost][p] = value[c][p] \/ In(net[<<c, Ghost>>], p, value[c][p])
        BY DEF Latest, In
    <2> QED
        BY <2>1, <2>2, <2>3, InUnderWay
<1> QED
    BY <1>1, InvHolds, PTL
=============================================================================
