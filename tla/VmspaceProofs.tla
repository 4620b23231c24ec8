---------------------------- MODULE VmspaceProofs ----------------------------
(***************************************************************************)
(* Proofs about Vmspace: the mappings stay apart (MappingsSoundInvariant), *)
(* the calls change exactly what they are asked to (ChangesExactInvariant) *)
(* and the page table follows the tree (EntriesFollowTreeHolds).           *)
(*                                                                         *)
(* The multiset: on an ordered sequence erase() removes the mappings with  *)
(* one key and emplace() adds one, so a round of a loop replaces the       *)
(* mapping it is at by pieces that lie within it (RoundOf, Within).        *)
(*                                                                         *)
(* The loops go over the tree as it was, t, and rebuild it.  After n       *)
(* rounds the tree is Good, and each mapping in it lies within one of the  *)
(* first n of t or is a later one as it was (Progress).  PageInv goes page *)
(* by page: what covers a page, and its entry, is what t had there or what *)
(* the round of its mapping made of it.  Both are carried from round to    *)
(* round by LoopInduction, which rests on the least number principle of    *)
(* the naturals.                                                           *)
(***************************************************************************)
EXTENDS Vmspace, FiniteSetTheorems, SequenceTheorems, TLAPS

\* The tree as the multiset orders it: mappings that are not empty are apart.
Empty(m) == m.startp = m.endp
Apart(m, n) == m.endp <= n.startp \/ n.endp <= m.startp
Ordered(t) == \A i, j \in 1 .. Len(t) : i < j => t[i].startp <= t[j].startp
Disjoint(t) ==
  \A i, j \in 1 .. Len(t) : i < j => t[i].endp <= t[j].startp \/ Empty(t[j])
Good(t) == t \in Seq(Mappings) /\ Ordered(t) /\ Disjoint(t)

-----------------------------------------------------------------------------
(* Numbers and loops *)

\* The principle of the least natural number.
LEMMA LeastNatural ==
  ASSUME NEW T, T \subseteq Nat, T # {}
  PROVE  \E x \in T : \A y \in T : x <= y
<1>. DEFINE R == OpToRel(<, Nat)
<1>1. IsWellFoundedOn(R, Nat)
  BY NatLessThanWellFounded
<1>2. \E x \in T : \A y \in T : ~ (<<y, x>> \in R)
  <2>. HIDE DEF R
  <2>. QED BY <1>1, WFMin
<1>3. \A x, y \in Nat : y < x => <<y, x>> \in R
  BY DEF OpToRel
<1>. HIDE DEF R
<1>4. PICK x \in T : \A y \in T : ~ (<<y, x>> \in R)
  BY <1>2
<1>5. ASSUME NEW y \in T PROVE x <= y
  <2>1. x \in Nat /\ y \in Nat /\ ~ (y < x)
    BY <1>3, <1>4
  <2>. QED
    BY <2>1
<1>. QED
  BY <1>4, <1>5

\* Induction over the rounds of a loop; P is the set of those that are right.
LEMMA LoopInduction ==
  ASSUME NEW N \in Nat, NEW P, 0 \in P, \A n \in 1 .. N : n - 1 \in P => n \in P
  PROVE  \A n \in 0 .. N : n \in P
<1>. DEFINE T == {n \in 0 .. N : n \notin P}
<1>1. SUFFICES ASSUME T # {} PROVE FALSE
  OBVIOUS
<1>2. T \subseteq Nat
  OBVIOUS
<1>3. PICK n \in T : \A k \in T : n <= k
  <2>. HIDE DEF T
  <2>. QED
    BY <1>1, <1>2, LeastNatural
<1>4. n \in 1 .. N /\ n - 1 \in 0 .. N /\ n - 1 \notin T
  BY <1>3
<1>. QED
  BY <1>3, <1>4

\* The states of a loop are defined, and remain states.
Loop(N, start, step, g) ==
  g[0] = start /\ \A n \in 1 .. N : g[n] = step[n][g[n - 1]]

LEMMA LoopDefined ==
  ASSUME NEW N \in Nat, NEW S, NEW start \in S, NEW step \in [1 .. N -> [S -> S]]
  PROVE  \E g \in [0 .. N -> S] : Loop(N, start, step, g)
<1>. DEFINE P == {n \in 0 .. N : \E g \in [0 .. n -> S] : Loop(n, start, step, g)}
<1>1. 0 \in P
  <2>. DEFINE g == [n \in 0 .. 0 |-> start]
  <2>1. g \in [0 .. 0 -> S] /\ g[0] = start /\ 0 \in 0 .. N
    OBVIOUS
  <2>2. Loop(0, start, step, g)
    BY <2>1 DEF Loop
  <2>. QED
    BY <2>1, <2>2
<1>2. ASSUME NEW n \in 1 .. N, n - 1 \in P PROVE n \in P
  <2>1. PICK g \in [0 .. n - 1 -> S] : Loop(n - 1, start, step, g)
    BY <1>2
  <2>. DEFINE h == [k \in 0 .. n |-> IF k < n THEN g[k] ELSE step[n][g[n - 1]]]
  <2>2. n \in Nat /\ n >= 1 /\ n - 1 \in 0 .. n - 1
    OBVIOUS
  <2>3. g[n - 1] \in S /\ step[n][g[n - 1]] \in S
    BY <2>2
  <2>4. h \in [0 .. n -> S]
    BY <2>2, <2>3
  <2>5. \A k \in 0 .. n - 1 : h[k] = g[k]
    BY <2>2
  <2>6. h[n] = step[n][h[n - 1]]
    BY <2>2, <2>5
  <2>7. h[0] = start
    BY <2>1, <2>2, <2>5 DEF Loop
  <2>8. ASSUME NEW k \in 1 .. n PROVE h[k] = step[k][h[k - 1]]
    <3>1. CASE k = n
      BY <2>6, <3>1
    <3>2. CASE k # n
      <4>1. k \in 1 .. n - 1 /\ k \in 0 .. n - 1 /\ k - 1 \in 0 .. n - 1
        BY <2>2, <3>2
      <4>2. g[k] = step[k][g[k - 1]]
        BY <2>1, <4>1 DEF Loop
      <4>. QED
        BY <2>5, <4>1, <4>2
    <3>. QED
      BY <3>1, <3>2
  <2>9. Loop(n, start, step, h)
    <3>. HIDE DEF h
    <3>. QED
      BY <2>7, <2>8 DEF Loop
  <2>. QED
    <3>. HIDE DEF h
    <3>. QED
      BY <2>2, <2>4, <2>9
<1>3. \A n \in 0 .. N : n \in P
  <2>. HIDE DEF P
  <2>. QED
    BY <1>1, <1>2, LoopInduction
<1>4. N \in P
  BY <1>3
<1>. QED
  BY <1>4

\* A set of numbers that has all below each of its members is an interval.
LEMMA InitialSegment ==
  ASSUME NEW N \in Nat, NEW D \in SUBSET (1 .. N),
         \A i \in D : \A j \in 1 .. N : j <= i => j \in D
  PROVE  Cardinality(D) \in 0 .. N /\ D = 1 .. Cardinality(D)
<1>1. CASE D = {}
  BY <1>1, FS_EmptySet
<1>2. CASE D # {}
  <2>. DEFINE T == {N - i : i \in D}
  <2>1. T \subseteq Nat /\ T # {}
    <3>1. ASSUME NEW i \in D PROVE N - i \in Nat
      <4>1. i \in 1 .. N
        OBVIOUS
      <4>. QED
        BY <4>1
    <3>. QED
      BY <1>2, <3>1
  <2>2. PICK x \in T : \A y \in T : x <= y
    <3>. HIDE DEF T
    <3>. QED
      BY <2>1, LeastNatural
  <2>3. PICK g \in D : x = N - g
    BY <2>2
  <2>4. g \in 1 .. N /\ \A i \in D : i <= g
    <3>1. g \in 1 .. N
      OBVIOUS
    <3>2. ASSUME NEW i \in D PROVE i <= g
      <4>1. N - g <= N - i /\ i \in 1 .. N
        BY <2>2, <2>3
      <4>. QED
        BY <3>1, <4>1
    <3>. QED
      BY <3>1, <3>2
  <2>5. D = 1 .. g
    <3>1. ASSUME NEW i \in D PROVE i \in 1 .. g
      <4>1. i \in 1 .. N
        OBVIOUS
      <4>. QED
        BY <2>4, <4>1
    <3>2. ASSUME NEW i \in 1 .. g PROVE i \in D
      <4>1. i \in 1 .. N /\ i <= g
        BY <2>4
      <4>. QED
        BY <4>1
    <3>. QED
      BY <3>1, <3>2
  <2>6. Cardinality(1 .. g) = g
    BY <2>4, FS_Interval
  <2>. QED
    BY <2>4, <2>5, <2>6
<1>. QED
  BY <1>1, <1>2

-----------------------------------------------------------------------------
(* The multiset *)

\* What InsertAt of SequencesExt returns, index by index.
LEMMA InsertAtFacts ==
  ASSUME NEW S, NEW q \in Seq(S), NEW e \in S, NEW k \in 1 .. Len(q) + 1
  PROVE  /\ InsertAt(q, k, e) \in Seq(S) /\ Len(InsertAt(q, k, e)) = Len(q) + 1
         /\ \A i \in 1 .. Len(q) + 1 :
              InsertAt(q, k, e)[i] = IF i < k THEN q[i] ELSE IF i = k THEN e ELSE q[i - 1]
<1>. DEFINE a == SubSeq(q, 1, k - 1)
            b == SubSeq(q, k, Len(q))
<1>1. Len(q) \in Nat
  OBVIOUS
<1>2. /\ a \in Seq(S) /\ Len(a) = k - 1 /\ \A i \in 1 .. k - 1 : a[i] = q[i]
  <2>1. CASE k = 1
    <3>1. a = <<>>
      BY <1>1, <2>1, SubSeqProperties
    <3>. QED
      BY <2>1, <3>1
  <2>2. CASE k # 1
    BY <1>1, <2>2, SubSeqProperties
  <2>. QED
    BY <2>1, <2>2
<1>3. /\ b \in Seq(S) /\ Len(b) = Len(q) - k + 1 /\ \A i \in 1 .. Len(q) - k + 1 : b[i] = q[k + i - 1]
  BY <1>1, SubSeqProperties
<1>4. InsertAt(q, k, e) = (a \o <<e>>) \o b
  BY DEF InsertAt
<1>. HIDE DEF a, b
<1>5. /\ a \o <<e>> \in Seq(S) /\ Len(a \o <<e>>) = k
      /\ \A i \in 1 .. k : (a \o <<e>>)[i] = IF i < k THEN q[i] ELSE e
  BY <1>1, <1>2
<1>6. PICK c \in Seq(S) : c = a \o <<e>>
  BY <1>5
<1>k. k \in Nat /\ k >= 1 /\ k <= Len(q) + 1
  BY <1>1
<1>7. c \o b \in Seq(S) /\ Len(c \o b) = Len(q) + 1
  <2>1. c \o b \in Seq(S) /\ Len(c \o b) = Len(c) + Len(b)
    BY <1>3, <1>6, ConcatProperties
  <2>2. Len(c) = k
    BY <1>5, <1>6
  <2>. QED
    BY <1>1, <1>3, <1>k, <2>1, <2>2
<1>8. ASSUME NEW i \in 1 .. Len(q) + 1
      PROVE  (c \o b)[i] = IF i < k THEN q[i] ELSE IF i = k THEN e ELSE q[i - 1]
  <2>1. CASE i <= k
    BY <1>1, <1>3, <1>5, <1>6, <2>1
  <2>2. CASE i > k
    <3>1. (c \o b)[i] = b[i - k]
      BY <1>1, <1>3, <1>5, <1>6, <2>2
    <3>2. i - k \in 1 .. Len(q) - k + 1
      BY <1>1, <2>2
    <3>. QED
      BY <1>1, <1>3, <2>2, <3>1, <3>2
  <2>3. i \in Nat
    BY <1>1
  <2>4. i <= k \/ i > k
    BY <1>k, <2>3
  <2>. QED
    BY <2>1, <2>2, <2>4
<1>. QED
  BY <1>4, <1>6, <1>7, <1>8

\* lower_bound() and upper_bound() of an ordered tree.
LEMMA BoundFacts ==
  ASSUME NEW t \in Seq(Mappings), NEW key \in Nat
  PROVE  /\ LowerBound(t, key) \in 0 .. Len(t) /\ UpperBound(t, key) \in 0 .. Len(t)
         /\ LowerBound(t, key) <= UpperBound(t, key)
         /\ Ordered(t) => \A i \in 1 .. Len(t) :
              /\ t[i].startp < key <=> i <= LowerBound(t, key)
              /\ t[i].startp <= key <=> i <= UpperBound(t, key)
<1>. DEFINE lower == {i \in 1 .. Len(t) : t[i].startp < key}
            upper == {i \in 1 .. Len(t) : t[i].startp <= key}
<1>1. Len(t) \in Nat /\ lower \in SUBSET (1 .. Len(t)) /\ upper \in SUBSET (1 .. Len(t))
  OBVIOUS
<1>2. LowerBound(t, key) = Cardinality(lower) /\ UpperBound(t, key) = Cardinality(upper)
  BY DEF LowerBound, UpperBound
<1>3. \A i \in 1 .. Len(t) : t[i] \in Mappings /\ t[i].startp \in Nat
  <2>1. ASSUME NEW i \in 1 .. Len(t) PROVE t[i] \in Mappings
    BY <1>1, ElementOfSeq
  <2>. QED
    BY <2>1, Bounds DEF Mappings
<1>4. lower \subseteq upper
  BY <1>3
<1>5. /\ IsFiniteSet(1 .. Len(t)) /\ Cardinality(1 .. Len(t)) = Len(t)
  BY <1>1, FS_Interval
<1>6. ASSUME Ordered(t)
      PROVE  lower = 1 .. Cardinality(lower) /\ upper = 1 .. Cardinality(upper)
  <2>1. \A i \in lower : \A j \in 1 .. Len(t) : j <= i => j \in lower
    BY <1>1, <1>3, <1>6 DEF Ordered
  <2>2. \A i \in upper : \A j \in 1 .. Len(t) : j <= i => j \in upper
    BY <1>1, <1>3, <1>6 DEF Ordered
  <2>. HIDE DEF lower, upper
  <2>. QED
    BY <1>1, <2>1, <2>2, InitialSegment
<1>7. /\ Cardinality(lower) \in 0 .. Len(t) /\ Cardinality(upper) \in 0 .. Len(t)
      /\ Cardinality(lower) <= Cardinality(upper)
  <2>. HIDE DEF lower, upper
  <2>1. IsFiniteSet(upper) /\ Cardinality(upper) <= Len(t)
    BY <1>1, <1>5, FS_Subset
  <2>2. IsFiniteSet(lower) /\ Cardinality(lower) <= Cardinality(upper)
    BY <1>4, <2>1, FS_Subset
  <2>3. Cardinality(lower) \in Nat /\ Cardinality(upper) \in Nat
    BY <2>1, <2>2, FS_CardinalityType
  <2>. QED
    BY <1>1, <2>1, <2>2, <2>3
<1>8. ASSUME Ordered(t), NEW i \in 1 .. Len(t)
      PROVE  /\ t[i].startp < key <=> i <= Cardinality(lower)
             /\ t[i].startp <= key <=> i <= Cardinality(upper)
  <2>1. (t[i].startp < key <=> i \in lower) /\ (t[i].startp <= key <=> i \in upper)
    OBVIOUS
  <2>. HIDE DEF lower, upper
  <2>2. (i \in lower <=> i <= Cardinality(lower)) /\ (i \in upper <=> i <= Cardinality(upper))
    BY <1>1, <1>6, <1>7, <1>8
  <2>. QED
    BY <2>1, <2>2
<1>. HIDE DEF lower, upper
<1>. QED
  BY <1>2, <1>7, <1>8

\* Member i of a tree that is a sequence of mappings.
LEMMA MemberOf ==
  ASSUME NEW t \in Seq(Mappings)
  PROVE  /\ Len(t) \in Nat /\ DOMAIN t = 1 .. Len(t)
         /\ \A i \in 1 .. Len(t) : t[i] \in Mappings
         /\ \A m \in Range(t) : m \in Mappings /\ \E i \in 1 .. Len(t) : m = t[i]
         /\ \A i \in 1 .. Len(t) : t[i] \in Range(t)
<1>1. Len(t) \in Nat /\ DOMAIN t = 1 .. Len(t)
  OBVIOUS
<1>2. ASSUME NEW i \in 1 .. Len(t) PROVE t[i] \in Mappings
  BY <1>1, ElementOfSeq
<1>. QED
  BY <1>1, <1>2 DEF Range

\* The fields of a mapping are numbers.
LEMMA MappingFacts ==
  ASSUME NEW m \in Mappings
  PROVE  /\ m.startp \in Nat /\ m.endp \in Nat /\ m.offsetp \in Nat
         /\ m.startp <= m.endp /\ m.endp <= NumPages
BY Bounds DEF Mappings

\* What erase() leaves, index by index.
ErasedAt(r, t, lo, up) ==
  /\ r \in Seq(Mappings) /\ Len(r) = lo + Len(t) - up
  /\ \A i \in 1 .. lo + Len(t) - up : r[i] = IF i <= lo THEN t[i] ELSE t[i + up - lo]

LEMMA EraseIndex ==
  ASSUME NEW t \in Seq(Mappings), NEW e \in Mappings
  PROVE  ErasedAt(Erase(t, e), t, LowerBound(t, e.startp), UpperBound(t, e.startp))
<1>0. PICK lo, up : lo = LowerBound(t, e.startp) /\ up = UpperBound(t, e.startp)
  OBVIOUS
<1>. DEFINE a == SubSeq(t, 1, lo)
            b == SubSeq(t, up + 1, Len(t))
<1>1. Len(t) \in Nat /\ lo \in 0 .. Len(t) /\ up \in 0 .. Len(t) /\ lo <= up
  BY <1>0, BoundFacts, MappingFacts, MemberOf
<1>2. a \in Seq(Mappings) /\ Len(a) = lo /\ \A i \in 1 .. lo : a[i] = t[i]
  <2>1. CASE lo = 0
    <3>1. a = <<>>
      BY <1>1, <2>1, SubSeqProperties
    <3>. QED
      BY <2>1, <3>1
  <2>2. CASE lo # 0
    BY <1>1, <2>2, SubSeqProperties
  <2>. QED
    BY <2>1, <2>2
<1>3. /\ b \in Seq(Mappings) /\ Len(b) = Len(t) - up
      /\ \A i \in 1 .. Len(t) - up : b[i] = t[up + i]
  <2>1. CASE up = Len(t)
    <3>1. b = <<>>
      BY <1>1, <2>1, SubSeqProperties
    <3>. QED
      BY <1>1, <2>1, <3>1
  <2>2. CASE up # Len(t)
    BY <1>1, <2>2, SubSeqProperties
  <2>. QED
    BY <2>1, <2>2
<1>4. Erase(t, e) = a \o b
  BY <1>0 DEF Erase
<1>. HIDE DEF a, b
<1>5. a \o b \in Seq(Mappings) /\ Len(a \o b) = lo + Len(t) - up
  <2>1. a \o b \in Seq(Mappings) /\ Len(a \o b) = Len(a) + Len(b)
    BY <1>2, <1>3, ConcatProperties
  <2>. QED
    BY <1>1, <1>2, <1>3, <2>1
<1>6. ASSUME NEW i \in 1 .. lo + Len(t) - up
      PROVE  (a \o b)[i] = IF i <= lo THEN t[i] ELSE t[i + up - lo]
  <2>1. (a \o b)[i] = IF i <= lo THEN a[i] ELSE b[i - lo]
    <3>1. i \in 1 .. Len(a) + Len(b)
      BY <1>1, <1>2, <1>3
    <3>2. (a \o b)[i] = IF i <= Len(a) THEN a[i] ELSE b[i - Len(a)]
      BY <1>2, <1>3, <3>1, ConcatProperties
    <3>. QED
      BY <1>2, <3>2
  <2>2. CASE i <= lo
    BY <1>1, <1>2, <2>1, <2>2
  <2>3. CASE i > lo
    <3>1. i - lo \in 1 .. Len(t) - up /\ up + (i - lo) = i + up - lo
      BY <1>1, <2>3
    <3>2. ~(i <= lo)
      BY <1>1, <2>3
    <3>. QED
      BY <1>3, <2>1, <3>1, <3>2
  <2>4. i <= lo \/ i > lo
    BY <1>1
  <2>. QED
    BY <2>2, <2>3, <2>4
<1>. QED
  BY <1>0, <1>4, <1>5, <1>6 DEF ErasedAt

\* erase() takes out the mappings with the key and leaves the others in order.
LEMMA EraseFacts ==
  ASSUME NEW t, Good(t), NEW e \in Mappings
  PROVE  /\ Good(Erase(t, e))
         /\ Range(Erase(t, e)) = {m \in Range(t) : m.startp # e.startp}
<1>. DEFINE r == Erase(t, e)
            lo == LowerBound(t, e.startp)
            up == UpperBound(t, e.startp)
            old(i) == IF i <= lo THEN i ELSE i + up - lo
<1>1. t \in Seq(Mappings) /\ Ordered(t) /\ Disjoint(t) /\ e.startp \in Nat
  BY MappingFacts DEF Good
<1>2. /\ r \in Seq(Mappings) /\ Len(r) = lo + Len(t) - up
      /\ \A i \in 1 .. lo + Len(t) - up : r[i] = IF i <= lo THEN t[i] ELSE t[i + up - lo]
  <2>1. ErasedAt(r, t, lo, up)
    BY <1>1, EraseIndex
  <2>. HIDE DEF r, lo, up
  <2>. QED
    BY <2>1 DEF ErasedAt
<1>3. /\ Len(t) \in Nat /\ lo \in 0 .. Len(t) /\ up \in 0 .. Len(t) /\ lo <= up
      /\ \A i \in 1 .. Len(t) : t[i].startp < e.startp <=> i <= lo
      /\ \A i \in 1 .. Len(t) : t[i].startp <= e.startp <=> i <= up
  BY <1>1, BoundFacts, MemberOf
<1>4. \A i \in 1 .. Len(t) : t[i].startp \in Nat
  BY <1>1, MemberOf, MappingFacts
<1>. HIDE DEF r, lo, up
<1>5. \A i \in 1 .. Len(r) : old(i) \in 1 .. Len(t) /\ r[i] = t[old(i)]
  BY <1>2, <1>3
<1>6. \A i, j \in 1 .. Len(r) : i < j => old(i) < old(j)
  BY <1>2, <1>3
<1>7. \A i \in 1 .. Len(r) : r[i].startp # e.startp
  <2>1. ASSUME NEW i \in 1 .. Len(r) PROVE r[i].startp # e.startp
    <3>1. CASE i <= lo
      BY <1>1, <1>3, <1>4, <1>5, <3>1
    <3>2. CASE ~(i <= lo)
      <4>1. ~(i + up - lo <= up)
        BY <1>2, <1>3, <3>2
      <4>2. i + up - lo \in 1 .. Len(t) /\ r[i] = t[i + up - lo]
        BY <1>5, <3>2
      <4>3. PICK j \in 1 .. Len(t) : j = i + up - lo
        BY <4>2
      <4>4. ~(t[j].startp <= e.startp)
        BY <1>1, <1>2, <1>3, <1>4, <4>1, <4>3
      <4>. QED
        BY <1>1, <4>2, <4>3, <4>4
    <3>. QED
      BY <3>1, <3>2
  <2>. QED
    BY <2>1
<1>8. ASSUME NEW k \in 1 .. Len(t), t[k].startp # e.startp
      PROVE  \E i \in 1 .. Len(r) : r[i] = t[k]
  <2>1. CASE k <= lo
    <3>1. k \in 1 .. Len(r) /\ r[k] = t[k]
      BY <1>2, <1>3, <2>1
    <3>. QED
      BY <3>1
  <2>2. CASE ~(k <= lo)
    <3>1. ~(k <= up)
      BY <1>1, <1>3, <1>4, <1>8, <2>2
    <3>2. k - up + lo \in 1 .. Len(r) /\ r[k - up + lo] = t[k]
      <4>1. k - up + lo \in 1 .. Len(r) /\ ~(k - up + lo <= lo) /\ (k - up + lo) + up - lo = k
        BY <1>2, <1>3, <3>1
      <4>. QED
        BY <1>2, <4>1
    <3>. QED
      BY <3>2
  <2>. QED
    BY <2>1, <2>2
<1>9. Range(r) = {m \in Range(t) : m.startp # e.startp}
  <2>1. ASSUME NEW m \in Range(r) PROVE m \in Range(t) /\ m.startp # e.startp
    <3>1. PICK i \in 1 .. Len(r) : m = r[i]
      BY <1>2, MemberOf
    <3>. QED
      BY <1>1, <1>5, <1>7, <3>1, MemberOf
  <2>2. ASSUME NEW m \in Range(t), m.startp # e.startp PROVE m \in Range(r)
    <3>1. PICK k \in 1 .. Len(t) : m = t[k]
      BY <1>1, MemberOf
    <3>2. PICK i \in 1 .. Len(r) : r[i] = m
      BY <1>8, <2>2, <3>1
    <3>. QED
      BY <1>2, <3>2, MemberOf
  <2>. QED
    BY <2>1, <2>2
<1>10. Good(r)
  <2>. HIDE DEF old
  <2>1. Ordered(r)
    BY <1>1, <1>5, <1>6 DEF Ordered
  <2>2. Disjoint(r)
    BY <1>1, <1>5, <1>6 DEF Disjoint
  <2>. QED
    BY <1>2, <2>1, <2>2 DEF Good
<1>. QED
  BY <1>9, <1>10 DEF r

\* emplace() keeps the order; the mappings stay apart if the new one is empty or
\* apart from the others.
LEMMA EmplaceFacts ==
  ASSUME NEW t, Good(t), NEW m \in Mappings,
         \A x \in Range(t) : Empty(m) \/ Empty(x) \/ Apart(x, m)
  PROVE  Good(Emplace(t, m)) /\ Range(Emplace(t, m)) = Range(t) \union {m}
<1>. DEFINE r == Emplace(t, m)
            k == UpperBound(t, m.startp) + 1
<1>1. t \in Seq(Mappings) /\ Ordered(t) /\ Disjoint(t) /\ m.startp \in Nat
  BY MappingFacts DEF Good
<1>2. /\ Len(t) \in Nat /\ k \in 1 .. Len(t) + 1
      /\ \A i \in 1 .. Len(t) : t[i].startp <= m.startp <=> i < k
  <2>1. PICK u : u = UpperBound(t, m.startp)
    OBVIOUS
  <2>2. Len(t) \in Nat /\ u \in 0 .. Len(t)
    BY <1>1, <2>1, BoundFacts, MemberOf
  <2>3. \A i \in 1 .. Len(t) : t[i].startp <= m.startp <=> i <= u
    BY <1>1, <2>1, BoundFacts
  <2>4. k = u + 1
    BY <2>1
  <2>. HIDE DEF k
  <2>. QED
    BY <2>2, <2>3, <2>4
<1>3. r = InsertAt(t, k, m)
  BY DEF Emplace
<1>. HIDE DEF r, k
<1>4. /\ r \in Seq(Mappings) /\ Len(r) = Len(t) + 1
      /\ \A i \in 1 .. Len(t) + 1 : r[i] = IF i < k THEN t[i] ELSE IF i = k THEN m ELSE t[i - 1]
  <2>1. /\ InsertAt(t, k, m) \in Seq(Mappings) /\ Len(InsertAt(t, k, m)) = Len(t) + 1
        /\ \A i \in 1 .. Len(t) + 1 :
             InsertAt(t, k, m)[i] = IF i < k THEN t[i] ELSE IF i = k THEN m ELSE t[i - 1]
    BY <1>1, <1>2, InsertAtFacts
  <2>. QED
    BY <1>3, <2>1
<1>5. Range(r) = Range(t) \union {m}
  <2>1. ASSUME NEW x \in Range(r) PROVE x \in Range(t) \union {m}
    <3>1. PICK i \in 1 .. Len(r) : x = r[i]
      BY <1>4, MemberOf
    <3>2. x = m \/ \E j \in 1 .. Len(t) : x = t[j]
      BY <1>2, <1>4, <3>1
    <3>. QED
      BY <1>1, <3>2, MemberOf
  <2>2. ASSUME NEW x \in Range(t) PROVE x \in Range(r)
    <3>1. PICK j \in 1 .. Len(t) : x = t[j]
      BY <1>1, MemberOf
    <3>2. \E i \in 1 .. Len(r) : x = r[i]
      <4>1. CASE j < k
        BY <1>2, <1>4, <3>1, <4>1
      <4>2. CASE ~(j < k)
        <5>1. j + 1 \in 1 .. Len(t) + 1 /\ ~(j + 1 < k) /\ j + 1 # k /\ (j + 1) - 1 = j
          BY <1>2, <4>2
        <5>. QED
          BY <1>4, <3>1, <5>1
      <4>. QED
        BY <4>1, <4>2
    <3>. QED
      BY <1>4, <3>2, MemberOf
  <2>3. m \in Range(r)
    <3>1. k \in 1 .. Len(r) /\ r[k] = m
      BY <1>2, <1>4
    <3>. QED
      BY <1>4, <3>1, MemberOf
  <2>. QED
    BY <2>1, <2>2, <2>3
<1>6. ASSUME NEW i \in 1 .. Len(r), NEW j \in 1 .. Len(r), i < j
      PROVE  r[i].startp <= r[j].startp /\ (r[i].endp <= r[j].startp \/ Empty(r[j]))
  <2>1. \A x \in Mappings : x.startp \in Nat /\ x.endp \in Nat /\ x.startp <= x.endp
    BY MappingFacts
  <2>2. \A n \in 1 .. Len(t) : t[n] \in Mappings /\ t[n] \in Range(t)
    BY <1>1, MemberOf
  <2>3. CASE i = k
    <3>1. j - 1 \in 1 .. Len(t) /\ ~(j - 1 < k) /\ r[i] = m /\ r[j] = t[j - 1]
      BY <1>2, <1>4, <1>6, <2>3
    <3>2. PICK x \in Mappings : x = t[j - 1] /\ x \in Range(t)
      BY <2>2, <3>1
    <3>3. ~(x.startp <= m.startp)
      BY <1>2, <3>1, <3>2
    <3>4. Empty(m) \/ Empty(x) \/ Apart(x, m)
      BY <3>2
    <3>5. m.startp <= x.startp /\ (m.endp <= x.startp \/ Empty(x))
      BY <2>1, <3>3, <3>4 DEF Empty, Apart
    <3>. QED
      BY <3>1, <3>2, <3>5
  <2>4. CASE j = k
    <3>1. i \in 1 .. Len(t) /\ i < k /\ r[i] = t[i] /\ r[j] = m
      BY <1>2, <1>4, <1>6, <2>4
    <3>2. PICK x \in Mappings : x = t[i] /\ x \in Range(t)
      BY <2>2, <3>1
    <3>3. x.startp <= m.startp
      BY <1>2, <3>1, <3>2
    <3>4. Empty(m) \/ Empty(x) \/ Apart(x, m)
      BY <3>2
    <3>5. x.startp <= m.startp /\ (x.endp <= m.startp \/ Empty(m))
      BY <2>1, <3>3, <3>4 DEF Empty, Apart
    <3>. QED
      BY <3>1, <3>2, <3>5
  <2>5. CASE i # k /\ j # k
    <3>. DEFINE p == IF i < k THEN i ELSE i - 1
                q == IF j < k THEN j ELSE j - 1
    <3>1. p \in 1 .. Len(t) /\ q \in 1 .. Len(t) /\ p < q /\ r[i] = t[p] /\ r[j] = t[q]
      BY <1>2, <1>4, <1>6, <2>5
    <3>. HIDE DEF p, q
    <3>. QED
      BY <1>1, <3>1 DEF Ordered, Disjoint
  <2>. QED
    BY <2>3, <2>4, <2>5
<1>7. Good(r)
  BY <1>4, <1>6 DEF Good, Ordered, Disjoint
<1>. QED
  BY <1>5, <1>7 DEF r

\* emplace() of a mapping into a tree that need not be in order.
LEMMA EmplaceType ==
  ASSUME NEW t \in Seq(Mappings), NEW m \in Mappings
  PROVE  Emplace(t, m) \in Seq(Mappings)
<1>1. PICK k : k = UpperBound(t, m.startp) + 1
  OBVIOUS
<1>2. k \in 1 .. Len(t) + 1
  <2>1. m.startp \in Nat /\ Len(t) \in Nat
    BY MappingFacts, MemberOf
  <2>2. UpperBound(t, m.startp) \in 0 .. Len(t)
    BY <2>1, BoundFacts
  <2>. QED
    BY <1>1, <2>1, <2>2
<1>3. InsertAt(t, k, m) \in Seq(Mappings)
  BY <1>2, InsertAtFacts
<1>. QED
  BY <1>1, <1>3 DEF Emplace

-----------------------------------------------------------------------------
(* The pieces of a mapping *)

Within(m, e) == e.startp <= m.startp /\ m.endp <= e.endp

\* m is a piece of e from page s to page t, with the protection prot.
Piece(m, e, s, t, prot) ==
  /\ m \in Mappings /\ Within(m, e) /\ m.startp = s /\ m.endp = t
  /\ m.obj = e.obj /\ m.prot = prot /\ m.private = e.private /\ m.untouchable = e.untouchable

LEMMA HeadFacts ==
  ASSUME NEW e \in Mappings, NEW a \in Nat, a < e.endp
  PROVE  /\ Piece(HeadOf(e, HeadPages(e, a)), e, e.startp, Larger(a, e.startp), e.prot)
         /\ HeadOf(e, HeadPages(e, a)).offsetp = e.offsetp
         /\ HeadPages(e, a) # 0 <=> e.startp < a
<1>0. /\ e.startp \in Nat /\ e.endp \in Nat /\ e.startp <= e.endp /\ e.endp <= NumPages
      /\ NumPages \in Nat
  BY MappingFacts, Bounds
<1>1. PICK x : x = Larger(a, e.startp)
  OBVIOUS
<1>2. /\ x \in 0 .. NumPages /\ e.startp <= x /\ x <= e.endp
      /\ e.startp + HeadPages(e, a) = x
      /\ HeadPages(e, a) # 0 <=> e.startp < a
  BY <1>0, <1>1 DEF HeadPages, Larger
<1>3. HeadOf(e, HeadPages(e, a)) = [e EXCEPT !.endp = x]
  BY <1>2 DEF HeadOf
<1>. DEFINE m == [e EXCEPT !.endp = x]
<1>4. m \in Mappings
  BY <1>2 DEF Mappings
<1>5. /\ m.startp = e.startp /\ m.endp = x /\ m.obj = e.obj /\ m.offsetp = e.offsetp
      /\ m.prot = e.prot /\ m.private = e.private /\ m.untouchable = e.untouchable
  BY DEF Mappings
<1>. HIDE DEF m
<1>. QED
  BY <1>0, <1>1, <1>2, <1>3, <1>4, <1>5 DEF Piece, Within, m

LEMMA TailFacts ==
  ASSUME NEW e \in Mappings, NEW b \in Nat, e.startp < b
  PROVE  /\ Piece(TailOf(e, TailPages(e, b)), e, Smaller(b, e.endp), e.endp, e.prot)
         /\ TailOf(e, TailPages(e, b)).offsetp = e.offsetp + (Smaller(b, e.endp) - e.startp)
         /\ TailPages(e, b) # 0 <=> b < e.endp
<1>0. /\ e.startp \in Nat /\ e.endp \in Nat /\ e.startp <= e.endp /\ e.endp <= NumPages
      /\ NumPages \in Nat /\ e.offsetp \in Nat
  BY MappingFacts, Bounds
<1>1. PICK x : x = Smaller(b, e.endp)
  OBVIOUS
<1>y. PICK y : y = e.offsetp + (x - e.startp)
  OBVIOUS
<1>2. /\ x \in 0 .. NumPages /\ e.startp <= x /\ x <= e.endp /\ y \in Nat
      /\ e.endp - TailPages(e, b) = x
      /\ e.offsetp + (e.endp - e.startp) - TailPages(e, b) = y
      /\ TailPages(e, b) # 0 <=> b < e.endp
  BY <1>0, <1>1, <1>y DEF TailPages, Smaller
<1>3. TailOf(e, TailPages(e, b)) = [e EXCEPT !.startp = x, !.offsetp = y]
  BY <1>2 DEF TailOf
<1>. DEFINE m == [e EXCEPT !.startp = x, !.offsetp = y]
<1>4. m \in Mappings
  BY <1>2 DEF Mappings
<1>5. /\ m.startp = x /\ m.endp = e.endp /\ m.obj = e.obj /\ m.offsetp = y
      /\ m.prot = e.prot /\ m.private = e.private /\ m.untouchable = e.untouchable
  BY DEF Mappings
<1>. HIDE DEF m
<1>. QED
  BY <1>0, <1>1, <1>y, <1>2, <1>3, <1>4, <1>5 DEF Piece, Within, m

LEMMA RestFacts ==
  ASSUME NEW e \in Mappings, NEW a \in Nat, NEW b \in Nat, a <= b, Overlaps(e, a, b)
  PROVE  /\ Piece(RestOf(e, a, b), e, Smaller(b, e.endp), e.endp, e.prot)
         /\ RestOf(e, a, b).offsetp = e.offsetp + HeadPages(e, a) + (b - a)
<1>0. /\ e.startp \in Nat /\ e.endp \in Nat /\ e.startp <= e.endp /\ e.endp <= NumPages
      /\ NumPages \in Nat /\ e.offsetp \in Nat /\ e.startp < b
  BY MappingFacts, Bounds DEF Overlaps
<1>1. PICK x : x = Smaller(b, e.endp)
  OBVIOUS
<1>y. PICK y : y = e.offsetp + HeadPages(e, a) + (b - a)
  OBVIOUS
<1>2. /\ x \in 0 .. NumPages /\ e.startp <= x /\ x <= e.endp /\ y \in Nat
      /\ e.endp - TailPages(e, b) = x
  BY <1>0, <1>1, <1>y DEF TailPages, HeadPages, Smaller
<1>3. RestOf(e, a, b) = [e EXCEPT !.startp = x, !.offsetp = y]
  BY <1>2, <1>y DEF RestOf
<1>. DEFINE m == [e EXCEPT !.startp = x, !.offsetp = y]
<1>4. m \in Mappings
  BY <1>2 DEF Mappings
<1>5. /\ m.startp = x /\ m.endp = e.endp /\ m.obj = e.obj /\ m.offsetp = y
      /\ m.prot = e.prot /\ m.private = e.private /\ m.untouchable = e.untouchable
  BY DEF Mappings
<1>. HIDE DEF m
<1>. QED
  BY <1>0, <1>1, <1>y, <1>2, <1>3, <1>4, <1>5 DEF Piece, Within, m

LEMMA MiddleFacts ==
  ASSUME NEW e \in Mappings, NEW a \in Nat, NEW b \in Nat, a <= b, Overlaps(e, a, b),
         NEW prot \in {"none", "r", "rw"}
  PROVE  /\ Piece(MiddleOf(e, a, b, prot), e, Larger(a, e.startp), Smaller(b, e.endp), prot)
         /\ MiddleOf(e, a, b, prot).offsetp = e.offsetp + (Larger(a, e.startp) - e.startp)
<1>0. /\ e.startp \in Nat /\ e.endp \in Nat /\ e.startp <= e.endp /\ e.endp <= NumPages
      /\ NumPages \in Nat /\ e.offsetp \in Nat /\ e.startp < b /\ a < e.endp
  BY MappingFacts, Bounds DEF Overlaps
<1>1. PICK x, z : x = Larger(a, e.startp) /\ z = Smaller(b, e.endp)
  OBVIOUS
<1>y. PICK y : y = e.offsetp + (x - e.startp)
  OBVIOUS
<1>2. /\ x \in 0 .. NumPages /\ z \in 0 .. NumPages /\ e.startp <= x /\ x <= z /\ z <= e.endp
      /\ y \in Nat /\ e.offsetp + HeadPages(e, a) = y
  BY <1>0, <1>1, <1>y DEF HeadPages, Smaller, Larger
<1>3. MiddleOf(e, a, b, prot) = [e EXCEPT !.startp = x, !.endp = z, !.offsetp = y, !.prot = prot]
  BY <1>1, <1>2 DEF MiddleOf, From, To
<1>. DEFINE m == [e EXCEPT !.startp = x, !.endp = z, !.offsetp = y, !.prot = prot]
<1>4. m \in Mappings
  BY <1>2 DEF Mappings
<1>5. /\ m.startp = x /\ m.endp = z /\ m.obj = e.obj /\ m.offsetp = y
      /\ m.prot = prot /\ m.private = e.private /\ m.untouchable = e.untouchable
  BY DEF Mappings
<1>. HIDE DEF m
<1>. QED
  BY <1>0, <1>1, <1>y, <1>2, <1>3, <1>4, <1>5 DEF Piece, Within, m

\* The tree holds of the pages of e at most e itself.
Fits(t, e) == \A x \in Range(t) : Empty(x) \/ Empty(e) \/ x = e \/ Apart(x, e)

\* e is taken out and three pieces of it are put in, each under its condition.
Pieces(c1, m1, c2, m2, c3, m3) ==
  (IF c1 THEN {m1} ELSE {}) \union (IF c2 THEN {m2} ELSE {}) \union (IF c3 THEN {m3} ELSE {})

Replaced(t, e, c1, m1, c2, m2, c3, m3) ==
  EmplaceIf(c3, EmplaceIf(c2, EmplaceIf(c1, Erase(t, e), m1), m2), m3)

LEMMA ReplacedFacts ==
  ASSUME NEW t, Good(t), NEW e \in Mappings, Fits(t, e),
         NEW c1 \in BOOLEAN, NEW c2 \in BOOLEAN, NEW c3 \in BOOLEAN,
         NEW m1 \in Mappings, NEW m2 \in Mappings, NEW m3 \in Mappings,
         Within(m1, e), Within(m2, e), Within(m3, e),
         c1 /\ c2 => Empty(m1) \/ Empty(m2) \/ Apart(m1, m2),
         c1 /\ c3 => Empty(m1) \/ Empty(m3) \/ Apart(m1, m3),
         c2 /\ c3 => Empty(m2) \/ Empty(m3) \/ Apart(m2, m3)
  PROVE  /\ Good(Replaced(t, e, c1, m1, c2, m2, c3, m3))
         /\ Range(Replaced(t, e, c1, m1, c2, m2, c3, m3)) =
              {x \in Range(t) : x.startp # e.startp} \union Pieces(c1, m1, c2, m2, c3, m3)
<1>. DEFINE t0 == Erase(t, e)
            t1 == EmplaceIf(c1, t0, m1)
            t2 == EmplaceIf(c2, t1, m2)
            t3 == EmplaceIf(c3, t2, m3)
<1>1. Good(t0) /\ Range(t0) = {x \in Range(t) : x.startp # e.startp}
  BY EraseFacts
<1>2. ASSUME NEW x \in Range(t0), NEW m \in Mappings, Within(m, e)
      PROVE  Empty(m) \/ Empty(x) \/ Apart(x, m)
  <2>1. x \in Range(t) /\ x.startp # e.startp /\ x \in Mappings
    BY <1>1, MemberOf DEF Good
  <2>2. Empty(x) \/ Empty(e) \/ Apart(x, e)
    BY <2>1 DEF Fits
  <2>. QED
    BY <1>2, <2>1, <2>2, MappingFacts DEF Apart, Within, Empty
<1>3. ASSUME NEW s, Good(s), NEW c \in BOOLEAN, NEW m \in Mappings,
             c => \A x \in Range(s) : Empty(m) \/ Empty(x) \/ Apart(x, m)
      PROVE  /\ Good(EmplaceIf(c, s, m))
             /\ Range(EmplaceIf(c, s, m)) = Range(s) \union (IF c THEN {m} ELSE {})
  <2>1. CASE c
    BY <1>3, <2>1, EmplaceFacts DEF EmplaceIf
  <2>2. CASE ~c
    BY <1>3, <2>2 DEF EmplaceIf
  <2>. QED
    BY <2>1, <2>2
<1>. HIDE DEF t0
<1>4. Good(t1) /\ Range(t1) = Range(t0) \union (IF c1 THEN {m1} ELSE {})
  BY <1>1, <1>2, <1>3
<1>. HIDE DEF t1
<1>5. Good(t2) /\ Range(t2) = Range(t1) \union (IF c2 THEN {m2} ELSE {})
  <2>1. ASSUME c2, NEW x \in Range(t1) PROVE Empty(m2) \/ Empty(x) \/ Apart(x, m2)
    BY <1>2, <1>4, <2>1
  <2>. QED
    BY <1>3, <1>4, <2>1
<1>. HIDE DEF t2
<1>6. Good(t3) /\ Range(t3) = Range(t2) \union (IF c3 THEN {m3} ELSE {})
  <2>1. ASSUME c3, NEW x \in Range(t2) PROVE Empty(m3) \/ Empty(x) \/ Apart(x, m3)
    <3>1. CASE x \in Range(t0)
      BY <1>2, <3>1
    <3>2. CASE x \notin Range(t0)
      <4>1. (c1 /\ x = m1) \/ (c2 /\ x = m2)
        BY <1>4, <1>5, <3>2
      <4>. QED
        BY <2>1, <4>1
    <3>. QED
      BY <3>1, <3>2
  <2>. QED
    BY <1>3, <1>5, <2>1
<1>7. Replaced(t, e, c1, m1, c2, m2, c3, m3) = t3
  BY DEF Replaced, t0, t1, t2
<1>. HIDE DEF t3
<1>. QED
  BY <1>1, <1>4, <1>5, <1>6, <1>7 DEF Pieces

-----------------------------------------------------------------------------
(* One round of each loop *)

States == [tree : Seq(Mappings), pt : [Pages -> Entries], failed : BOOLEAN]
Prot == {"none", "r", "rw"}

LEMMA PtTypes ==
  ASSUME NEW table \in [Pages -> Entries], NEW a, NEW b, NEW prot \in Prot
  PROVE  /\ Clear(table, a, b) \in [Pages -> Entries]
         /\ ProtectPt(table, a, b, prot) \in [Pages -> Entries]
<1>1. Absent \in Entries
  BY DEF Absent, Entries, Frames
<1>2. Clear(table, a, b) \in [Pages -> Entries]
  BY <1>1 DEF Clear
<1>3. ASSUME NEW p \in Pages
      PROVE  [frame |-> IF table[p].frame = Nothing THEN PageZero ELSE table[p].frame,
              prot |-> prot] \in Entries
  <2>1. table[p] \in Entries
    OBVIOUS
  <2>2. (IF table[p].frame = Nothing THEN PageZero ELSE table[p].frame) \in Frames
    BY <2>1 DEF Entries, Frames
  <2>. QED
    BY <2>2 DEF Entries, Prot
<1>4. ProtectPt(table, a, b, prot) \in [Pages -> Entries]
  BY <1>3 DEF ProtectPt
<1>. QED
  BY <1>2, <1>4

\* The rounds keep the types, in whatever order the tree is.
LEMMA ReplacedType ==
  ASSUME NEW t \in Seq(Mappings), NEW e \in Mappings,
         NEW c1 \in BOOLEAN, NEW c2 \in BOOLEAN, NEW c3 \in BOOLEAN,
         NEW m1 \in Mappings, NEW m2 \in Mappings, NEW m3 \in Mappings
  PROVE  Replaced(t, e, c1, m1, c2, m2, c3, m3) \in Seq(Mappings)
<1>1. Erase(t, e) \in Seq(Mappings)
  BY EraseIndex DEF ErasedAt
<1>2. ASSUME NEW s \in Seq(Mappings), NEW c \in BOOLEAN, NEW m \in Mappings
      PROVE  EmplaceIf(c, s, m) \in Seq(Mappings)
  BY EmplaceType DEF EmplaceIf
<1>3. EmplaceIf(c1, Erase(t, e), m1) \in Seq(Mappings)
  BY <1>1, <1>2
<1>4. EmplaceIf(c2, EmplaceIf(c1, Erase(t, e), m1), m2) \in Seq(Mappings)
  BY <1>2, <1>3
<1>5. EmplaceIf(c3, EmplaceIf(c2, EmplaceIf(c1, Erase(t, e), m1), m2), m3) \in Seq(Mappings)
  BY <1>2, <1>4
<1>. QED
  BY <1>5 DEF Replaced

\* What a round of unmap(), map() and protect() puts in for e.
UnmapPieces(e, a, b) ==
  Pieces(HeadPages(e, a) # 0, HeadOf(e, HeadPages(e, a)),
         TailPages(e, b) # 0, TailOf(e, TailPages(e, b)), FALSE, e)
MapPieces(e, a, b) ==
  Pieces(HeadPages(e, a) # 0, HeadOf(e, HeadPages(e, a)),
         ~Covered(e, a, b), RestOf(e, a, b), FALSE, e)
ProtectPieces(e, a, b, prot) ==
  Pieces(HeadPages(e, a) # 0, HeadOf(e, HeadPages(e, a)),
         TailPages(e, b) # 0, TailOf(e, TailPages(e, b)),
         TRUE, MiddleOf(e, a, b, prot))

\* The tree u after a round that replaces e by the pieces in P.
RoundOf(t, e, P, u) ==
  Good(t) /\ Fits(t, e) => /\ Good(u)
                          /\ Range(u) = {x \in Range(t) : x.startp # e.startp} \union P

LEMMA CoveredFacts ==
  ASSUME NEW e \in Mappings, NEW a \in Nat, NEW b \in Nat
  PROVE  Covered(e, a, b) <=> HeadPages(e, a) = 0 /\ TailPages(e, b) = 0
BY MappingFacts DEF Covered, HeadPages, TailPages

LEMMA UnmapRound ==
  ASSUME NEW st \in States, NEW e \in Mappings, NEW a \in Nat, NEW b \in Nat, a <= b,
         Overlaps(e, a, b)
  PROVE  /\ UnmapOver(st, e, a, b) \in States
         /\ UnmapOver(st, e, a, b).failed = st.failed
         /\ UnmapOver(st, e, a, b).pt = Clear(st.pt, From(e, a), To(e, b))
         /\ RoundOf(st.tree, e, UnmapPieces(e, a, b), UnmapOver(st, e, a, b).tree)
<1>. DEFINE c1 == HeadPages(e, a) # 0
            m1 == HeadOf(e, HeadPages(e, a))
            c2 == TailPages(e, b) # 0
            m2 == TailOf(e, TailPages(e, b))
            u == Replaced(st.tree, e, c1, m1, c2, m2, FALSE, e)
            r == UnmapOver(st, e, a, b)
<1>0. st.tree \in Seq(Mappings) /\ st.pt \in [Pages -> Entries] /\ st.failed \in BOOLEAN
  BY DEF States
<1>1. r.tree = u
  <2>1. r.tree = IF Covered(e, a, b) THEN Erase(st.tree, e)
                 ELSE EmplaceIf(c2, EmplaceIf(c1, Erase(st.tree, e), m1), m2)
    BY DEF UnmapOver, States
  <2>2. Covered(e, a, b) => ~c1 /\ ~c2
    BY CoveredFacts
  <2>. HIDE DEF c1, c2, m1, m2
  <2>. QED
    BY <2>1, <2>2 DEF Replaced, EmplaceIf
<1>2. r.pt = Clear(st.pt, From(e, a), To(e, b)) /\ r.failed = st.failed
  BY DEF UnmapOver, States
<1>3. r \in States <=> r.tree \in Seq(Mappings) /\ r.pt \in [Pages -> Entries] /\ r.failed \in BOOLEAN
  BY DEF UnmapOver, States
<1>4. a < e.endp /\ e.startp < b
  BY DEF Overlaps
<1>5. /\ Piece(m1, e, e.startp, Larger(a, e.startp), e.prot)
      /\ Piece(m2, e, Smaller(b, e.endp), e.endp, e.prot)
      /\ c1 <=> e.startp < a
      /\ c2 <=> b < e.endp
  BY <1>4, HeadFacts, TailFacts
<1>6. c1 /\ c2 => Apart(m1, m2)
  <2>. HIDE DEF c1, c2, m1, m2
  <2>. QED
    BY <1>5, MappingFacts DEF Piece, Apart, Larger, Smaller
<1>7. m1 \in Mappings /\ m2 \in Mappings /\ Within(m1, e) /\ Within(m2, e) /\ Within(e, e)
  BY <1>5, MappingFacts DEF Piece, Within
<1>8. u \in Seq(Mappings)
  <2>. HIDE DEF c1, c2, m1, m2
  <2>1. c1 \in BOOLEAN /\ c2 \in BOOLEAN
    BY DEF c1, c2
  <2>. QED
    BY <1>0, <1>7, <2>1, ReplacedType
<1>9. RoundOf(st.tree, e, UnmapPieces(e, a, b), u)
  <2>1. UnmapPieces(e, a, b) = Pieces(c1, m1, c2, m2, FALSE, e)
    BY DEF UnmapPieces
  <2>. DEFINE c3 == FALSE
  <2>2. c1 \in BOOLEAN /\ c2 \in BOOLEAN /\ c3 \in BOOLEAN /\ ~c3
    OBVIOUS
  <2>. HIDE DEF c1, c2, m1, m2, c3
  <2>3. SUFFICES ASSUME Good(st.tree), Fits(st.tree, e)
                 PROVE  /\ Good(Replaced(st.tree, e, c1, m1, c2, m2, c3, e))
                        /\ Range(Replaced(st.tree, e, c1, m1, c2, m2, c3, e)) =
                             {x \in Range(st.tree) : x.startp # e.startp}
                               \union Pieces(c1, m1, c2, m2, c3, e)
    BY <2>1 DEF RoundOf, c3
  <2>4. /\ c1 /\ c2 => Empty(m1) \/ Empty(m2) \/ Apart(m1, m2)
        /\ c1 /\ c3 => Empty(m1) \/ Empty(e) \/ Apart(m1, e)
        /\ c2 /\ c3 => Empty(m2) \/ Empty(e) \/ Apart(m2, e)
    BY <1>6, <2>2
  <2>. QED
    BY <1>7, <2>2, <2>3, <2>4, ReplacedFacts
<1>10. r \in States
  <2>1. Clear(st.pt, From(e, a), To(e, b)) \in [Pages -> Entries]
    BY <1>0, PtTypes DEF Prot
  <2>. HIDE DEF r, u
  <2>. QED
    BY <1>0, <1>1, <1>2, <1>3, <1>8, <2>1
<1>. QED
  BY <1>1, <1>2, <1>9, <1>10

LEMMA MapRound ==
  ASSUME NEW st \in States, NEW e \in Mappings, NEW a \in Nat, NEW b \in Nat, a <= b,
         Overlaps(e, a, b)
  PROVE  /\ MapOver(st, e, a, b) \in States
         /\ st.failed \/ e.untouchable =>
              /\ MapOver(st, e, a, b).failed
              /\ MapOver(st, e, a, b).tree = st.tree /\ MapOver(st, e, a, b).pt = st.pt
         /\ ~st.failed /\ ~e.untouchable =>
              /\ ~MapOver(st, e, a, b).failed
              /\ MapOver(st, e, a, b).pt = Clear(st.pt, From(e, a), To(e, b))
              /\ RoundOf(st.tree, e, MapPieces(e, a, b), MapOver(st, e, a, b).tree)
<1>. DEFINE c1 == HeadPages(e, a) # 0
            m1 == HeadOf(e, HeadPages(e, a))
            c2 == ~Covered(e, a, b)
            m2 == RestOf(e, a, b)
            u == Replaced(st.tree, e, c1, m1, c2, m2, FALSE, e)
            r == MapOver(st, e, a, b)
<1>0. st.tree \in Seq(Mappings) /\ st.pt \in [Pages -> Entries] /\ st.failed \in BOOLEAN
  BY DEF States
<1>1. CASE st.failed \/ e.untouchable
  <2>1. r = [st EXCEPT !.failed = TRUE]
    BY <1>1 DEF MapOver
  <2>2. r \in States /\ r.failed /\ r.tree = st.tree /\ r.pt = st.pt
    BY <2>1 DEF States
  <2>. QED
    BY <1>1, <2>2
<1>2. CASE ~(st.failed \/ e.untouchable)
  <2>1. r.tree = u
    <3>1. r.tree = IF Covered(e, a, b) THEN Erase(st.tree, e)
                   ELSE Emplace(EmplaceIf(c1, Erase(st.tree, e), m1), m2)
      BY <1>2 DEF MapOver, States
    <3>2. Covered(e, a, b) => ~c1
      BY CoveredFacts
    <3>. HIDE DEF c1, m1, m2
    <3>. QED
      BY <3>1, <3>2 DEF Replaced, EmplaceIf
  <2>2. r.pt = Clear(st.pt, From(e, a), To(e, b)) /\ r.failed = st.failed
    BY <1>2 DEF MapOver, States
  <2>3. r \in States <=> r.tree \in Seq(Mappings) /\ r.pt \in [Pages -> Entries] /\ r.failed \in BOOLEAN
    BY <1>2 DEF MapOver, States
  <2>4. a < e.endp /\ e.startp < b
    BY DEF Overlaps
  <2>5. /\ Piece(m1, e, e.startp, Larger(a, e.startp), e.prot)
        /\ Piece(m2, e, Smaller(b, e.endp), e.endp, e.prot)
    BY <2>4, HeadFacts, RestFacts
  <2>6. Apart(m1, m2)
    <3>. HIDE DEF m1, m2
    <3>. QED
      BY <2>4, <2>5, MappingFacts DEF Piece, Apart, Larger, Smaller
  <2>7. m1 \in Mappings /\ m2 \in Mappings /\ Within(m1, e) /\ Within(m2, e) /\ Within(e, e)
    BY <2>5, MappingFacts DEF Piece, Within
  <2>. DEFINE c3 == FALSE
  <2>8. /\ c1 \in BOOLEAN /\ c2 \in BOOLEAN /\ c3 \in BOOLEAN /\ ~c3
        /\ MapPieces(e, a, b) = Pieces(c1, m1, c2, m2, c3, e)
        /\ u = Replaced(st.tree, e, c1, m1, c2, m2, c3, e)
    BY DEF MapPieces, Covered
  <2>. HIDE DEF c1, c2, m1, m2, c3, r, u
  <2>9. u \in Seq(Mappings)
    BY <1>0, <2>7, <2>8, ReplacedType
  <2>10. RoundOf(st.tree, e, MapPieces(e, a, b), u)
    <3>1. SUFFICES ASSUME Good(st.tree), Fits(st.tree, e)
                   PROVE  /\ Good(Replaced(st.tree, e, c1, m1, c2, m2, c3, e))
                          /\ Range(Replaced(st.tree, e, c1, m1, c2, m2, c3, e)) =
                               {x \in Range(st.tree) : x.startp # e.startp}
                                 \union Pieces(c1, m1, c2, m2, c3, e)
      BY <2>8 DEF RoundOf
    <3>2. /\ c1 /\ c2 => Empty(m1) \/ Empty(m2) \/ Apart(m1, m2)
          /\ c1 /\ c3 => Empty(m1) \/ Empty(e) \/ Apart(m1, e)
          /\ c2 /\ c3 => Empty(m2) \/ Empty(e) \/ Apart(m2, e)
      BY <2>6, <2>8
    <3>. QED
      BY <2>7, <2>8, <3>1, <3>2, ReplacedFacts
  <2>11. r \in States
    <3>1. Clear(st.pt, From(e, a), To(e, b)) \in [Pages -> Entries]
      BY <1>0, PtTypes DEF Prot
    <3>. QED
      BY <1>0, <2>1, <2>2, <2>3, <2>9, <3>1
  <2>. QED
    BY <1>2, <2>1, <2>2, <2>10, <2>11 DEF r
<1>. QED
  BY <1>1, <1>2

LEMMA ProtectRound ==
  ASSUME NEW st \in States, NEW e \in Mappings, NEW a \in Nat, NEW b \in Nat, a <= b,
         Overlaps(e, a, b), NEW prot \in Prot
  PROVE  /\ ProtectOver(st, e, a, b, prot) \in States
         /\ st.failed => ProtectOver(st, e, a, b, prot) = st
         /\ ~st.failed =>
              /\ ProtectOver(st, e, a, b, prot).failed <=>
                   \E p \in Pages : From(e, a) <= p /\ p < To(e, b) /\ TableOf(p) \notin tables
              /\ ProtectOver(st, e, a, b, prot).pt = ProtectPt(st.pt, From(e, a), To(e, b), prot)
              /\ RoundOf(st.tree, e, ProtectPieces(e, a, b, prot),
                         ProtectOver(st, e, a, b, prot).tree)
<1>. DEFINE c1 == HeadPages(e, a) # 0
            m1 == HeadOf(e, HeadPages(e, a))
            c2 == TailPages(e, b) # 0
            m2 == TailOf(e, TailPages(e, b))
            m3 == MiddleOf(e, a, b, prot)
            u == Replaced(st.tree, e, c1, m1, c2, m2, TRUE, m3)
            r == ProtectOver(st, e, a, b, prot)
            fails == \E p \in {q \in Pages : From(e, a) <= q /\ q < To(e, b)} : TableOf(p) \notin tables
<1>0. st.tree \in Seq(Mappings) /\ st.pt \in [Pages -> Entries] /\ st.failed \in BOOLEAN
  BY DEF States
<1>1. CASE st.failed
  BY <1>1 DEF ProtectOver
<1>2. CASE ~st.failed
  <2>4. a < e.endp /\ e.startp < b
    BY DEF Overlaps
  <2>5. /\ Piece(m1, e, e.startp, Larger(a, e.startp), e.prot)
        /\ Piece(m2, e, Smaller(b, e.endp), e.endp, e.prot)
        /\ Piece(m3, e, Larger(a, e.startp), Smaller(b, e.endp), prot)
        /\ m3.offsetp = e.offsetp + (Larger(a, e.startp) - e.startp)
    BY <2>4, HeadFacts, TailFacts, MiddleFacts DEF Prot
  <2>1. r.tree = u
    <3>1. r.tree = IF Covered(e, a, b) THEN Emplace(Erase(st.tree, e), [e EXCEPT !.prot = prot])
                   ELSE Emplace(EmplaceIf(c2, EmplaceIf(c1, Erase(st.tree, e), m1), m2), m3)
      BY <1>2 DEF ProtectOver, States
    <3>2. Covered(e, a, b) => ~c1 /\ ~c2
      BY CoveredFacts
    <3>3. ASSUME Covered(e, a, b) PROVE [e EXCEPT !.prot = prot] = m3
      <4>. DEFINE k == [e EXCEPT !.prot = prot]
      <4>1. k \in Mappings
        BY DEF Mappings, Prot
      <4>2. /\ k.startp = e.startp /\ k.endp = e.endp /\ k.obj = e.obj /\ k.offsetp = e.offsetp
            /\ k.prot = prot /\ k.private = e.private /\ k.untouchable = e.untouchable
        BY DEF Mappings
      <4>3. /\ Larger(a, e.startp) = e.startp /\ Smaller(b, e.endp) = e.endp
            /\ e.offsetp + (e.startp - e.startp) = e.offsetp
        BY <3>3, MappingFacts DEF Covered, Larger, Smaller
      <4>. HIDE DEF k, m3
      <4>4. /\ m3.startp = e.startp /\ m3.endp = e.endp /\ m3.obj = e.obj
            /\ m3.offsetp = e.offsetp /\ m3.prot = prot /\ m3.private = e.private
            /\ m3.untouchable = e.untouchable /\ m3 \in Mappings
        BY <2>5, <4>3 DEF Piece
      <4>5. k = m3
        BY <4>1, <4>2, <4>4 DEF Mappings
      <4>. QED
        BY <4>5 DEF k
    <3>. HIDE DEF c1, c2, m1, m2, m3
    <3>. QED
      BY <3>1, <3>2, <3>3 DEF Replaced, EmplaceIf
  <2>2. r.pt = ProtectPt(st.pt, From(e, a), To(e, b), prot)
    BY <1>2 DEF ProtectOver, States
  <2>f. r.failed = fails
    BY <1>2 DEF ProtectOver, States
  <2>3. r \in States <=> r.tree \in Seq(Mappings) /\ r.pt \in [Pages -> Entries] /\ r.failed \in BOOLEAN
    BY <1>2 DEF ProtectOver, States
  <2>6. /\ c1 /\ c2 => Apart(m1, m2)
        /\ Apart(m1, m3) /\ Apart(m2, m3)
    <3>1. (c1 <=> e.startp < a) /\ (c2 <=> b < e.endp)
      BY <2>4, HeadFacts, TailFacts
    <3>. HIDE DEF c1, c2, m1, m2, m3
    <3>. QED
      BY <2>5, <3>1, MappingFacts DEF Piece, Apart, Larger, Smaller
  <2>7. /\ m1 \in Mappings /\ m2 \in Mappings /\ m3 \in Mappings
        /\ Within(m1, e) /\ Within(m2, e) /\ Within(m3, e)
    BY <2>5 DEF Piece
  <2>. DEFINE c3 == TRUE
  <2>8. /\ c1 \in BOOLEAN /\ c2 \in BOOLEAN /\ c3 \in BOOLEAN
        /\ ProtectPieces(e, a, b, prot) = Pieces(c1, m1, c2, m2, c3, m3)
        /\ u = Replaced(st.tree, e, c1, m1, c2, m2, c3, m3)
    BY DEF ProtectPieces
  <2>b. fails \in BOOLEAN
    OBVIOUS
  <2>e. fails <=> \E p \in Pages : From(e, a) <= p /\ p < To(e, b) /\ TableOf(p) \notin tables
    OBVIOUS
  <2>. HIDE DEF c1, c2, m1, m2, m3, c3, r, u, fails
  <2>9. u \in Seq(Mappings)
    BY <1>0, <2>7, <2>8, ReplacedType
  <2>10. RoundOf(st.tree, e, ProtectPieces(e, a, b, prot), u)
    <3>1. SUFFICES ASSUME Good(st.tree), Fits(st.tree, e)
                   PROVE  /\ Good(Replaced(st.tree, e, c1, m1, c2, m2, c3, m3))
                          /\ Range(Replaced(st.tree, e, c1, m1, c2, m2, c3, m3)) =
                               {x \in Range(st.tree) : x.startp # e.startp}
                                 \union Pieces(c1, m1, c2, m2, c3, m3)
      BY <2>8 DEF RoundOf
    <3>2. /\ c1 /\ c2 => Empty(m1) \/ Empty(m2) \/ Apart(m1, m2)
          /\ c1 /\ c3 => Empty(m1) \/ Empty(m3) \/ Apart(m1, m3)
          /\ c2 /\ c3 => Empty(m2) \/ Empty(m3) \/ Apart(m2, m3)
      BY <2>6
    <3>. QED
      BY <2>7, <2>8, <3>1, <3>2, ReplacedFacts
  <2>11. r \in States
    <3>1. ProtectPt(st.pt, From(e, a), To(e, b), prot) \in [Pages -> Entries]
      BY <1>0, PtTypes
    <3>. QED
      BY <2>1, <2>2, <2>f, <2>b, <2>3, <2>9, <3>1
  <2>. QED
    BY <1>2, <2>1, <2>2, <2>f, <2>e, <2>10, <2>11 DEF r
<1>. QED
  BY <1>1, <1>2

-----------------------------------------------------------------------------
(* The loops *)

\* The tree u after n rounds of a loop over the mappings of t: what is not empty
\* lies in a mapping of t, and is that mapping if its round is still to come.
Progress(t, n, u) ==
  /\ Good(u)
  /\ \A x \in Range(u) :
       Empty(x) \/ \E q \in 1 .. Len(t) : Within(x, t[q]) /\ (x = t[q] \/ q <= n)

\* Two mappings of the tree are apart, unless one is empty.
LEMMA ApartFacts ==
  ASSUME NEW t, Good(t), NEW i \in 1 .. Len(t), NEW j \in 1 .. Len(t), i # j
  PROVE  Empty(t[i]) \/ Empty(t[j]) \/ Apart(t[i], t[j])
<1>1. Len(t) \in Nat
  BY MemberOf DEF Good
<1>2. i < j \/ j < i
  BY <1>1
<1>. QED
  BY <1>2 DEF Good, Disjoint, Apart

LEMMA ProgressStart ==
  ASSUME NEW t, Good(t)
  PROVE  Progress(t, 0, t)
<1>1. ASSUME NEW x \in Range(t) PROVE \E q \in 1 .. Len(t) : Within(x, t[q]) /\ x = t[q]
  <2>1. PICK q \in 1 .. Len(t) : x = t[q] /\ x \in Mappings
    BY MemberOf DEF Good
  <2>2. Within(x, x)
    BY <2>1, MappingFacts DEF Within
  <2>. QED
    BY <2>1, <2>2
<1>. QED
  BY <1>1 DEF Progress

LEMMA ProgressFits ==
  ASSUME NEW t, Good(t), NEW n \in 1 .. Len(t), NEW u, Progress(t, n - 1, u)
  PROVE  Fits(u, t[n])
<1>1. SUFFICES ASSUME NEW x \in Range(u), ~Empty(x), ~Empty(t[n]), x # t[n]
               PROVE  Apart(x, t[n])
  BY DEF Fits
<1>2. PICK q \in 1 .. Len(t) : Within(x, t[q]) /\ (x = t[q] \/ q <= n - 1)
  BY <1>1 DEF Progress
<1>3. Len(t) \in Nat /\ t[q] \in Mappings /\ t[n] \in Mappings /\ x \in Mappings
  BY MemberOf DEF Good, Progress
<1>4. q # n
  BY <1>1, <1>2, <1>3
<1>5. ~Empty(t[q])
  BY <1>1, <1>2, <1>3, MappingFacts DEF Within, Empty
<1>6. Apart(t[q], t[n])
  BY <1>1, <1>4, <1>5, ApartFacts
<1>. QED
  BY <1>2, <1>3, <1>6, MappingFacts DEF Within, Apart

LEMMA ProgressStep ==
  ASSUME NEW t, Good(t), NEW n \in 1 .. Len(t), NEW u, Progress(t, n - 1, u),
         NEW v, Good(v), NEW P, \A m \in P : Within(m, t[n]),
         \A x \in Range(v) : x \in Range(u) \/ x \in P
  PROVE  Progress(t, n, v)
<1>1. SUFFICES ASSUME NEW x \in Range(v), ~Empty(x)
               PROVE  \E q \in 1 .. Len(t) : Within(x, t[q]) /\ (x = t[q] \/ q <= n)
  BY DEF Progress
<1>2. Len(t) \in Nat
  BY MemberOf DEF Good
<1>3. CASE x \in Range(u)
  <2>1. PICK q \in 1 .. Len(t) : Within(x, t[q]) /\ (x = t[q] \/ q <= n - 1)
    BY <1>1, <1>3 DEF Progress
  <2>. QED
    BY <1>2, <2>1
<1>4. CASE x \in P
  BY <1>2, <1>4
<1>. QED
  BY <1>3, <1>4

LEMMA ProgressSkip ==
  ASSUME NEW t, Good(t), NEW n \in 1 .. Len(t), NEW u, Progress(t, n - 1, u)
  PROVE  Progress(t, n, u)
<1>1. Good(u)
  BY DEF Progress
<1>2. PICK P : P = {}
  OBVIOUS
<1>3. (\A m \in P : Within(m, t[n])) /\ (\A x \in Range(u) : x \in Range(u) \/ x \in P)
  BY <1>2
<1>. QED
  BY <1>1, <1>3, ProgressStep

\* Every piece of a round lies in its mapping.
LEMMA PiecesWithin ==
  ASSUME NEW e \in Mappings, NEW a \in Nat, NEW b \in Nat, a <= b, Overlaps(e, a, b),
         NEW prot \in Prot
  PROVE  /\ \A m \in UnmapPieces(e, a, b) : Within(m, e) /\ m \in Mappings
         /\ \A m \in MapPieces(e, a, b) : Within(m, e) /\ m \in Mappings
         /\ \A m \in ProtectPieces(e, a, b, prot) : Within(m, e) /\ m \in Mappings
<1>1. a < e.endp /\ e.startp < b
  BY DEF Overlaps
<1>2. Within(HeadOf(e, HeadPages(e, a)), e) /\ HeadOf(e, HeadPages(e, a)) \in Mappings
  BY <1>1, HeadFacts DEF Piece
<1>3. Within(TailOf(e, TailPages(e, b)), e) /\ TailOf(e, TailPages(e, b)) \in Mappings
  BY <1>1, TailFacts DEF Piece
<1>4. Within(RestOf(e, a, b), e) /\ RestOf(e, a, b) \in Mappings
  BY RestFacts DEF Piece
<1>5. Within(MiddleOf(e, a, b, prot), e) /\ MiddleOf(e, a, b, prot) \in Mappings
  BY MiddleFacts DEF Piece, Prot
<1>. QED
  BY <1>2, <1>3, <1>4, <1>5 DEF UnmapPieces, MapPieces, ProtectPieces, Pieces

\* The states of the loop of unmap(), one for each mapping it has passed.
UnmapLoop(st, a, b, over) ==
  /\ over[0] = st
  /\ \A n \in 1 .. Len(st.tree) :
       over[n] = IF Affected(st.tree[n], a, b) THEN UnmapOver(over[n - 1], st.tree[n], a, b) ELSE over[n - 1]
  /\ \A n \in 0 .. Len(st.tree) : over[n] \in States
  /\ Unmap(st, a, b) = over[Len(st.tree)]

LEMMA UnmapDefined ==
  ASSUME NEW st \in States, NEW a \in Nat, NEW b \in Nat, a <= b
  PROVE  \E over : UnmapLoop(st, a, b, over)
<1>. DEFINE N == Len(st.tree)
            Body(f, n) ==
              IF n = 0 THEN st
              ELSE IF Affected(st.tree[n], a, b) THEN UnmapOver(f[n - 1], st.tree[n], a, b) ELSE f[n - 1]
            over == CHOOSE f : f = [n \in 0 .. N |-> Body(f, n)]
            step == [n \in 1 .. N |-> [s \in States |->
                      IF Affected(st.tree[n], a, b) THEN UnmapOver(s, st.tree[n], a, b) ELSE s]]
<1>1. N \in Nat /\ \A n \in 1 .. N : st.tree[n] \in Mappings
  <2>1. st.tree \in Seq(Mappings)
    BY DEF States
  <2>. QED
    BY <2>1, MemberOf
<1>2. ASSUME NEW n \in 1 .. N, NEW s \in States, Affected(st.tree[n], a, b)
      PROVE  UnmapOver(s, st.tree[n], a, b) \in States
  BY <1>1, <1>2, UnmapRound DEF Affected
<1>3. step \in [1 .. N -> [States -> States]]
  BY <1>2
<1>4. PICK g \in [0 .. N -> States] : Loop(N, st, step, g)
  <2>. HIDE DEF step, N
  <2>. QED
    BY <1>1, <1>3, LoopDefined
<1>5. \A n \in 0 .. N : g[n] = Body(g, n)
  <2>1. g[0] = st
    BY <1>4 DEF Loop
  <2>2. ASSUME NEW n \in 1 .. N PROVE g[n] = Body(g, n)
    <3>1. g[n] = step[n][g[n - 1]]
      BY <1>4 DEF Loop
    <3>2. g[n - 1] \in States
      BY <1>1
    <3>3. step[n][g[n - 1]] = IF Affected(st.tree[n], a, b) THEN UnmapOver(g[n - 1], st.tree[n], a, b) ELSE g[n - 1]
      BY <3>2
    <3>. QED
      BY <1>1, <3>1, <3>3
  <2>. QED
    BY <1>1, <2>1, <2>2
<1>6. g = [n \in 0 .. N |-> Body(g, n)]
  <2>. HIDE DEF Body
  <2>. QED
    BY <1>5
<1>7. over = [n \in 0 .. N |-> Body(over, n)]
  <2>. HIDE DEF Body, N
  <2>. QED
    BY <1>6, Zenon
<1>8. Unmap(st, a, b) = over[Len(st.tree)]
  BY DEF Unmap
<1>. HIDE DEF over
<1>9. over[0] = st
  <2>1. 0 \in 0 .. N
    BY <1>1
  <2>2. over[0] = Body(over, 0)
    <3>. HIDE DEF Body, N
    <3>. QED
      BY <1>7, <2>1, Zenon
  <2>. QED
    BY <2>2
<1>10. ASSUME NEW n \in 1 .. N
       PROVE  over[n] = IF Affected(st.tree[n], a, b) THEN UnmapOver(over[n - 1], st.tree[n], a, b) ELSE over[n - 1]
  <2>1. n \in 0 .. N /\ n # 0
    BY <1>1
  <2>2. over[n] = Body(over, n)
    <3>. HIDE DEF Body, N
    <3>. QED
      BY <1>7, <2>1, Zenon
  <2>. QED
    BY <2>1, <2>2
<1>11. \A n \in 0 .. N : over[n] \in States
  <2>. DEFINE P == {n \in 0 .. N : over[n] \in States}
  <2>1. 0 \in P
    BY <1>1, <1>9
  <2>2. ASSUME NEW n \in 1 .. N, n - 1 \in P PROVE n \in P
    <3>1. over[n] \in States
      BY <1>2, <1>10, <2>2
    <3>. QED
      BY <1>1, <3>1
  <2>3. \A n \in 0 .. N : n \in P
    <3>. HIDE DEF P, N
    <3>. QED
      BY <1>1, <2>1, <2>2, LoopInduction
  <2>. QED
    BY <2>3
<1>12. UnmapLoop(st, a, b, over)
  BY <1>8, <1>9, <1>10, <1>11 DEF UnmapLoop
<1>. QED
  BY <1>12

\* The states of the loop of map(), one for each mapping it has passed.
MapLoop(st, a, b, over) ==
  /\ over[0] = st
  /\ \A n \in 1 .. Len(st.tree) :
       over[n] = IF Overlaps(st.tree[n], a, b) THEN MapOver(over[n - 1], st.tree[n], a, b) ELSE over[n - 1]
  /\ \A n \in 0 .. Len(st.tree) : over[n] \in States
  /\ \A new : Map(st, a, b, new) =
       IF over[Len(st.tree)].failed THEN over[Len(st.tree)]
       ELSE [over[Len(st.tree)] EXCEPT !.tree = Emplace(@, new)]

LEMMA MapDefined ==
  ASSUME NEW st \in States, NEW a \in Nat, NEW b \in Nat, a <= b
  PROVE  \E over : MapLoop(st, a, b, over)
<1>. DEFINE N == Len(st.tree)
            Body(f, n) ==
              IF n = 0 THEN st
              ELSE IF Overlaps(st.tree[n], a, b) THEN MapOver(f[n - 1], st.tree[n], a, b) ELSE f[n - 1]
            over == CHOOSE f : f = [n \in 0 .. N |-> Body(f, n)]
            step == [n \in 1 .. N |-> [s \in States |->
                      IF Overlaps(st.tree[n], a, b) THEN MapOver(s, st.tree[n], a, b) ELSE s]]
<1>1. N \in Nat /\ \A n \in 1 .. N : st.tree[n] \in Mappings
  <2>1. st.tree \in Seq(Mappings)
    BY DEF States
  <2>. QED
    BY <2>1, MemberOf
<1>2. ASSUME NEW n \in 1 .. N, NEW s \in States, Overlaps(st.tree[n], a, b)
      PROVE  MapOver(s, st.tree[n], a, b) \in States
  BY <1>1, <1>2, MapRound DEF Affected
<1>3. step \in [1 .. N -> [States -> States]]
  BY <1>2
<1>4. PICK g \in [0 .. N -> States] : Loop(N, st, step, g)
  <2>. HIDE DEF step, N
  <2>. QED
    BY <1>1, <1>3, LoopDefined
<1>5. \A n \in 0 .. N : g[n] = Body(g, n)
  <2>1. g[0] = st
    BY <1>4 DEF Loop
  <2>2. ASSUME NEW n \in 1 .. N PROVE g[n] = Body(g, n)
    <3>1. g[n] = step[n][g[n - 1]]
      BY <1>4 DEF Loop
    <3>2. g[n - 1] \in States
      BY <1>1
    <3>3. step[n][g[n - 1]] = IF Overlaps(st.tree[n], a, b) THEN MapOver(g[n - 1], st.tree[n], a, b) ELSE g[n - 1]
      BY <3>2
    <3>. QED
      BY <1>1, <3>1, <3>3
  <2>. QED
    BY <1>1, <2>1, <2>2
<1>6. g = [n \in 0 .. N |-> Body(g, n)]
  <2>. HIDE DEF Body
  <2>. QED
    BY <1>5
<1>7. over = [n \in 0 .. N |-> Body(over, n)]
  <2>. HIDE DEF Body, N
  <2>. QED
    BY <1>6, Zenon
<1>8. \A new : Map(st, a, b, new) =
       IF over[Len(st.tree)].failed THEN over[Len(st.tree)]
       ELSE [over[Len(st.tree)] EXCEPT !.tree = Emplace(@, new)]
  BY DEF Map
<1>. HIDE DEF over
<1>9. over[0] = st
  <2>1. 0 \in 0 .. N
    BY <1>1
  <2>2. over[0] = Body(over, 0)
    <3>. HIDE DEF Body, N
    <3>. QED
      BY <1>7, <2>1, Zenon
  <2>. QED
    BY <2>2
<1>10. ASSUME NEW n \in 1 .. N
       PROVE  over[n] = IF Overlaps(st.tree[n], a, b) THEN MapOver(over[n - 1], st.tree[n], a, b) ELSE over[n - 1]
  <2>1. n \in 0 .. N /\ n # 0
    BY <1>1
  <2>2. over[n] = Body(over, n)
    <3>. HIDE DEF Body, N
    <3>. QED
      BY <1>7, <2>1, Zenon
  <2>. QED
    BY <2>1, <2>2
<1>11. \A n \in 0 .. N : over[n] \in States
  <2>. DEFINE P == {n \in 0 .. N : over[n] \in States}
  <2>1. 0 \in P
    BY <1>1, <1>9
  <2>2. ASSUME NEW n \in 1 .. N, n - 1 \in P PROVE n \in P
    <3>1. over[n] \in States
      BY <1>2, <1>10, <2>2
    <3>. QED
      BY <1>1, <3>1
  <2>3. \A n \in 0 .. N : n \in P
    <3>. HIDE DEF P, N
    <3>. QED
      BY <1>1, <2>1, <2>2, LoopInduction
  <2>. QED
    BY <2>3
<1>12. MapLoop(st, a, b, over)
  BY <1>8, <1>9, <1>10, <1>11 DEF MapLoop
<1>. QED
  BY <1>12

\* The states of the loop of protect(), one for each mapping it has passed.
ProtectLoop(st, a, b, prot, over) ==
  /\ over[0] = st
  /\ \A n \in 1 .. Len(st.tree) :
       over[n] = IF Affected(st.tree[n], a, b) THEN ProtectOver(over[n - 1], st.tree[n], a, b, prot) ELSE over[n - 1]
  /\ \A n \in 0 .. Len(st.tree) : over[n] \in States
  /\ Protect(st, a, b, prot) = over[Len(st.tree)]

LEMMA ProtectDefined ==
  ASSUME NEW st \in States, NEW a \in Nat, NEW b \in Nat, a <= b, NEW prot \in Prot
  PROVE  \E over : ProtectLoop(st, a, b, prot, over)
<1>. DEFINE N == Len(st.tree)
            Body(f, n) ==
              IF n = 0 THEN st
              ELSE IF Affected(st.tree[n], a, b) THEN ProtectOver(f[n - 1], st.tree[n], a, b, prot) ELSE f[n - 1]
            over == CHOOSE f : f = [n \in 0 .. N |-> Body(f, n)]
            step == [n \in 1 .. N |-> [s \in States |->
                      IF Affected(st.tree[n], a, b) THEN ProtectOver(s, st.tree[n], a, b, prot) ELSE s]]
<1>1. N \in Nat /\ \A n \in 1 .. N : st.tree[n] \in Mappings
  <2>1. st.tree \in Seq(Mappings)
    BY DEF States
  <2>. QED
    BY <2>1, MemberOf
<1>2. ASSUME NEW n \in 1 .. N, NEW s \in States, Affected(st.tree[n], a, b)
      PROVE  ProtectOver(s, st.tree[n], a, b, prot) \in States
  BY <1>1, <1>2, ProtectRound DEF Affected
<1>3. step \in [1 .. N -> [States -> States]]
  BY <1>2
<1>4. PICK g \in [0 .. N -> States] : Loop(N, st, step, g)
  <2>. HIDE DEF step, N
  <2>. QED
    BY <1>1, <1>3, LoopDefined
<1>5. \A n \in 0 .. N : g[n] = Body(g, n)
  <2>1. g[0] = st
    BY <1>4 DEF Loop
  <2>2. ASSUME NEW n \in 1 .. N PROVE g[n] = Body(g, n)
    <3>1. g[n] = step[n][g[n - 1]]
      BY <1>4 DEF Loop
    <3>2. g[n - 1] \in States
      BY <1>1
    <3>3. step[n][g[n - 1]] = IF Affected(st.tree[n], a, b) THEN ProtectOver(g[n - 1], st.tree[n], a, b, prot) ELSE g[n - 1]
      BY <3>2
    <3>. QED
      BY <1>1, <3>1, <3>3
  <2>. QED
    BY <1>1, <2>1, <2>2
<1>6. g = [n \in 0 .. N |-> Body(g, n)]
  <2>. HIDE DEF Body
  <2>. QED
    BY <1>5
<1>7. over = [n \in 0 .. N |-> Body(over, n)]
  <2>. HIDE DEF Body, N
  <2>. QED
    BY <1>6, Zenon
<1>8. Protect(st, a, b, prot) = over[Len(st.tree)]
  BY DEF Protect
<1>. HIDE DEF over
<1>9. over[0] = st
  <2>1. 0 \in 0 .. N
    BY <1>1
  <2>2. over[0] = Body(over, 0)
    <3>. HIDE DEF Body, N
    <3>. QED
      BY <1>7, <2>1, Zenon
  <2>. QED
    BY <2>2
<1>10. ASSUME NEW n \in 1 .. N
       PROVE  over[n] = IF Affected(st.tree[n], a, b) THEN ProtectOver(over[n - 1], st.tree[n], a, b, prot) ELSE over[n - 1]
  <2>1. n \in 0 .. N /\ n # 0
    BY <1>1
  <2>2. over[n] = Body(over, n)
    <3>. HIDE DEF Body, N
    <3>. QED
      BY <1>7, <2>1, Zenon
  <2>. QED
    BY <2>1, <2>2
<1>11. \A n \in 0 .. N : over[n] \in States
  <2>. DEFINE P == {n \in 0 .. N : over[n] \in States}
  <2>1. 0 \in P
    BY <1>1, <1>9
  <2>2. ASSUME NEW n \in 1 .. N, n - 1 \in P PROVE n \in P
    <3>1. over[n] \in States
      BY <1>2, <1>10, <2>2
    <3>. QED
      BY <1>1, <3>1
  <2>3. \A n \in 0 .. N : n \in P
    <3>. HIDE DEF P, N
    <3>. QED
      BY <1>1, <2>1, <2>2, LoopInduction
  <2>. QED
    BY <2>3
<1>12. ProtectLoop(st, a, b, prot, over)
  BY <1>8, <1>9, <1>10, <1>11 DEF ProtectLoop
<1>. QED
  BY <1>12

\* A round that replaces its mapping makes progress.
LEMMA RoundProgress ==
  ASSUME NEW t, Good(t), NEW n \in 1 .. Len(t), NEW u, Progress(t, n - 1, u),
         NEW P, \A m \in P : Within(m, t[n]) /\ m \in Mappings,
         NEW v, RoundOf(u, t[n], P, v)
  PROVE  /\ Progress(t, n, v)
         /\ Range(v) = {x \in Range(u) : x.startp # t[n].startp} \union P
<1>1. Fits(u, t[n]) /\ Good(u)
  BY ProgressFits DEF Progress
<1>2. Good(v) /\ Range(v) = {x \in Range(u) : x.startp # t[n].startp} \union P
  BY <1>1 DEF RoundOf
<1>3. \A x \in Range(v) : x \in Range(u) \/ x \in P
  BY <1>2
<1>4. \A m \in P : Within(m, t[n])
  OBVIOUS
<1>5. Progress(t, n, v)
  BY <1>2, <1>3, <1>4, ProgressStep
<1>. QED
  BY <1>2, <1>5

LEMMA UnmapProgress ==
  ASSUME NEW st \in States, Good(st.tree), NEW a \in Nat, NEW b \in Nat, a <= b,
         NEW over, UnmapLoop(st, a, b, over)
  PROVE  \A n \in 0 .. Len(st.tree) : Progress(st.tree, n, over[n].tree)
<1>. DEFINE t == st.tree
            P == {n \in 0 .. Len(t) : Progress(t, n, over[n].tree)}
<1>1. Len(t) \in Nat /\ \A n \in 1 .. Len(t) : t[n] \in Mappings
  BY MemberOf DEF Good
<1>2. 0 \in P
  BY <1>1, ProgressStart DEF UnmapLoop
<1>3. ASSUME NEW n \in 1 .. Len(t), n - 1 \in P PROVE n \in P
  <2>1. n \in 0 .. Len(t) /\ n - 1 \in 0 .. Len(t) /\ over[n - 1] \in States
    BY <1>1 DEF UnmapLoop
  <2>2. Progress(t, n - 1, over[n - 1].tree)
    BY <1>3
  <2>3. CASE Affected(t[n], a, b)
    <3>1. over[n] = UnmapOver(over[n - 1], t[n], a, b)
      BY <2>3 DEF UnmapLoop
    <3>2. Overlaps(t[n], a, b)
      BY <2>3 DEF Affected
    <3>3. RoundOf(over[n - 1].tree, t[n], UnmapPieces(t[n], a, b), over[n].tree)
      BY <1>1, <2>1, <3>1, <3>2, UnmapRound
    <3>4. \A m \in UnmapPieces(t[n], a, b) : Within(m, t[n]) /\ m \in Mappings
      BY <1>1, <3>2, PiecesWithin DEF Prot
    <3>. HIDE DEF t
    <3>5. Good(t)
      BY DEF t
    <3>6. Progress(t, n, over[n].tree)
      BY <2>2, <3>3, <3>4, <3>5, RoundProgress
    <3>. QED
      BY <2>1, <3>6
  <2>4. CASE ~Affected(t[n], a, b)
    <3>1. over[n] = over[n - 1]
      BY <2>4 DEF UnmapLoop
    <3>2. Progress(t, n, over[n].tree)
      BY <2>2, <3>1, ProgressSkip
    <3>. QED
      BY <2>1, <3>2
  <2>. QED
    BY <2>3, <2>4
<1>4. \A n \in 0 .. Len(t) : n \in P
  <2>. HIDE DEF P, t
  <2>. QED
    BY <1>1, <1>2, <1>3, LoopInduction
<1>. QED
  BY <1>4

LEMMA ProtectProgress ==
  ASSUME NEW st \in States, Good(st.tree), NEW a \in Nat, NEW b \in Nat, a <= b,
         NEW prot \in Prot, NEW over, ProtectLoop(st, a, b, prot, over)
  PROVE  \A n \in 0 .. Len(st.tree) : Progress(st.tree, n, over[n].tree)
<1>. DEFINE t == st.tree
            P == {n \in 0 .. Len(t) : Progress(t, n, over[n].tree)}
<1>1. Len(t) \in Nat /\ \A n \in 1 .. Len(t) : t[n] \in Mappings
  BY MemberOf DEF Good
<1>2. 0 \in P
  BY <1>1, ProgressStart DEF ProtectLoop
<1>3. ASSUME NEW n \in 1 .. Len(t), n - 1 \in P PROVE n \in P
  <2>1. n \in 0 .. Len(t) /\ n - 1 \in 0 .. Len(t) /\ over[n - 1] \in States
    BY <1>1 DEF ProtectLoop
  <2>2. Progress(t, n - 1, over[n - 1].tree)
    BY <1>3
  <2>3. CASE Affected(t[n], a, b) /\ ~over[n - 1].failed
    <3>1. over[n] = ProtectOver(over[n - 1], t[n], a, b, prot)
      BY <2>3 DEF ProtectLoop
    <3>2. Overlaps(t[n], a, b)
      BY <2>3 DEF Affected
    <3>3. RoundOf(over[n - 1].tree, t[n], ProtectPieces(t[n], a, b, prot), over[n].tree)
      BY <1>1, <2>1, <2>3, <3>1, <3>2, ProtectRound
    <3>4. \A m \in ProtectPieces(t[n], a, b, prot) : Within(m, t[n]) /\ m \in Mappings
      BY <1>1, <3>2, PiecesWithin
    <3>. HIDE DEF t
    <3>5. Good(t)
      BY DEF t
    <3>6. Progress(t, n, over[n].tree)
      BY <2>2, <3>3, <3>4, <3>5, RoundProgress
    <3>. QED
      BY <2>1, <3>6
  <2>4. CASE ~Affected(t[n], a, b) \/ over[n - 1].failed
    <3>1. over[n] = over[n - 1]
      BY <1>1, <2>1, <2>4, ProtectRound DEF ProtectLoop, Affected
    <3>2. Progress(t, n, over[n].tree)
      BY <2>2, <3>1, ProgressSkip
    <3>. QED
      BY <2>1, <3>2
  <2>. QED
    BY <2>3, <2>4
<1>4. \A n \in 0 .. Len(t) : n \in P
  <2>. HIDE DEF P, t
  <2>. QED
    BY <1>1, <1>2, <1>3, LoopInduction
<1>. QED
  BY <1>4

\* map() empties its range: what is left in it is to come.
Vacant(t, n, a, b, u) ==
  \A x \in Range(u) :
    Empty(x) \/ x.endp <= a \/ b <= x.startp \/ \E q \in 1 .. Len(t) : x = t[q] /\ n < q

LEMMA MapProgress ==
  ASSUME NEW st \in States, Good(st.tree), NEW a \in Nat, NEW b \in Nat, a <= b,
         NEW over, MapLoop(st, a, b, over)
  PROVE  \A n \in 0 .. Len(st.tree) :
           /\ Progress(st.tree, n, over[n].tree)
           /\ over[n].failed \/ Vacant(st.tree, n, a, b, over[n].tree)
<1>. DEFINE t == st.tree
            Right(n) == /\ Progress(t, n, over[n].tree)
                        /\ over[n].failed \/ Vacant(t, n, a, b, over[n].tree)
            P == {n \in 0 .. Len(t) : Right(n)}
<1>1. /\ Len(t) \in Nat /\ \A n \in 1 .. Len(t) : t[n] \in Mappings
      /\ \A x \in Range(t) : \E q \in 1 .. Len(t) : x = t[q]
  BY MemberOf DEF Good
<1>2. 0 \in P
  <2>1. over[0].tree = t
    BY DEF MapLoop
  <2>2. Vacant(t, 0, a, b, t)
    BY <1>1 DEF Vacant
  <2>. QED
    BY <1>1, <2>1, <2>2, ProgressStart
<1>3. ASSUME NEW n \in 1 .. Len(t), n - 1 \in P PROVE n \in P
  <2>1. n \in 0 .. Len(t) /\ n - 1 \in 0 .. Len(t) /\ over[n - 1] \in States
    BY <1>1 DEF MapLoop
  <2>2. /\ Progress(t, n - 1, over[n - 1].tree)
        /\ over[n - 1].failed \/ Vacant(t, n - 1, a, b, over[n - 1].tree)
    <3>1. Right(n - 1)
      <4>. HIDE DEF Right
      <4>. QED
        BY <1>3
    <3>. QED
      BY <3>1
  <2>3. CASE Overlaps(t[n], a, b) /\ ~over[n - 1].failed /\ ~t[n].untouchable
    <3>1. over[n] = MapOver(over[n - 1], t[n], a, b)
      BY <2>3 DEF MapLoop
    <3>3. RoundOf(over[n - 1].tree, t[n], MapPieces(t[n], a, b), over[n].tree)
      BY <1>1, <2>1, <2>3, <3>1, MapRound
    <3>4. \A m \in MapPieces(t[n], a, b) : Within(m, t[n]) /\ m \in Mappings
      BY <1>1, <2>3, PiecesWithin DEF Prot
    <3>7. \A m \in MapPieces(t[n], a, b) : Empty(m) \/ m.endp <= a \/ b <= m.startp
      <4>. DEFINE k == HeadOf(t[n], HeadPages(t[n], a))
                  l == RestOf(t[n], a, b)
      <4>1. PICK f \in Mappings : f = t[n] /\ a < f.endp /\ f.startp < b
        BY <1>1, <2>3 DEF Overlaps
      <4>2. HeadPages(t[n], a) # 0 => k.endp = a
        BY <4>1, HeadFacts, MappingFacts DEF Piece, Larger
      <4>3. Empty(l) \/ l.startp = b
        <5>1. Piece(l, f, Smaller(b, f.endp), f.endp, f.prot)
          BY <2>3, <4>1, RestFacts
        <5>. HIDE DEF l
        <5>. QED
          BY <4>1, <5>1, MappingFacts DEF Piece, Smaller, Empty
      <4>4. k \in Mappings /\ l \in Mappings
        BY <2>3, <4>1, HeadFacts, RestFacts DEF Piece
      <4>5. \A m \in MapPieces(t[n], a, b) : (m = k /\ HeadPages(t[n], a) # 0) \/ m = l
        BY DEF MapPieces, Pieces
      <4>. HIDE DEF k, l
      <4>. QED
        BY <4>2, <4>3, <4>4, <4>5, MappingFacts
    <3>. HIDE DEF t
    <3>5. Good(t)
      BY DEF t
    <3>6. /\ Progress(t, n, over[n].tree)
          /\ Range(over[n].tree) = {x \in Range(over[n - 1].tree) : x.startp # t[n].startp}
                                     \union MapPieces(t[n], a, b)
      BY <2>2, <3>3, <3>4, <3>5, RoundProgress
    <3>8. Vacant(t, n, a, b, over[n].tree)
      <4>1. SUFFICES ASSUME NEW x \in Range(over[n].tree), ~Empty(x), ~(x.endp <= a), ~(b <= x.startp)
                     PROVE  \E q \in 1 .. Len(t) : x = t[q] /\ n < q
        BY DEF Vacant
      <4>2. x \in Range(over[n - 1].tree) /\ x.startp # t[n].startp
        BY <3>6, <3>7, <4>1
      <4>3. PICK q \in 1 .. Len(t) : x = t[q] /\ n - 1 < q
        BY <2>2, <2>3, <4>1, <4>2 DEF Vacant
      <4>4. q # n
        BY <4>2, <4>3
      <4>5. n < q
        BY <1>1, <4>3, <4>4
      <4>. QED
        BY <4>3, <4>5
    <3>. QED
      BY <2>1, <3>6, <3>8
  <2>4. CASE Overlaps(t[n], a, b) /\ (over[n - 1].failed \/ t[n].untouchable)
    <3>1. over[n] = MapOver(over[n - 1], t[n], a, b)
      BY <2>4 DEF MapLoop
    <3>2. over[n].failed /\ over[n].tree = over[n - 1].tree
      BY <1>1, <2>1, <2>4, <3>1, MapRound
    <3>3. Progress(t, n, over[n].tree)
      BY <2>2, <3>2, ProgressSkip
    <3>. QED
      BY <2>1, <3>2, <3>3
  <2>5. CASE ~Overlaps(t[n], a, b)
    <3>1. over[n] = over[n - 1]
      BY <2>5 DEF MapLoop
    <3>2. Progress(t, n, over[n].tree)
      BY <2>2, <3>1, ProgressSkip
    <3>3. ASSUME ~over[n].failed PROVE Vacant(t, n, a, b, over[n].tree)
      <4>1. SUFFICES ASSUME NEW x \in Range(over[n].tree), ~Empty(x), ~(x.endp <= a), ~(b <= x.startp)
                     PROVE  \E q \in 1 .. Len(t) : x = t[q] /\ n < q
        BY DEF Vacant
      <4>2. PICK q \in 1 .. Len(t) : x = t[q] /\ n - 1 < q
        BY <2>2, <3>1, <3>3, <4>1 DEF Vacant
      <4>3. q # n
        BY <1>1, <2>5, <4>1, <4>2, MappingFacts DEF Overlaps
      <4>. QED
        BY <1>1, <4>2, <4>3
    <3>. QED
      BY <2>1, <3>2, <3>3
  <2>. QED
    BY <2>3, <2>4, <2>5
<1>4. \A n \in 0 .. Len(t) : n \in P
  <2>. HIDE DEF P, t
  <2>. QED
    BY <1>1, <1>2, <1>3, LoopInduction
<1>5. \A n \in 0 .. Len(t) : Right(n)
  <2>. HIDE DEF Right
  <2>. QED
    BY <1>4
<1>. QED
  BY <1>5

-----------------------------------------------------------------------------
(* What a call leaves is a state with mappings apart *)

LEMMA UnmapGood ==
  ASSUME NEW st \in States, Good(st.tree), NEW a \in Nat, NEW b \in Nat, a <= b
  PROVE  Unmap(st, a, b) \in States /\ Good(Unmap(st, a, b).tree)
<1>1. PICK over : UnmapLoop(st, a, b, over)
  BY UnmapDefined
<1>2. Len(st.tree) \in 0 .. Len(st.tree)
  BY MemberOf DEF Good
<1>3. Progress(st.tree, Len(st.tree), over[Len(st.tree)].tree)
  BY <1>1, <1>2, UnmapProgress
<1>. QED
  BY <1>1, <1>2, <1>3 DEF UnmapLoop, Progress

LEMMA ProtectGood ==
  ASSUME NEW st \in States, Good(st.tree), NEW a \in Nat, NEW b \in Nat, a <= b,
         NEW prot \in Prot
  PROVE  Protect(st, a, b, prot) \in States /\ Good(Protect(st, a, b, prot).tree)
<1>1. PICK over : ProtectLoop(st, a, b, prot, over)
  BY ProtectDefined
<1>2. Len(st.tree) \in 0 .. Len(st.tree)
  BY MemberOf DEF Good
<1>3. Progress(st.tree, Len(st.tree), over[Len(st.tree)].tree)
  BY <1>1, <1>2, ProtectProgress
<1>. QED
  BY <1>1, <1>2, <1>3 DEF ProtectLoop, Progress

LEMMA MapGood ==
  ASSUME NEW st \in States, Good(st.tree), NEW a \in Nat, NEW b \in Nat, a <= b,
         NEW new \in Mappings, new.startp = a, new.endp = b
  PROVE  Map(st, a, b, new) \in States /\ Good(Map(st, a, b, new).tree)
<1>1. PICK over : MapLoop(st, a, b, over)
  BY MapDefined
<1>2. Len(st.tree) \in Nat /\ Len(st.tree) \in 0 .. Len(st.tree)
  BY MemberOf DEF Good
<1>3. PICK done : done = over[Len(st.tree)]
  OBVIOUS
<1>4. /\ done \in States /\ Progress(st.tree, Len(st.tree), done.tree)
      /\ done.failed \/ Vacant(st.tree, Len(st.tree), a, b, done.tree)
  BY <1>1, <1>2, <1>3, MapProgress DEF MapLoop
<1>5. Map(st, a, b, new) = IF done.failed THEN done ELSE [done EXCEPT !.tree = Emplace(@, new)]
  BY <1>1, <1>3 DEF MapLoop
<1>6. CASE done.failed
  BY <1>4, <1>5, <1>6 DEF Progress
<1>7. CASE ~done.failed
  <2>1. Good(done.tree)
    BY <1>4 DEF Progress
  <2>2. ASSUME NEW x \in Range(done.tree) PROVE Empty(new) \/ Empty(x) \/ Apart(x, new)
    <3>1. Empty(x) \/ x.endp <= a \/ b <= x.startp
      BY <1>2, <1>4, <1>7, <2>2 DEF Vacant
    <3>. QED
      BY <3>1 DEF Apart
  <2>3. Good(Emplace(done.tree, new))
    BY <2>1, <2>2, EmplaceFacts
  <2>4. Emplace(done.tree, new) \in Seq(Mappings)
    BY <2>3 DEF Good
  <2>5. Map(st, a, b, new) = [done EXCEPT !.tree = Emplace(done.tree, new)]
    BY <1>5, <1>7
  <2>6. /\ Map(st, a, b, new) \in States
        /\ Map(st, a, b, new).tree = Emplace(done.tree, new)
    BY <1>4, <2>4, <2>5 DEF States
  <2>. QED
    BY <2>3, <2>6
<1>. QED
  BY <1>6, <1>7

-----------------------------------------------------------------------------
(* find_free_region() *)

Scans == [last : 0 .. NumPages, found : BOOLEAN]
ScanStep(s, m, n) ==
  IF s.found THEN s
  ELSE IF Gap(m.startp, s.last) >= n THEN [s EXCEPT !.found = TRUE]
  ELSE [s EXCEPT !.last = m.endp]

\* The states of the loop of find_free_region().
FreeLoop(t, n, seen) ==
  /\ seen[0] = [last |-> 0, found |-> FALSE]
  /\ \A i \in 1 .. Len(t) : seen[i] = ScanStep(seen[i - 1], t[i], n)
  /\ \A i \in 0 .. Len(t) : seen[i] \in Scans
  /\ FindFreeRegion(t, n) = seen[Len(t)].last

LEMMA FreeDefined ==
  ASSUME NEW t \in Seq(Mappings), NEW n \in Nat
  PROVE  \E seen : FreeLoop(t, n, seen)
<1>. DEFINE N == Len(t)
            first == [last |-> 0, found |-> FALSE]
            Body(f, i) == IF i = 0 THEN first ELSE ScanStep(f[i - 1], t[i], n)
            seen == CHOOSE f : f = [i \in 0 .. N |-> Body(f, i)]
            step == [i \in 1 .. N |-> [s \in Scans |-> ScanStep(s, t[i], n)]]
<1>1. N \in Nat /\ (\A i \in 1 .. N : t[i] \in Mappings) /\ first \in Scans
  BY MemberOf, Bounds DEF Scans
<1>2. ASSUME NEW i \in 1 .. N, NEW s \in Scans PROVE ScanStep(s, t[i], n) \in Scans
  <2>1. t[i].endp \in 0 .. NumPages
    BY <1>1 DEF Mappings
  <2>. QED
    BY <2>1 DEF ScanStep, Scans
<1>3. step \in [1 .. N -> [Scans -> Scans]]
  BY <1>2
<1>4. PICK g \in [0 .. N -> Scans] : Loop(N, first, step, g)
  <2>. HIDE DEF step, N, first
  <2>. QED
    BY <1>1, <1>3, LoopDefined
<1>5. \A i \in 0 .. N : g[i] = Body(g, i)
  <2>1. g[0] = first
    BY <1>4 DEF Loop
  <2>2. ASSUME NEW i \in 1 .. N PROVE g[i] = Body(g, i)
    <3>1. g[i] = step[i][g[i - 1]]
      BY <1>4 DEF Loop
    <3>2. g[i - 1] \in Scans
      BY <1>1
    <3>3. step[i][g[i - 1]] = ScanStep(g[i - 1], t[i], n)
      BY <3>2
    <3>. QED
      BY <1>1, <3>1, <3>3
  <2>. QED
    BY <1>1, <2>1, <2>2
<1>6. g = [i \in 0 .. N |-> Body(g, i)]
  <2>. HIDE DEF Body
  <2>. QED
    BY <1>5
<1>7. seen = [i \in 0 .. N |-> Body(seen, i)]
  <2>. HIDE DEF Body, N
  <2>. QED
    BY <1>6, Zenon
<1>8. FindFreeRegion(t, n) = seen[N].last
  BY DEF FindFreeRegion, ScanStep
<1>. HIDE DEF seen
<1>9. seen[0] = first
  <2>1. 0 \in 0 .. N
    BY <1>1
  <2>2. seen[0] = Body(seen, 0)
    <3>. HIDE DEF Body, N
    <3>. QED
      BY <1>7, <2>1, Zenon
  <2>. QED
    BY <2>2
<1>10. ASSUME NEW i \in 1 .. N PROVE seen[i] = ScanStep(seen[i - 1], t[i], n)
  <2>1. i \in 0 .. N /\ i # 0
    BY <1>1
  <2>2. seen[i] = Body(seen, i)
    <3>. HIDE DEF Body, N
    <3>. QED
      BY <1>7, <2>1, Zenon
  <2>. QED
    BY <2>1, <2>2
<1>11. \A i \in 0 .. N : seen[i] \in Scans
  <2>. DEFINE P == {i \in 0 .. N : seen[i] \in Scans}
  <2>1. 0 \in P
    BY <1>1, <1>9
  <2>2. ASSUME NEW i \in 1 .. N, i - 1 \in P PROVE i \in P
    <3>1. seen[i] \in Scans
      BY <1>2, <1>10, <2>2
    <3>. QED
      BY <1>1, <3>1
  <2>3. \A i \in 0 .. N : i \in P
    <3>. HIDE DEF P, N
    <3>. QED
      BY <1>1, <2>1, <2>2, LoopInduction
  <2>. QED
    BY <2>3
<1>12. FreeLoop(t, n, seen)
  BY <1>8, <1>9, <1>10, <1>11 DEF FreeLoop
<1>. QED
  BY <1>12

LEMMA FreeType ==
  ASSUME NEW t \in Seq(Mappings), NEW n \in Nat
  PROVE  FindFreeRegion(t, n) \in 0 .. NumPages
<1>1. PICK seen : FreeLoop(t, n, seen)
  BY FreeDefined
<1>2. Len(t) \in 0 .. Len(t)
  BY MemberOf
<1>. QED
  BY <1>1, <1>2 DEF FreeLoop, Scans

\* In a tree in which no mapping begins inside an earlier one the region is free: what was passed ends
\* before it, and the mapping at which the scan stops begins behind it.
LEMMA FreeIsFree ==
  ASSUME NEW t, Good(t), NEW n \in Nat,
         \A i, j \in 1 .. Len(t) : i < j => t[i].endp <= t[j].startp
  PROVE  \A m \in Range(t) : ~Overlaps(m, FindFreeRegion(t, n), FindFreeRegion(t, n) + n)
<1>1. /\ Len(t) \in Nat /\ t \in Seq(Mappings)
      /\ \A i \in 1 .. Len(t) : t[i] \in Mappings
  BY MemberOf DEF Good
<1>2. PICK seen : FreeLoop(t, n, seen)
  BY <1>1, FreeDefined
<1>3. \A i \in 1 .. Len(t) : /\ t[i].startp \in Nat /\ t[i].endp \in Nat
                             /\ t[i].startp <= t[i].endp /\ t[i].endp <= NumPages
  BY <1>1, MappingFacts
<1>4. \A i, j \in 1 .. Len(t) : i < j => t[i].endp <= t[j].startp
  OBVIOUS
<1>. DEFINE Open(i) == /\ \A j \in 1 .. Len(t) : j <= i => t[j].endp <= seen[i].last
                       /\ \A j \in 1 .. Len(t) : i < j => seen[i].last <= t[j].startp
            Free(i) == \A j \in 1 .. Len(t) :
                         t[j].endp <= seen[i].last \/ seen[i].last + n <= t[j].startp
            Right(i) == (~seen[i].found => Open(i)) /\ (seen[i].found => Free(i))
            P == {i \in 0 .. Len(t) : Right(i)}
<1>5. 0 \in P
  BY <1>1, <1>2, <1>3 DEF FreeLoop
<1>6. ASSUME NEW i \in 1 .. Len(t), i - 1 \in P PROVE i \in P
  <2>1. i \in 0 .. Len(t) /\ i - 1 \in 0 .. Len(t)
    BY <1>1
  <2>2. PICK s \in Scans : s = seen[i - 1] /\ seen[i] = ScanStep(s, t[i], n)
    BY <1>2, <2>1 DEF FreeLoop
  <2>3. s.last \in Nat
    BY <2>2, Bounds DEF Scans
  <2>4. CASE s.found
    <3>1. seen[i] = s
      BY <2>2, <2>4 DEF ScanStep
    <3>2. Right(i)
      BY <1>6, <2>2, <2>4, <3>1
    <3>. QED
      BY <2>1, <3>2
  <2>5. CASE ~s.found
    <3>0. Open(i - 1)
      BY <1>6, <2>2, <2>5
    <3>1. /\ \A j \in 1 .. Len(t) : j < i => t[j].endp <= s.last
          /\ \A j \in 1 .. Len(t) : i <= j => s.last <= t[j].startp
      BY <1>1, <2>2, <3>0
    <3>2. CASE Gap(t[i].startp, s.last) >= n
      <4>1. seen[i] = [s EXCEPT !.found = TRUE]
        BY <2>2, <2>5, <3>2 DEF ScanStep
      <4>2. seen[i].found /\ seen[i].last = s.last
        BY <4>1 DEF Scans
      <4>3. s.last + n <= t[i].startp
        BY <1>3, <2>3, <3>1, <3>2 DEF Gap
      <4>4. ASSUME NEW j \in 1 .. Len(t)
            PROVE  t[j].endp <= s.last \/ s.last + n <= t[j].startp
        <5>1. CASE j < i
          BY <3>1, <5>1
        <5>2. CASE i = j
          BY <4>3, <5>2
        <5>3. CASE i < j
          <6>1. t[i].endp <= t[j].startp
            BY <1>4, <5>3
          <6>. QED
            BY <1>3, <2>3, <4>3, <6>1
        <5>. QED
          BY <1>1, <5>1, <5>2, <5>3
      <4>5. Right(i)
        BY <4>2, <4>4
      <4>. QED
        BY <2>1, <4>5
    <3>3. CASE ~(Gap(t[i].startp, s.last) >= n)
      <4>1. seen[i] = [s EXCEPT !.last = t[i].endp]
        BY <2>2, <2>5, <3>3 DEF ScanStep
      <4>2. ~seen[i].found /\ seen[i].last = t[i].endp
        BY <2>5, <4>1 DEF Scans
      <4>3. ASSUME NEW j \in 1 .. Len(t), j <= i PROVE t[j].endp <= t[i].endp
        <5>1. CASE j = i
          BY <1>3, <5>1
        <5>2. CASE j < i
          <6>1. t[j].endp <= t[i].startp
            BY <1>4, <5>2
          <6>. QED
            BY <1>3, <6>1
        <5>. QED
          BY <1>1, <4>3, <5>1, <5>2
      <4>4. Right(i)
        BY <1>4, <4>2, <4>3
      <4>. QED
        BY <2>1, <4>4
    <3>. QED
      BY <3>2, <3>3
  <2>. QED
    BY <2>4, <2>5
<1>7. \A i \in 0 .. Len(t) : i \in P
  <2>. HIDE DEF P
  <2>. QED
    BY <1>1, <1>5, <1>6, LoopInduction
<1>8. Right(Len(t)) /\ Len(t) \in 0 .. Len(t)
  BY <1>1, <1>7
<1>9. PICK a \in Nat : a = FindFreeRegion(t, n) /\ a = seen[Len(t)].last
  BY <1>2, <1>8, Bounds DEF FreeLoop, Scans
<1>10. \A j \in 1 .. Len(t) : t[j].endp <= a \/ a + n <= t[j].startp
  BY <1>1, <1>8, <1>9
<1>11. ASSUME NEW m \in Range(t) PROVE ~Overlaps(m, a, a + n)
  <2>1. PICK j \in 1 .. Len(t) : m = t[j]
    BY <1>1, MemberOf
  <2>. QED
    BY <1>3, <1>10, <2>1 DEF Overlaps
<1>. QED
  BY <1>9, <1>11

-----------------------------------------------------------------------------
(* The invariant *)

VmInv == TypeOK /\ DisjointMappings

LEMMA GoodTree ==
  ASSUME tree \in Seq(Mappings)
  PROVE  DisjointMappings <=> Good(tree)
BY DEF DisjointMappings, Good, Ordered, Disjoint, Empty

LEMMA StateFacts ==
  ASSUME VmInv
  PROVE  State \in States /\ Good(State.tree) /\ State.tree = tree /\ State.pt = pt /\ ~State.failed
BY GoodTree DEF VmInv, TypeOK, State, States

LEMMA InitInv ==
  Init => VmInv
<1>1. SUFFICES ASSUME Init PROVE VmInv
  OBVIOUS
<1>2. Stack \in Mappings /\ Image \in Mappings
  BY Bounds DEF Stack, Image, Mappings, Objects
<1>3. Absent \in Entries
  BY DEF Absent, Entries, Frames
<1>4. tree = <<Stack>> \/ tree = <<Image, Stack>>
  BY <1>1 DEF Init
<1>5. tree \in Seq(Mappings) /\ DisjointMappings
  <2>1. CASE tree = <<Stack>>
    BY <1>2, <2>1 DEF DisjointMappings
  <2>2. CASE tree = <<Image, Stack>>
    <3>1. Image.startp <= Stack.startp /\ Image.endp <= Stack.startp
      BY Bounds DEF Image, Stack
    <3>. QED
      BY <1>2, <2>2, <3>1 DEF DisjointMappings
  <2>. QED
    BY <1>4, <2>1, <2>2
<1>. QED
  BY <1>1, <1>3, <1>5 DEF Init, VmInv, TypeOK

\* A call that leaves such a state keeps the invariant.
LEMMA CallInv ==
  ASSUME VmInv, NEW st \in States, Good(st.tree), tree' = st.tree, pt' = st.pt,
         tables' = tables,
         outcome' \in {"running", "exception", "protect panic", "copy-on-write hang",
                      "already mapped"}
  PROVE  VmInv'
<1>1. TypeOK'
  BY DEF VmInv, TypeOK, States
<1>2. PICK t : tree' = t /\ Good(t)
  OBVIOUS
<1>3. DisjointMappings'
  <2>1. \A i, j \in 1 .. Len(t) : i < j =>
          /\ t[i].startp <= t[j].startp
          /\ t[i].endp <= t[j].startp \/ t[j].startp = t[j].endp
    BY <1>2 DEF Good, Ordered, Disjoint, Empty
  <2>. QED
    BY <1>2, <2>1 DEF DisjointMappings
<1>. QED
  BY <1>1, <1>3 DEF VmInv

LEMMA VacatedGood ==
  ASSUME VmInv, NEW a \in Nat, NEW n \in Nat
  PROVE  Vacated(a, n) \in States /\ Good(Vacated(a, n).tree)
<1>1. State \in States /\ Good(State.tree)
  BY StateFacts
<1>2. a + n \in Nat /\ a <= a + n
  OBVIOUS
<1>3. Unmap(State, a, a + n) \in States /\ Good(Unmap(State, a, a + n).tree)
  BY <1>1, <1>2, UnmapGood
<1>. QED
  BY <1>1, <1>3 DEF Vacated

LEMMA MmapAtInv ==
  ASSUME VmInv, NEW a \in Nat, NEW n \in Nat, NEW o \in Objects, NEW off \in Nat,
         NEW prot \in Prot, NEW private \in BOOLEAN, NEW unt \in BOOLEAN,
         NEW first \in States, Good(first.tree),
         MmapAt(a, n, o, off, prot, private, unt, first)
  PROVE  VmInv'
<1>. DEFINE new == NewMapping(a, n, o, off, prot, private, unt)
            st == Map(first, a, a + n, new)
<1>1. a + n <= NumPages /\ a + n \in Nat /\ a <= a + n
  BY DEF MmapAt
<1>2. new \in Mappings /\ new.startp = a /\ new.endp = a + n
  BY <1>1, Bounds DEF NewMapping, Mappings, Prot
<1>3. st \in States /\ Good(st.tree)
  <2>. HIDE DEF new
  <2>. QED
    BY <1>1, <1>2, MapGood
<1>4. tree' = st.tree /\ pt' = st.pt /\ tables' = tables /\ outcome' = outcome
  BY DEF MmapAt
<1>. HIDE DEF st
<1>5. outcome \in {"running", "exception", "protect panic", "copy-on-write hang", "already mapped"}
  BY DEF VmInv, TypeOK
<1>. QED
  BY <1>3, <1>4, <1>5, CallInv

\* The first mapping that covers a page.
LEMMA FirstFacts ==
  ASSUME NEW t \in Seq(Mappings), NEW p, Covering(t, p) # {}
  PROVE  /\ FirstCovering(t, p) \in Mappings /\ Covers(FirstCovering(t, p), p)
         /\ FirstCovering(t, p) \in Range(t)
<1>. DEFINE T == {i \in 1 .. Len(t) : Covers(t[i], p)}
<1>1. T \subseteq Nat /\ T # {}
  <2>1. PICK m \in Range(t) : Covers(m, p)
    BY DEF Covering
  <2>2. PICK i \in 1 .. Len(t) : m = t[i]
    BY <2>1, MemberOf
  <2>. QED
    BY <2>1, <2>2
<1>2. \E x \in T : \A y \in T : x <= y
  <2>. HIDE DEF T
  <2>. QED
    BY <1>1, LeastNatural
<1>3. Min(T) \in T
  <2>. HIDE DEF T
  <2>. QED
    BY <1>2 DEF Min
<1>4. FirstCovering(t, p) = t[Min(T)]
  BY DEF FirstCovering
<1>. QED
  BY <1>3, <1>4, MemberOf

LEMMA FaultInv ==
  ASSUME VmInv, NEW p \in Pages, NEW access, NEW mode, Fault(p, access, mode)
  PROVE  VmInv'
<1>1. tree' = tree
  BY DEF Fault
<1>2. DisjointMappings'
  BY <1>1 DEF VmInv, DisjointMappings
<1>3. TypeOK'
  <2>. DEFINE m == FirstCovering(tree, p)
              entry == FaultEntry(m, p)
  <2>1. tree \in Seq(Mappings) /\ pt \in [Pages -> Entries]
        /\ tables \subseteq {TableOf(q) : q \in Pages} /\ outcome = "running"
    BY DEF VmInv, TypeOK, Fault
  <2>2. CASE UNCHANGED <<pt, tables>>
    <3>1. outcome' \in {"running", "exception", "protect panic", "copy-on-write hang",
                        "already mapped"}
      BY <2>1 DEF Fault
    <3>. QED
      BY <1>1, <2>1, <2>2, <3>1 DEF TypeOK
  <2>3. CASE ~UNCHANGED <<pt, tables>>
    <3>1. /\ Covering(tree, p) # {} /\ pt' = [pt EXCEPT ![p] = entry]
          /\ tables' = tables \union {TableOf(p)} /\ outcome' = outcome
      BY <2>3 DEF Fault
    <3>2. m \in Mappings /\ Covers(m, p)
      BY <2>1, <3>1, FirstFacts
    <3>. HIDE DEF m
    <3>3. m.offsetp + (p - m.startp) \in Nat /\ m.obj \in Objects /\ m.prot \in Prot
      <4>1. m.offsetp \in Nat /\ m.startp \in Nat /\ m.startp <= p /\ p \in Nat
        BY <3>2, MappingFacts, Bounds DEF Covers, Pages
      <4>2. m.obj \in Objects /\ m.prot \in Prot
        BY <3>2 DEF Mappings, Prot
      <4>. QED
        BY <4>1, <4>2
    <3>4. entry \in Entries
      <4>1. <<m.obj, m.offsetp + (p - m.startp)>> \in Frames
        BY <3>3 DEF Frames
      <4>. QED
        BY <3>3, <4>1 DEF FaultEntry, Entries, Prot
    <3>. HIDE DEF entry
    <3>5. pt' \in [Pages -> Entries]
      BY <2>1, <3>1, <3>4
    <3>6. tables' \subseteq {TableOf(q) : q \in Pages}
      BY <2>1, <3>1
    <3>. QED
      BY <1>1, <2>1, <3>1, <3>5, <3>6 DEF TypeOK
  <2>. QED
    BY <2>2, <2>3
<1>. QED
  BY <1>2, <1>3 DEF VmInv

LEMMA NextInv ==
  VmInv /\ [Next]_vars => VmInv'
<1>1. SUFFICES ASSUME VmInv, [Next]_vars PROVE VmInv'
  OBVIOUS
<1>. USE <1>1
<1>0. /\ Pages \subseteq Nat /\ Lengths \subseteq Nat /\ 0 .. MaxOffset \subseteq Nat
      /\ Prots \subseteq Prot
  BY Bounds DEF Pages, Prot
<1>s. State \in States /\ Good(State.tree)
  BY StateFacts
<1>2. ASSUME NEW n \in Lengths, NEW o \in Objects, NEW off \in 0 .. MaxOffset,
             NEW prot \in Prots, NEW priv \in BOOLEAN, NEW unt \in BOOLEAN,
             MmapAnywhere(n, o, off, prot, priv, unt)
      PROVE  VmInv'
  <2>1. PICK a : a = FindFreeRegion(tree, n)
    OBVIOUS
  <2>2. a \in Nat
    <3>1. tree \in Seq(Mappings) /\ n \in Nat
      BY <1>0 DEF VmInv, TypeOK
    <3>2. a \in 0 .. NumPages
      BY <2>1, <3>1, FreeType
    <3>. QED
      BY <3>2, Bounds
  <2>3. MmapAt(a, n, o, off, prot, priv, unt, State)
    BY <1>2, <2>1 DEF MmapAnywhere
  <2>4. n \in Nat /\ off \in Nat /\ prot \in Prot
    BY <1>0
  <2>. QED
    BY <1>s, <2>2, <2>3, <2>4, MmapAtInv
<1>3. ASSUME NEW n \in Lengths, NEW o \in Objects, NEW off \in 0 .. MaxOffset,
             NEW prot \in Prots, NEW priv \in BOOLEAN, NEW unt \in BOOLEAN, NEW a \in Pages,
             MmapFixed(a, n, o, off, prot, priv, unt)
      PROVE  VmInv'
  <2>1. a \in Nat /\ n \in Nat /\ off \in Nat /\ prot \in Prot
    BY <1>0
  <2>2. Vacated(a, n) \in States /\ Good(Vacated(a, n).tree)
    BY <2>1, VacatedGood
  <2>3. MmapAt(a, n, o, off, prot, priv, unt, Vacated(a, n))
    BY <1>3 DEF MmapFixed
  <2>. QED
    BY <2>1, <2>2, <2>3, MmapAtInv
<1>4. ASSUME NEW a \in Pages, NEW n \in Lengths, Munmap(a, n) PROVE VmInv'
  <2>1. a \in Nat /\ n \in Nat
    BY <1>0
  <2>2. a + n \in Nat /\ a <= a + n
    BY <2>1
  <2>3. PICK st : st = Unmap(State, a, a + n)
    OBVIOUS
  <2>4. st \in States /\ Good(st.tree)
    BY <1>s, <2>1, <2>2, <2>3, UnmapGood
  <2>5. tree' = st.tree /\ pt' = st.pt /\ tables' = tables /\ outcome' = "running"
    BY <1>4, <2>3 DEF Munmap, Running
  <2>. QED
    BY <2>4, <2>5, CallInv
<1>5. ASSUME NEW a \in Pages, NEW n \in Lengths, MmapFixedRefused(a, n) PROVE VmInv'
  <2>1. a \in Nat /\ n \in Nat
    BY <1>0
  <2>2. Vacated(a, n) \in States /\ Good(Vacated(a, n).tree)
    BY <2>1, VacatedGood
  <2>3. /\ tree' = Vacated(a, n).tree /\ pt' = Vacated(a, n).pt /\ tables' = tables
        /\ outcome' = "running"
    BY <1>5 DEF MmapFixedRefused, Running
  <2>. QED
    BY <2>2, <2>3, CallInv
<1>6. ASSUME NEW a \in Pages, NEW n \in Lengths, NEW prot \in Prots, Mprotect(a, n, prot)
      PROVE  VmInv'
  <2>1. a \in Nat /\ n \in Nat /\ prot \in Prot
    BY <1>0
  <2>2. a + n \in Nat /\ a <= a + n
    BY <2>1
  <2>3. PICK st : st = Protect(State, a, a + n, prot)
    OBVIOUS
  <2>4. st \in States /\ Good(st.tree)
    BY <1>s, <2>1, <2>2, <2>3, ProtectGood
  <2>5. /\ tree' = st.tree /\ pt' = st.pt /\ tables' = tables
        /\ outcome' = IF st.failed THEN "protect panic" ELSE "running"
    BY <1>6, <2>3 DEF Mprotect
  <2>6. outcome' \in {"running", "exception", "protect panic", "copy-on-write hang",
                      "already mapped"}
    BY <2>5
  <2>. QED
    BY <2>4, <2>5, <2>6, CallInv
<1>7. ASSUME NEW p \in Pages, NEW access \in {"read", "write"}, NEW mode \in {"user", "kernel"},
             Fault(p, access, mode)
      PROVE  VmInv'
  BY <1>7, FaultInv
<1>8. CASE UNCHANGED vars
  BY <1>8 DEF vars, VmInv, TypeOK, DisjointMappings
<1>. QED
  BY <1>2, <1>3, <1>4, <1>5, <1>6, <1>7, <1>8 DEF Next

(***************************************************************************)
(* However mmap(), munmap() and mprotect() split and replace mappings, on  *)
(* an address space of any size: the tree stays ordered, no page is        *)
(* covered by two mappings, and find_free_region() offers a free region as *)
(* long as no empty mapping lies inside another one.                       *)
(***************************************************************************)
THEOREM MappingsSoundInvariant ==
  Spec => []MappingsSound
<1>1. VmInv => MappingsSound
  <2>1. SUFFICES ASSUME VmInv PROVE FreeRegionFree
    BY DEF VmInv, MappingsSound
  <2>2. Good(tree)
    BY <2>1, GoodTree DEF VmInv, TypeOK
  <2>3. SUFFICES ASSUME ~Nested, NEW n \in Lengths \ {0}
                 PROVE  \A m \in Range(tree) :
                          ~Overlaps(m, FindFreeRegion(tree, n), FindFreeRegion(tree, n) + n)
    BY DEF FreeRegionFree
  <2>4. ASSUME NEW i \in 1 .. Len(tree), NEW j \in 1 .. Len(tree), i < j
        PROVE  tree[i].endp <= tree[j].startp
    <3>1. ~(tree[j].startp < tree[i].endp)
      BY <2>3, <2>4 DEF Nested
    <3>2. tree[i].endp \in Nat /\ tree[j].startp \in Nat
      BY <2>2, MemberOf, MappingFacts DEF Good
    <3>. QED
      BY <3>1, <3>2
  <2>5. n \in Nat
    BY Bounds
  <2>. QED
    BY <2>2, <2>4, <2>5, FreeIsFree
<1>. QED
  BY <1>1, InitInv, NextInv, PTL DEF Spec

-----------------------------------------------------------------------------
(* The pages *)

\* The mappings after a round that puts in the pieces P for e, and those of a set
\* that cover a page.
Swapped(u, e, P) == {x \in Range(u) : x.startp # e.startp} \union P
AtPage(P, p) == {m \in P : Covers(m, p)}

\* The mappings after a round, named.
Parts(P, e) == \A m \in P : Within(m, e) /\ m \in Mappings

LEMMA RoundSwaps ==
  ASSUME NEW t, Good(t), NEW n \in 1 .. Len(t), NEW u, NEW P, Parts(P, t[n]), NEW v,
         Progress(t, n - 1, u), RoundOf(u, t[n], P, v)
  PROVE  Range(v) = Swapped(u, t[n], P)
<1>1. \A m \in P : Within(m, t[n]) /\ m \in Mappings
  BY DEF Parts
<1>2. Range(v) = {x \in Range(u) : x.startp # t[n].startp} \union P
  BY <1>1, RoundProgress
<1>. QED
  BY <1>2 DEF Swapped

\* What a set of mappings that cover p says of the page.
View(m, p) ==
  [obj |-> m.obj, idx |-> m.offsetp + (p - m.startp), prot |-> m.prot, private |-> m.private]
Views(C, p) == {View(m, p) : m \in C}

LEMMA BackingViews ==
  ASSUME NEW t, NEW p
  PROVE  Backing(t, p) = Views(Covering(t, p), p)
BY DEF Backing, Views, View

\* A page is covered by one mapping at most.
LEMMA SingleCover ==
  ASSUME NEW t, Good(t), NEW q \in 1 .. Len(t), NEW p \in Nat, Covers(t[q], p)
  PROVE  Covering(t, p) = {t[q]}
<1>1. /\ t[q] \in Mappings /\ t[q] \in Range(t)
      /\ \A x \in Range(t) : x \in Mappings /\ \E i \in 1 .. Len(t) : x = t[i]
  BY MemberOf DEF Good
<1>2. ASSUME NEW x \in Range(t), Covers(x, p) PROVE x = t[q]
  <2>1. PICK i \in 1 .. Len(t) : x = t[i]
    BY <1>1
  <2>2. CASE i # q
    <3>1. Empty(x) \/ Empty(t[q]) \/ Apart(x, t[q])
      BY <2>1, <2>2, ApartFacts
    <3>. QED
      BY <1>1, <1>2, <3>1, MappingFacts DEF Empty, Apart, Covers
  <2>. QED
    BY <2>1, <2>2
<1>. QED
  BY <1>1, <1>2 DEF Covering

\* A round changes the pages of its mapping only; there its pieces cover.
LEMMA PageRound ==
  ASSUME NEW u, Good(u), NEW e \in Mappings, ~Empty(e), Fits(u, e),
         NEW P, \A m \in P : Within(m, e) /\ m \in Mappings,
         NEW v, Range(v) = Swapped(u, e, P),
         NEW p \in Nat
  PROVE  /\ ~Covers(e, p) => Covering(v, p) = Covering(u, p)
         /\ Covers(e, p) => Covering(v, p) = AtPage(P, p)
<1>1. \A x \in Range(u) : x \in Mappings
  BY MemberOf DEF Good
<1>2. ASSUME NEW x \in Range(u), Covers(x, p) PROVE x = e \/ Apart(x, e)
  <2>1. ~Empty(x)
    BY <1>1, <1>2, MappingFacts DEF Empty, Covers
  <2>. QED
    BY <2>1 DEF Fits
<1>3. CASE ~Covers(e, p)
  <2>1. ASSUME NEW x \in Range(u), Covers(x, p) PROVE x.startp # e.startp
    <3>1. Apart(x, e)
      BY <1>2, <1>3, <2>1
    <3>. QED
      BY <1>1, <2>1, <3>1, MappingFacts DEF Apart, Covers, Empty
  <2>2. ASSUME NEW m \in P PROVE ~Covers(m, p)
    BY <1>3, MappingFacts DEF Covers, Within
  <2>. QED
    BY <1>3, <2>1, <2>2 DEF Covering, Swapped
<1>4. CASE Covers(e, p)
  <2>1. ASSUME NEW x \in Range(u), Covers(x, p) PROVE x.startp = e.startp
    BY <1>1, <1>2, <1>4, <2>1, MappingFacts DEF Apart, Covers
  <2>. QED
    BY <1>4, <2>1 DEF Covering, Swapped, AtPage
<1>. QED
  BY <1>3, <1>4

\* What is behind page p, and its entry, after n rounds of a loop over t. D
\* are the mappings the loop works on, B and X what it makes of a page of them,
\* and the other pages keep what they had.
PageInv(t, D, B, X, n, u, old, table) ==
  \A p \in Pages :
    /\ Covering(t, p) = {} => Covering(u, p) = {} /\ table[p] = old[p]
    /\ \A q \in 1 .. Len(t) : Covers(t[q], p) =>
         IF q <= n /\ q \in D THEN Views(Covering(u, p), p) = B[q][p] /\ table[p] = X[q][p]
         ELSE Covering(u, p) = {t[q]} /\ table[p] = old[p]

LEMMA PageStart ==
  ASSUME NEW t, Good(t), NEW D, NEW B, NEW X, NEW old
  PROVE  PageInv(t, D, B, X, 0, t, old, old)
<1>1. Len(t) \in Nat /\ Pages \subseteq Nat
  BY MemberOf, Bounds DEF Good, Pages
<1>2. ASSUME NEW p \in Pages, NEW q \in 1 .. Len(t), Covers(t[q], p)
      PROVE  Covering(t, p) = {t[q]} /\ ~(q <= 0)
  BY <1>1, <1>2, SingleCover
<1>. QED
  BY <1>2 DEF PageInv

LEMMA PageSkip ==
  ASSUME NEW t, Good(t), NEW D, NEW B, NEW X, NEW n \in 1 .. Len(t), n \notin D,
         NEW u, NEW old, NEW table, PageInv(t, D, B, X, n - 1, u, old, table)
  PROVE  PageInv(t, D, B, X, n, u, old, table)
<1>1. Len(t) \in Nat
  BY MemberOf DEF Good
<1>2. ASSUME NEW q \in 1 .. Len(t) PROVE (q <= n /\ q \in D) <=> (q <= n - 1 /\ q \in D)
  BY <1>1
<1>. QED
  BY <1>2 DEF PageInv

\* A round that replaces t[n] by the pieces P leaves B[n] and X[n] on its pages
\* and touches no other.
PageEffect(t, n, P, B, X, u, v, table, after) ==
  /\ \A m \in P : Within(m, t[n]) /\ m \in Mappings
  /\ Range(v) = Swapped(u, t[n], P)
  /\ \A p \in Pages : ~Covers(t[n], p) => after[p] = table[p]
  /\ \A p \in Pages : Covers(t[n], p) =>
       Views(AtPage(P, p), p) = B[n][p] /\ after[p] = X[n][p]

LEMMA PageStep ==
  ASSUME NEW t, Good(t), NEW D, NEW B, NEW X, NEW n \in 1 .. Len(t), n \in D, ~Empty(t[n]),
         NEW k \in Nat, k = n - 1, NEW u, Progress(t, k, u), NEW old, NEW table,
         PageInv(t, D, B, X, k, u, old, table),
         NEW P, NEW v, NEW after, PageEffect(t, n, P, B, X, u, v, table, after)
  PROVE  PageInv(t, D, B, X, n, v, old, after)
<1>. USE DEF PageEffect
<1>1. /\ Len(t) \in Nat /\ Pages \subseteq Nat /\ t[n] \in Mappings /\ t[n] \in Range(t)
      /\ \A i \in 1 .. Len(t) : t[i] \in Range(t)
  BY MemberOf, Bounds DEF Good, Pages
<1>2. Fits(u, t[n]) /\ Good(u)
  BY ProgressFits DEF Progress
<1>3. ASSUME NEW p \in Pages
      PROVE  /\ ~Covers(t[n], p) => Covering(v, p) = Covering(u, p)
             /\ Covers(t[n], p) => Covering(v, p) = AtPage(P, p)
  <2>1. p \in Nat
    BY <1>1
  <2>2. PICK e \in Mappings : e = t[n]
    BY <1>1
  <2>3. /\ Good(u) /\ ~Empty(e) /\ Fits(u, e) /\ \A m \in P : Within(m, e) /\ m \in Mappings
        /\ Range(v) = Swapped(u, e, P)
    BY <1>2, <2>2
  <2>4. /\ ~Covers(e, p) => Covering(v, p) = Covering(u, p)
        /\ Covers(e, p) => Covering(v, p) = AtPage(P, p)
    BY <2>1, <2>3, PageRound
  <2>. QED
    BY <2>2, <2>4
<1>4. ASSUME NEW p \in Pages, Covers(t[n], p)
      PROVE  /\ Covering(t, p) # {}
             /\ \A q \in 1 .. Len(t) : Covers(t[q], p) => t[q] = t[n]
             /\ Views(Covering(v, p), p) = B[n][p] /\ after[p] = X[n][p]
  <2>1. Covering(t, p) = {t[n]}
    BY <1>1, <1>4, SingleCover
  <2>2. Views(Covering(v, p), p) = B[n][p] /\ after[p] = X[n][p]
    BY <1>3, <1>4
  <2>. QED
    BY <1>1, <2>1, <2>2 DEF Covering
<1>5. ASSUME NEW p \in Pages, NEW q \in 1 .. Len(t), Covers(t[q], p), Covers(t[n], p)
      PROVE  q = n
  <2>1. CASE q # n
    <3>1. Empty(t[q]) \/ Empty(t[n]) \/ Apart(t[q], t[n])
      BY <2>1, ApartFacts
    <3>2. t[q] \in Mappings /\ p \in Nat
      BY <1>1, MemberOf DEF Good
    <3>. QED
      BY <1>1, <1>5, <3>1, <3>2, MappingFacts DEF Empty, Apart, Covers
  <2>. QED
    BY <2>1
<1>6. SUFFICES ASSUME NEW p \in Pages
               PROVE  /\ Covering(t, p) = {} => Covering(v, p) = {} /\ after[p] = old[p]
                      /\ \A q \in 1 .. Len(t) : Covers(t[q], p) =>
                           IF q <= n /\ q \in D THEN Views(Covering(v, p), p) = B[q][p] /\ after[p] = X[q][p]
                           ELSE Covering(v, p) = {t[q]} /\ after[p] = old[p]
  BY DEF PageInv
<1>7. CASE Covers(t[n], p)
  <2>1. n <= n
    BY <1>1
  <2>. QED
    BY <1>4, <1>5, <1>7, <2>1
<1>8. CASE ~Covers(t[n], p)
  <2>1. Covering(v, p) = Covering(u, p) /\ after[p] = table[p]
    BY <1>3, <1>8
  <2>2. ASSUME NEW q \in 1 .. Len(t), Covers(t[q], p)
        PROVE  (q <= n /\ q \in D) <=> (q <= k /\ q \in D)
    <3>1. q # n
      BY <1>8, <2>2
    <3>. QED
      BY <1>1, <3>1
  <2>. QED
    BY <2>1, <2>2 DEF PageInv
<1>. QED
  BY <1>7, <1>8

\* Where the pieces of a mapping lie, and what they say of a page of it.
LEMMA HeadView ==
  ASSUME NEW e \in Mappings, NEW a \in Nat, a < e.endp, NEW p \in Nat, Covers(e, p)
  PROVE  /\ (HeadPages(e, a) # 0 /\ Covers(HeadOf(e, HeadPages(e, a)), p)) <=> p < a
         /\ View(HeadOf(e, HeadPages(e, a)), p) = View(e, p)
<1>1. PICK h \in Mappings :
        /\ h = HeadOf(e, HeadPages(e, a)) /\ h.startp = e.startp
        /\ h.endp = Larger(a, e.startp) /\ h.obj = e.obj /\ h.prot = e.prot
        /\ h.private = e.private /\ h.offsetp = e.offsetp
  BY HeadFacts DEF Piece
<1>2. HeadPages(e, a) # 0 <=> e.startp < a
  BY HeadFacts
<1>3. (HeadPages(e, a) # 0 /\ Covers(h, p)) <=> p < a
  BY <1>1, <1>2, MappingFacts DEF Covers, Larger
<1>. QED
  BY <1>1, <1>3 DEF View

LEMMA TailView ==
  ASSUME NEW e \in Mappings, NEW b \in Nat, e.startp < b, NEW p \in Nat, Covers(e, p)
  PROVE  /\ (TailPages(e, b) # 0 /\ Covers(TailOf(e, TailPages(e, b)), p)) <=> b <= p
         /\ View(TailOf(e, TailPages(e, b)), p) = View(e, p)
<1>1. PICK h \in Mappings :
        /\ h = TailOf(e, TailPages(e, b)) /\ h.startp = Smaller(b, e.endp)
        /\ h.endp = e.endp /\ h.obj = e.obj /\ h.prot = e.prot
        /\ h.private = e.private /\ h.offsetp = e.offsetp + (Smaller(b, e.endp) - e.startp)
  BY TailFacts DEF Piece
<1>2. TailPages(e, b) # 0 <=> b < e.endp
  BY TailFacts
<1>3. (TailPages(e, b) # 0 /\ Covers(h, p)) <=> b <= p
  BY <1>1, <1>2, MappingFacts DEF Covers, Smaller
<1>4. h.offsetp + (p - h.startp) = e.offsetp + (p - e.startp)
  BY <1>1, MappingFacts DEF Smaller
<1>. QED
  BY <1>1, <1>3, <1>4 DEF View

LEMMA MiddleView ==
  ASSUME NEW e \in Mappings, NEW a \in Nat, NEW b \in Nat, a <= b, Overlaps(e, a, b),
         NEW prot \in Prot, NEW p \in Nat, Covers(e, p)
  PROVE  /\ Covers(MiddleOf(e, a, b, prot), p) <=> a <= p /\ p < b
         /\ View(MiddleOf(e, a, b, prot), p) = [View(e, p) EXCEPT !.prot = prot]
<1>1. PICK h \in Mappings :
        /\ h = MiddleOf(e, a, b, prot) /\ h.startp = Larger(a, e.startp)
        /\ h.endp = Smaller(b, e.endp) /\ h.obj = e.obj /\ h.prot = prot
        /\ h.private = e.private /\ h.offsetp = e.offsetp + (Larger(a, e.startp) - e.startp)
  BY MiddleFacts DEF Piece, Prot
<1>2. Covers(h, p) <=> a <= p /\ p < b
  BY <1>1, MappingFacts DEF Covers, Smaller, Larger
<1>3. h.offsetp + (p - h.startp) = e.offsetp + (p - e.startp)
  BY <1>1, MappingFacts DEF Larger
<1>. QED
  BY <1>1, <1>2, <1>3 DEF View

LEMMA RestView ==
  ASSUME NEW e \in Mappings, NEW a \in Nat, NEW b \in Nat, a <= b, Overlaps(e, a, b),
         NEW p \in Nat, Covers(e, p)
  PROVE  /\ (~Covered(e, a, b) /\ Covers(RestOf(e, a, b), p)) <=> b <= p
         /\ View(RestOf(e, a, b), p).obj = e.obj /\ View(RestOf(e, a, b), p).prot = e.prot
         /\ e.startp <= a /\ b <= p => View(RestOf(e, a, b), p) = View(e, p)
<1>1. PICK h \in Mappings :
        /\ h = RestOf(e, a, b) /\ h.startp = Smaller(b, e.endp)
        /\ h.endp = e.endp /\ h.obj = e.obj /\ h.prot = e.prot
        /\ h.private = e.private /\ h.offsetp = e.offsetp + HeadPages(e, a) + (b - a)
  BY RestFacts DEF Piece
<1>2. (~Covered(e, a, b) /\ Covers(h, p)) <=> b <= p
  BY <1>1, MappingFacts DEF Covers, Covered, Smaller
<1>3. e.startp <= a /\ b <= p => h.offsetp + (p - h.startp) = e.offsetp + (p - e.startp)
  BY <1>1, MappingFacts DEF Smaller, HeadPages, Covers
<1>. QED
  BY <1>1, <1>2, <1>3 DEF View

\* What a round makes of a page of its mapping.
LEMMA PieceViews ==
  ASSUME NEW e \in Mappings, NEW a \in Nat, NEW b \in Nat, a <= b, Overlaps(e, a, b),
         NEW prot \in Prot, NEW p \in Nat, Covers(e, p)
  PROVE  /\ Views(AtPage(UnmapPieces(e, a, b), p), p) =
              IF a <= p /\ p < b THEN {} ELSE {View(e, p)}
         /\ Views(AtPage(ProtectPieces(e, a, b, prot), p), p) =
              IF a <= p /\ p < b THEN {[View(e, p) EXCEPT !.prot = prot]} ELSE {View(e, p)}
         /\ Views(AtPage(MapPieces(e, a, b), p), p) =
              IF a <= p /\ p < b THEN {}
              ELSE IF p < a THEN {View(e, p)} ELSE {View(RestOf(e, a, b), p)}
<1>1. a < e.endp /\ e.startp < b
  BY DEF Overlaps
<1>. DEFINE c1 == HeadPages(e, a) # 0
            m1 == HeadOf(e, HeadPages(e, a))
            c2 == TailPages(e, b) # 0
            m2 == TailOf(e, TailPages(e, b))
            m3 == MiddleOf(e, a, b, prot)
            c4 == ~Covered(e, a, b)
            m4 == RestOf(e, a, b)
<1>2. ((c1 /\ Covers(m1, p)) <=> p < a) /\ View(m1, p) = View(e, p)
  BY <1>1, HeadView
<1>3. ((c2 /\ Covers(m2, p)) <=> b <= p) /\ View(m2, p) = View(e, p)
  BY <1>1, TailView
<1>4. (Covers(m3, p) <=> a <= p /\ p < b) /\ View(m3, p) = [View(e, p) EXCEPT !.prot = prot]
  BY MiddleView
<1>5. (c4 /\ Covers(m4, p)) <=> b <= p
  BY RestView
<1>6. /\ UnmapPieces(e, a, b) = Pieces(c1, m1, c2, m2, FALSE, e)
      /\ ProtectPieces(e, a, b, prot) = Pieces(c1, m1, c2, m2, TRUE, m3)
      /\ MapPieces(e, a, b) = Pieces(c1, m1, c4, m4, FALSE, e)
  BY DEF UnmapPieces, ProtectPieces, MapPieces
<1>. HIDE DEF c1, c2, c4, m1, m2, m3, m4
<1>7. CASE p < a
  <2>1. ~(b <= p) /\ ~(a <= p)
    BY <1>7
  <2>2. /\ AtPage(UnmapPieces(e, a, b), p) = {m1}
        /\ AtPage(ProtectPieces(e, a, b, prot), p) = {m1}
        /\ AtPage(MapPieces(e, a, b), p) = {m1}
    BY <1>2, <1>3, <1>4, <1>5, <1>6, <1>7, <2>1 DEF AtPage, Pieces
  <2>3. Views({m1}, p) = {View(e, p)}
    BY <1>2 DEF Views
  <2>. QED
    BY <1>7, <2>1, <2>2, <2>3
<1>8. CASE b <= p
  <2>1. ~(p < a) /\ ~(p < b)
    BY <1>8
  <2>2. /\ AtPage(UnmapPieces(e, a, b), p) = {m2}
        /\ AtPage(ProtectPieces(e, a, b, prot), p) = {m2}
        /\ AtPage(MapPieces(e, a, b), p) = {m4}
    BY <1>2, <1>3, <1>4, <1>5, <1>6, <1>8, <2>1 DEF AtPage, Pieces
  <2>3. Views({m2}, p) = {View(e, p)} /\ Views({m4}, p) = {View(m4, p)}
    BY <1>3 DEF Views
  <2>. QED
    BY <1>8, <2>1, <2>2, <2>3 DEF m4
<1>9. CASE a <= p /\ p < b
  <2>1. ~(p < a) /\ ~(b <= p)
    BY <1>9
  <2>2. /\ AtPage(UnmapPieces(e, a, b), p) = {}
        /\ AtPage(ProtectPieces(e, a, b, prot), p) = {m3}
        /\ AtPage(MapPieces(e, a, b), p) = {}
    BY <1>2, <1>3, <1>4, <1>5, <1>6, <1>9, <2>1 DEF AtPage, Pieces
  <2>3. Views({m3}, p) = {[View(e, p) EXCEPT !.prot = prot]} /\ Views({}, p) = {}
    BY <1>4 DEF Views
  <2>. QED
    BY <1>9, <2>2, <2>3
<1>. QED
  BY <1>7, <1>8, <1>9

\* The part of a mapping in the range, page by page.
LEMMA RangeFacts ==
  ASSUME NEW e \in Mappings, NEW a \in Nat, NEW b \in Nat, NEW p \in Nat
  PROVE  /\ Covers(e, p) => (From(e, a) <= p /\ p < To(e, b) <=> a <= p /\ p < b)
         /\ ~Covers(e, p) => ~(From(e, a) <= p /\ p < To(e, b))
BY MappingFacts DEF Covers, From, To, Larger, Smaller

\* The mappings the loops work on, and what they make of their pages.
Hit(t, a, b) == {q \in 1 .. Len(t) : Affected(t[q], a, b)}
Met(t, a, b) == {q \in 1 .. Len(t) : Overlaps(t[q], a, b)}
Gone(t, a, b) ==
  [q \in 1 .. Len(t) |-> [p \in Pages |-> IF a <= p /\ p < b THEN {} ELSE {View(t[q], p)}]]
Moved(t, a, b) ==
  [q \in 1 .. Len(t) |-> [p \in Pages |->
     IF a <= p /\ p < b THEN {}
     ELSE IF p < a THEN {View(t[q], p)} ELSE {View(RestOf(t[q], a, b), p)}]]
Changed(t, a, b, prot) ==
  [q \in 1 .. Len(t) |-> [p \in Pages |->
     IF a <= p /\ p < b THEN {[View(t[q], p) EXCEPT !.prot = prot]} ELSE {View(t[q], p)}]]
Cleared(t, a, b, old) ==
  [q \in 1 .. Len(t) |-> [p \in Pages |-> IF a <= p /\ p < b THEN Absent ELSE old[p]]]
Entry(o, prot) == [frame |-> IF o.frame = Nothing THEN PageZero ELSE o.frame, prot |-> prot]
Reset(t, a, b, old, prot) ==
  [q \in 1 .. Len(t) |-> [p \in Pages |->
     IF a <= p /\ p < b THEN Entry(old[p], prot) ELSE old[p]]]

NoEmpty(t) == \A m \in Range(t) : ~Empty(m)

\* What is read of the invariant before the round of mapping n.
LEMMA PageToCome ==
  ASSUME NEW t, Good(t), NEW D, NEW B, NEW X, NEW n \in 1 .. Len(t), NEW k \in Nat, k = n - 1,
         NEW u, NEW old, NEW table, PageInv(t, D, B, X, k, u, old, table),
         NEW p \in Pages, Covers(t[n], p)
  PROVE  table[p] = old[p]
<1>1. ~(n <= k)
  BY MemberOf DEF Good
<1>. QED
  BY <1>1 DEF PageInv

LEMMA UnmapPages ==
  ASSUME NEW st \in States, Good(st.tree), NoEmpty(st.tree), NEW a \in Nat, NEW b \in Nat, a <= b,
         NEW over, UnmapLoop(st, a, b, over)
  PROVE  \A n \in 0 .. Len(st.tree) :
           /\ NoEmpty(over[n].tree)
           /\ PageInv(st.tree, Hit(st.tree, a, b), Gone(st.tree, a, b),
                      Cleared(st.tree, a, b, st.pt), n, over[n].tree, st.pt, over[n].pt)
<1>0. PICK t : t = st.tree
  OBVIOUS
<1>. DEFINE D == Hit(t, a, b)
            B == Gone(t, a, b)
            X == Cleared(t, a, b, st.pt)
            Right(n) == /\ NoEmpty(over[n].tree)
                        /\ PageInv(t, D, B, X, n, over[n].tree, st.pt, over[n].pt)
            P == {n \in 0 .. Len(t) : Right(n)}
<1>1. /\ Len(t) \in Nat /\ (\A n \in 1 .. Len(t) : t[n] \in Mappings /\ t[n] \in Range(t))
      /\ Good(t) /\ NoEmpty(t) /\ Pages \subseteq Nat
  BY <1>0, MemberOf, Bounds DEF Good, Pages
<1>2. 0 \in P
  <2>1. over[0] = st
    BY DEF UnmapLoop
  <2>2. PageInv(t, D, B, X, 0, t, st.pt, st.pt)
    <3>. HIDE DEF D, B, X
    <3>. QED
      BY <1>1, PageStart
  <2>. QED
    BY <1>0, <1>1, <2>1, <2>2
<1>3. ASSUME NEW n \in 1 .. Len(t), n - 1 \in P PROVE n \in P
  <2>1. n \in 0 .. Len(t) /\ n - 1 \in 0 .. Len(t) /\ over[n - 1] \in States
    BY <1>0, <1>1 DEF UnmapLoop
  <2>2. Right(n - 1)
    <3>. HIDE DEF Right
    <3>. QED
      BY <1>3
  <2>3. Progress(t, n - 1, over[n - 1].tree)
    BY <1>0, <1>1, <2>1, UnmapProgress
  <2>b. n - 1 \in Nat
    BY <1>1
  <2>a. /\ PageInv(t, D, B, X, n - 1, over[n - 1].tree, st.pt, over[n - 1].pt)
        /\ NoEmpty(over[n - 1].tree)
    <3>. HIDE DEF D, B, X
    <3>. QED
      BY <2>2
  <2>4. CASE Affected(t[n], a, b)
    <3>1. over[n] = UnmapOver(over[n - 1], t[n], a, b)
      BY <1>0, <2>4 DEF UnmapLoop
    <3>2. Overlaps(t[n], a, b) /\ n \in D /\ ~Empty(t[n])
      BY <1>1, <2>4 DEF Affected, NoEmpty, Hit
    <3>. DEFINE Q == UnmapPieces(t[n], a, b)
    <3>3. /\ RoundOf(over[n - 1].tree, t[n], Q, over[n].tree)
          /\ over[n].pt = Clear(over[n - 1].pt, From(t[n], a), To(t[n], b))
      BY <1>1, <2>1, <3>1, <3>2, UnmapRound
    <3>4. \A m \in Q : Within(m, t[n]) /\ m \in Mappings
      BY <1>1, <3>2, PiecesWithin DEF Prot
    <3>5. \A m \in Q : ~Empty(m)
      <4>1. PICK f \in Mappings : f = t[n] /\ a < f.endp /\ f.startp < b
        BY <1>1, <3>2 DEF Overlaps
      <4>. DEFINE k == HeadOf(f, HeadPages(f, a))
                  l == TailOf(f, TailPages(f, b))
      <4>2. /\ Piece(k, f, f.startp, Larger(a, f.startp), f.prot)
            /\ HeadPages(f, a) # 0 <=> f.startp < a
        BY <4>1, HeadFacts
      <4>3. /\ Piece(l, f, Smaller(b, f.endp), f.endp, f.prot)
            /\ TailPages(f, b) # 0 <=> b < f.endp
        BY <4>1, TailFacts
      <4>4. \A m \in Q : (m = k /\ HeadPages(f, a) # 0) \/ (m = l /\ TailPages(f, b) # 0)
        BY <4>1 DEF UnmapPieces, Pieces
      <4>. HIDE DEF k, l, Q
      <4>5. HeadPages(f, a) # 0 => ~Empty(k)
        BY <4>1, <4>2, MappingFacts DEF Piece, Larger, Empty
      <4>6. TailPages(f, b) # 0 => ~Empty(l)
        BY <4>1, <4>3, MappingFacts DEF Piece, Smaller, Empty
      <4>. QED
        BY <4>4, <4>5, <4>6
    <3>6. \A p \in Pages : ~Covers(t[n], p) => over[n].pt[p] = over[n - 1].pt[p]
      BY <1>1, <3>3, RangeFacts DEF Clear
    <3>7. ASSUME NEW p \in Pages, Covers(t[n], p)
          PROVE  Views(AtPage(Q, p), p) = B[n][p] /\ over[n].pt[p] = X[n][p]
      <4>1. over[n - 1].pt[p] = st.pt[p]
        <5>. HIDE DEF D, B, X
        <5>1. ~(n <= n - 1)
          BY <1>1
        <5>. QED
          BY <2>a, <3>7, <5>1 DEF PageInv
      <4>2. over[n].pt[p] = IF a <= p /\ p < b THEN Absent ELSE st.pt[p]
        BY <1>1, <3>3, <3>7, <4>1, RangeFacts DEF Clear
      <4>3. Views(AtPage(Q, p), p) = IF a <= p /\ p < b THEN {} ELSE {View(t[n], p)}
        <5>1. PICK f \in Mappings : f = t[n]
          BY <1>1
        <5>2. p \in Nat /\ Overlaps(f, a, b) /\ Covers(f, p) /\ "r" \in Prot
          BY <1>1, <3>2, <3>7, <5>1 DEF Prot
        <5>3. Views(AtPage(UnmapPieces(f, a, b), p), p) = IF a <= p /\ p < b THEN {} ELSE {View(f, p)}
          BY <5>2, PieceViews
        <5>. QED
          BY <5>1, <5>3
      <4>. QED
        BY <4>2, <4>3 DEF Gone, Cleared
    <3>. HIDE DEF Q, D, B, X
    <3>8. Range(over[n].tree) = Swapped(over[n - 1].tree, t[n], Q)
      <4>1. Good(t) /\ n \in 1 .. Len(t)
        BY <1>1
      <4>2. PICK u, v : u = over[n - 1].tree /\ v = over[n].tree
        OBVIOUS
      <4>3. Progress(t, n - 1, u) /\ RoundOf(u, t[n], Q, v)
        BY <2>3, <3>3, <4>2
      <4>4. Parts(Q, t[n])
        BY <3>4 DEF Parts
      <4>5. Range(v) = Swapped(u, t[n], Q)
        BY <4>1, <4>3, <4>4, RoundSwaps
      <4>. QED
        BY <4>2, <4>5
    <3>9. PageInv(t, D, B, X, n, over[n].tree, st.pt, over[n].pt)
      <4>1. /\ \A p \in Pages : ~Covers(t[n], p) => over[n].pt[p] = over[n - 1].pt[p]
            /\ \A p \in Pages : Covers(t[n], p) =>
                 Views(AtPage(Q, p), p) = B[n][p] /\ over[n].pt[p] = X[n][p]
        BY <3>6, <3>7
      <4>2. /\ Good(t) /\ n \in 1 .. Len(t) /\ n \in D /\ ~Empty(t[n])
            /\ Progress(t, n - 1, over[n - 1].tree)
            /\ PageInv(t, D, B, X, n - 1, over[n - 1].tree, st.pt, over[n - 1].pt)
            /\ \A m \in Q : Within(m, t[n]) /\ m \in Mappings
            /\ Range(over[n].tree) = Swapped(over[n - 1].tree, t[n], Q)
        BY <1>1, <2>a, <2>3, <3>2, <3>4, <3>8
      <4>3. PICK d, bb, x, k, u, v, old, w, z :
              /\ d = D /\ bb = B /\ x = X /\ k = n - 1 /\ u = over[n - 1].tree
              /\ v = over[n].tree /\ old = st.pt /\ w = over[n - 1].pt /\ z = over[n].pt
        OBVIOUS
      <4>4. /\ k \in Nat /\ k = n - 1
            /\ Good(t) /\ n \in 1 .. Len(t) /\ n \in d /\ ~Empty(t[n])
            /\ Progress(t, k, u) /\ PageInv(t, d, bb, x, k, u, old, w)
        BY <2>b, <4>2, <4>3
      <4>6. PageEffect(t, n, Q, bb, x, u, v, w, z)
        BY <4>1, <4>2, <4>3 DEF PageEffect
      <4>5. PageInv(t, d, bb, x, n, v, old, z)
        BY <4>4, <4>6, PageStep
      <4>. QED
        BY <4>3, <4>5
    <3>10. NoEmpty(over[n].tree)
      BY <2>a, <3>5, <3>8 DEF NoEmpty, Swapped
    <3>. QED
      BY <2>1, <3>9, <3>10
  <2>5. CASE ~Affected(t[n], a, b)
    <3>1. over[n] = over[n - 1]
      BY <1>0, <2>5 DEF UnmapLoop
    <3>2. n \notin D
      BY <2>5 DEF Hit
    <3>. HIDE DEF D, B, X
    <3>3. PageInv(t, D, B, X, n, over[n].tree, st.pt, over[n].pt)
      BY <1>1, <2>a, <3>1, <3>2, PageSkip
    <3>. QED
      BY <2>1, <2>2, <3>1, <3>3
  <2>. QED
    BY <2>4, <2>5
<1>4. \A n \in 0 .. Len(t) : n \in P
  <2>. HIDE DEF P
  <2>. QED
    BY <1>1, <1>2, <1>3, LoopInduction
<1>5. \A n \in 0 .. Len(t) : Right(n)
  <2>. HIDE DEF Right
  <2>. QED
    BY <1>4
<1>. QED
  BY <1>0, <1>5

\* The loop of protect(), until it panics on a page without a table.
LEMMA ProtectPages ==
  ASSUME NEW st \in States, Good(st.tree), NoEmpty(st.tree), NEW a \in Nat, NEW b \in Nat, a <= b,
         NEW prot \in Prot, NEW over, ProtectLoop(st, a, b, prot, over), ~st.failed
  PROVE  \A n \in 0 .. Len(st.tree) :
           IF over[n].failed
           THEN \E q \in Hit(st.tree, a, b), p \in Pages :
                  Covers(st.tree[q], p) /\ a <= p /\ p < b /\ TableOf(p) \notin tables
           ELSE PageInv(st.tree, Hit(st.tree, a, b), Changed(st.tree, a, b, prot),
                        Reset(st.tree, a, b, st.pt, prot), n, over[n].tree, st.pt, over[n].pt)
<1>0. PICK t : t = st.tree
  OBVIOUS
<1>. DEFINE D == Hit(t, a, b)
            B == Changed(t, a, b, prot)
            X == Reset(t, a, b, st.pt, prot)
            Stuck == \E q \in D, p \in Pages :
                       Covers(t[q], p) /\ a <= p /\ p < b /\ TableOf(p) \notin tables
            Right(n) == /\ over[n].failed => Stuck
                        /\ ~over[n].failed => PageInv(t, D, B, X, n, over[n].tree, st.pt, over[n].pt)
            P == {n \in 0 .. Len(t) : Right(n)}
<1>1. /\ Len(t) \in Nat /\ (\A n \in 1 .. Len(t) : t[n] \in Mappings /\ t[n] \in Range(t))
      /\ Good(t) /\ NoEmpty(t) /\ Pages \subseteq Nat
  BY <1>0, MemberOf, Bounds DEF Good, Pages
<1>2. 0 \in P
  <2>1. over[0] = st
    BY DEF ProtectLoop
  <2>2. PageInv(t, D, B, X, 0, t, st.pt, st.pt)
    <3>. HIDE DEF D, B, X
    <3>. QED
      BY <1>1, PageStart
  <2>. HIDE DEF D, B, X, Stuck
  <2>. QED
    BY <1>0, <1>1, <2>1, <2>2
<1>3. ASSUME NEW n \in 1 .. Len(t), n - 1 \in P PROVE n \in P
  <2>1. n \in 0 .. Len(t) /\ n - 1 \in 0 .. Len(t) /\ over[n - 1] \in States /\ n - 1 \in Nat
    BY <1>0, <1>1 DEF ProtectLoop
  <2>2. Right(n - 1)
    <3>. HIDE DEF Right
    <3>. QED
      BY <1>3
  <2>3. Progress(t, n - 1, over[n - 1].tree)
    BY <1>0, <1>1, <2>1, ProtectProgress
  <2>a. /\ over[n - 1].failed => Stuck
        /\ ~over[n - 1].failed =>
             PageInv(t, D, B, X, n - 1, over[n - 1].tree, st.pt, over[n - 1].pt)
    <3>. HIDE DEF D, B, X, Stuck
    <3>. QED
      BY <2>2
  <2>4. CASE Affected(t[n], a, b) /\ ~over[n - 1].failed
    <3>1. over[n] = ProtectOver(over[n - 1], t[n], a, b, prot)
      BY <1>0, <2>4 DEF ProtectLoop
    <3>2. Overlaps(t[n], a, b) /\ n \in D /\ ~Empty(t[n])
      BY <1>1, <2>4 DEF Affected, NoEmpty, Hit
    <3>. DEFINE Q == ProtectPieces(t[n], a, b, prot)
    <3>3. /\ RoundOf(over[n - 1].tree, t[n], Q, over[n].tree)
          /\ over[n].pt = ProtectPt(over[n - 1].pt, From(t[n], a), To(t[n], b), prot)
          /\ over[n].failed <=> \E p \in Pages :
               From(t[n], a) <= p /\ p < To(t[n], b) /\ TableOf(p) \notin tables
      BY <1>1, <2>1, <2>4, <3>1, <3>2, ProtectRound
    <3>r. RoundOf(over[n - 1].tree, t[n], Q, over[n].tree)
      BY <3>3
    <3>4. \A m \in Q : Within(m, t[n]) /\ m \in Mappings
      BY <1>1, <3>2, PiecesWithin
    <3>5. ASSUME over[n].failed PROVE Stuck
      <4>1. PICK p \in Pages : From(t[n], a) <= p /\ p < To(t[n], b) /\ TableOf(p) \notin tables
        BY <3>3, <3>5
      <4>2. Covers(t[n], p) /\ a <= p /\ p < b
        BY <1>1, <4>1, RangeFacts
      <4>. HIDE DEF D
      <4>. QED
        BY <3>2, <4>1, <4>2
    <3>6. \A p \in Pages : ~Covers(t[n], p) => over[n].pt[p] = over[n - 1].pt[p]
      BY <1>1, <3>3, RangeFacts DEF ProtectPt
    <3>7. ASSUME NEW p \in Pages, Covers(t[n], p)
          PROVE  Views(AtPage(Q, p), p) = B[n][p] /\ over[n].pt[p] = X[n][p]
      <4>1. over[n - 1].pt[p] = st.pt[p]
        <5>. HIDE DEF D, B, X
        <5>1. ~(n <= n - 1)
          BY <1>1
        <5>. QED
          BY <2>a, <2>4, <3>7, <5>1 DEF PageInv
      <4>2. over[n].pt[p] = IF a <= p /\ p < b THEN Entry(st.pt[p], prot) ELSE st.pt[p]
        BY <1>1, <3>3, <3>7, <4>1, RangeFacts DEF ProtectPt, Entry
      <4>3. Views(AtPage(Q, p), p) =
              IF a <= p /\ p < b THEN {[View(t[n], p) EXCEPT !.prot = prot]} ELSE {View(t[n], p)}
        <5>1. PICK f \in Mappings : f = t[n]
          BY <1>1
        <5>2. p \in Nat /\ Overlaps(f, a, b) /\ Covers(f, p)
          BY <1>1, <3>2, <3>7, <5>1
        <5>3. Views(AtPage(ProtectPieces(f, a, b, prot), p), p) =
                IF a <= p /\ p < b THEN {[View(f, p) EXCEPT !.prot = prot]} ELSE {View(f, p)}
          BY <5>2, PieceViews
        <5>. QED
          BY <5>1, <5>3
      <4>. QED
        BY <4>2, <4>3 DEF Changed, Reset
    <3>. HIDE DEF Q, D, B, X, Stuck
    <3>8. Range(over[n].tree) = Swapped(over[n - 1].tree, t[n], Q)
      <4>1. Good(t) /\ n \in 1 .. Len(t)
        BY <1>1
      <4>2. PICK u, v : u = over[n - 1].tree /\ v = over[n].tree
        OBVIOUS
      <4>3. Progress(t, n - 1, u) /\ RoundOf(u, t[n], Q, v)
        BY <2>3, <3>r, <4>2
      <4>4. Parts(Q, t[n])
        BY <3>4 DEF Parts
      <4>5. Range(v) = Swapped(u, t[n], Q)
        BY <4>1, <4>3, <4>4, RoundSwaps
      <4>. QED
        BY <4>2, <4>5
    <3>9. PageInv(t, D, B, X, n, over[n].tree, st.pt, over[n].pt)
      <4>3. PICK d, bb, x, k, u, v, old, w, z :
              /\ d = D /\ bb = B /\ x = X /\ k = n - 1 /\ u = over[n - 1].tree
              /\ v = over[n].tree /\ old = st.pt /\ w = over[n - 1].pt /\ z = over[n].pt
        OBVIOUS
      <4>4. /\ k \in Nat /\ k = n - 1
            /\ Good(t) /\ n \in 1 .. Len(t) /\ n \in d /\ ~Empty(t[n])
            /\ Progress(t, k, u) /\ PageInv(t, d, bb, x, k, u, old, w)
        BY <1>1, <2>1, <2>a, <2>3, <2>4, <3>2, <4>3
      <4>6. PageEffect(t, n, Q, bb, x, u, v, w, z)
        BY <3>4, <3>6, <3>7, <3>8, <4>3 DEF PageEffect
      <4>5. PageInv(t, d, bb, x, n, v, old, z)
        BY <4>4, <4>6, PageStep
      <4>. QED
        BY <4>3, <4>5
    <3>. QED
      BY <2>1, <3>5, <3>9
  <2>5. CASE ~Affected(t[n], a, b) \/ over[n - 1].failed
    <3>1. over[n] = over[n - 1]
      <4>1. CASE ~Affected(t[n], a, b)
        BY <1>0, <4>1 DEF ProtectLoop
      <4>2. CASE Affected(t[n], a, b)
        <5>1. over[n] = ProtectOver(over[n - 1], t[n], a, b, prot) /\ Overlaps(t[n], a, b)
          BY <1>0, <4>2 DEF ProtectLoop, Affected
        <5>. QED
          BY <1>1, <2>1, <2>5, <4>2, <5>1, ProtectRound
      <4>. QED
        BY <4>1, <4>2
    <3>2. ~over[n - 1].failed => n \notin D
      BY <2>5 DEF Hit
    <3>. HIDE DEF D, B, X, Stuck
    <3>3. ~over[n].failed => PageInv(t, D, B, X, n, over[n].tree, st.pt, over[n].pt)
      BY <1>1, <2>a, <3>1, <3>2, PageSkip
    <3>. QED
      BY <2>1, <2>a, <3>1, <3>3
  <2>. QED
    BY <2>4, <2>5
<1>4. \A n \in 0 .. Len(t) : n \in P
  <2>. HIDE DEF P
  <2>. QED
    BY <1>1, <1>2, <1>3, LoopInduction
<1>5. \A n \in 0 .. Len(t) : Right(n)
  <2>. HIDE DEF Right
  <2>. QED
    BY <1>4
<1>. QED
  BY <1>0, <1>5

\* The loop of map(), which stops at the mapping it may not touch.
LEMMA MapPages ==
  ASSUME NEW st \in States, Good(st.tree), NoEmpty(st.tree), NEW a \in Nat, NEW b \in Nat, a <= b,
         NEW over, MapLoop(st, a, b, over)
  PROVE  \A n \in 0 .. Len(st.tree) : \E k \in 0 .. n :
           /\ ~over[n].failed => k = n
           /\ PageInv(st.tree, Met(st.tree, a, b), Moved(st.tree, a, b),
                      Cleared(st.tree, a, b, st.pt), k, over[n].tree, st.pt, over[n].pt)
<1>0. PICK t : t = st.tree
  OBVIOUS
<1>. DEFINE D == Met(t, a, b)
            B == Moved(t, a, b)
            X == Cleared(t, a, b, st.pt)
            Upto(k, n) == PageInv(t, D, B, X, k, over[n].tree, st.pt, over[n].pt)
            Right(n) == \E k \in 0 .. n : (~over[n].failed => k = n) /\ Upto(k, n)
            P == {n \in 0 .. Len(t) : Right(n)}
<1>1. /\ Len(t) \in Nat /\ (\A n \in 1 .. Len(t) : t[n] \in Mappings /\ t[n] \in Range(t))
      /\ Good(t) /\ NoEmpty(t) /\ Pages \subseteq Nat
  BY <1>0, MemberOf, Bounds DEF Good, Pages
<1>2. 0 \in P
  <2>1. over[0] = st
    BY DEF MapLoop
  <2>2. PageInv(t, D, B, X, 0, t, st.pt, st.pt)
    <3>. HIDE DEF D, B, X
    <3>. QED
      BY <1>1, PageStart
  <2>. HIDE DEF D, B, X
  <2>3. Upto(0, 0)
    BY <1>0, <2>1, <2>2
  <2>. HIDE DEF Upto
  <2>. QED
    BY <1>1, <2>3
<1>3. ASSUME NEW n \in 1 .. Len(t), n - 1 \in P PROVE n \in P
  <2>1. n \in 0 .. Len(t) /\ n - 1 \in 0 .. Len(t) /\ over[n - 1] \in States /\ n - 1 \in Nat
    BY <1>0, <1>1 DEF MapLoop
  <2>2. Right(n - 1)
    <3>. HIDE DEF Right
    <3>. QED
      BY <1>3
  <2>3. Progress(t, n - 1, over[n - 1].tree)
    BY <1>0, <1>1, <2>1, MapProgress
  <2>b. PICK k \in 0 .. n - 1 : (~over[n - 1].failed => k = n - 1) /\ Upto(k, n - 1)
    <3>. HIDE DEF Upto
    <3>. QED
      BY <2>2
  <2>4. CASE Overlaps(t[n], a, b) /\ ~over[n - 1].failed /\ ~t[n].untouchable
    <3>1. over[n] = MapOver(over[n - 1], t[n], a, b)
      BY <1>0, <2>4 DEF MapLoop
    <3>2. n \in D /\ ~Empty(t[n])
      BY <1>1, <2>4 DEF NoEmpty, Met
    <3>a. k = n - 1 /\ PageInv(t, D, B, X, n - 1, over[n - 1].tree, st.pt, over[n - 1].pt)
      <4>. HIDE DEF D, B, X
      <4>. QED
        BY <2>b, <2>4
    <3>. DEFINE Q == MapPieces(t[n], a, b)
    <3>3. /\ RoundOf(over[n - 1].tree, t[n], Q, over[n].tree)
          /\ over[n].pt = Clear(over[n - 1].pt, From(t[n], a), To(t[n], b))
      BY <1>1, <2>1, <2>4, <3>1, MapRound
    <3>4. \A m \in Q : Within(m, t[n]) /\ m \in Mappings
      BY <1>1, <2>4, PiecesWithin DEF Prot
    <3>6. \A p \in Pages : ~Covers(t[n], p) => over[n].pt[p] = over[n - 1].pt[p]
      BY <1>1, <3>3, RangeFacts DEF Clear
    <3>7. ASSUME NEW p \in Pages, Covers(t[n], p)
          PROVE  Views(AtPage(Q, p), p) = B[n][p] /\ over[n].pt[p] = X[n][p]
      <4>1. over[n - 1].pt[p] = st.pt[p]
        <5>. HIDE DEF D, B, X
        <5>1. ~(n <= n - 1)
          BY <1>1
        <5>. QED
          BY <3>a, <3>7, <5>1 DEF PageInv
      <4>2. over[n].pt[p] = IF a <= p /\ p < b THEN Absent ELSE st.pt[p]
        BY <1>1, <3>3, <3>7, <4>1, RangeFacts DEF Clear
      <4>3. Views(AtPage(Q, p), p) =
              IF a <= p /\ p < b THEN {}
              ELSE IF p < a THEN {View(t[n], p)} ELSE {View(RestOf(t[n], a, b), p)}
        <5>1. PICK f \in Mappings : f = t[n]
          BY <1>1
        <5>2. p \in Nat /\ Overlaps(f, a, b) /\ Covers(f, p) /\ "r" \in Prot
          BY <1>1, <2>4, <3>7, <5>1 DEF Prot
        <5>3. Views(AtPage(MapPieces(f, a, b), p), p) =
                IF a <= p /\ p < b THEN {}
                ELSE IF p < a THEN {View(f, p)} ELSE {View(RestOf(f, a, b), p)}
          BY <5>2, PieceViews
        <5>. QED
          BY <5>1, <5>3
      <4>. QED
        BY <4>2, <4>3 DEF Moved, Cleared
    <3>. HIDE DEF Q, D, B, X
    <3>8. Range(over[n].tree) = Swapped(over[n - 1].tree, t[n], Q)
      <4>1. Good(t) /\ n \in 1 .. Len(t)
        BY <1>1
      <4>2. PICK u, v : u = over[n - 1].tree /\ v = over[n].tree
        OBVIOUS
      <4>3. Progress(t, n - 1, u) /\ RoundOf(u, t[n], Q, v)
        BY <2>3, <3>3, <4>2
      <4>4. Parts(Q, t[n])
        BY <3>4 DEF Parts
      <4>5. Range(v) = Swapped(u, t[n], Q)
        BY <4>1, <4>3, <4>4, RoundSwaps
      <4>. QED
        BY <4>2, <4>5
    <3>9. PageInv(t, D, B, X, n, over[n].tree, st.pt, over[n].pt)
      <4>3. PICK d, bb, x, u, v, old, w, z :
              /\ d = D /\ bb = B /\ x = X /\ u = over[n - 1].tree
              /\ v = over[n].tree /\ old = st.pt /\ w = over[n - 1].pt /\ z = over[n].pt
        OBVIOUS
      <4>4. /\ k \in Nat /\ k = n - 1
            /\ Good(t) /\ n \in 1 .. Len(t) /\ n \in d /\ ~Empty(t[n])
            /\ Progress(t, k, u) /\ PageInv(t, d, bb, x, k, u, old, w)
        BY <1>1, <2>1, <3>a, <2>3, <2>4, <3>2, <4>3
      <4>6. PageEffect(t, n, Q, bb, x, u, v, w, z)
        BY <3>4, <3>6, <3>7, <3>8, <4>3 DEF PageEffect
      <4>5. PageInv(t, d, bb, x, n, v, old, z)
        BY <4>4, <4>6, PageStep
      <4>. QED
        BY <4>3, <4>5
    <3>10. Upto(n, n) /\ n \in 0 .. n
      BY <2>1, <3>9
    <3>. HIDE DEF Upto
    <3>. QED
      BY <2>1, <3>10
  <2>5. CASE Overlaps(t[n], a, b) /\ (over[n - 1].failed \/ t[n].untouchable)
    <3>1. over[n] = MapOver(over[n - 1], t[n], a, b)
      BY <1>0, <2>5 DEF MapLoop
    <3>2. /\ over[n].failed /\ over[n].tree = over[n - 1].tree /\ over[n].pt = over[n - 1].pt
          /\ k \in 0 .. n
      BY <1>1, <2>1, <2>5, <3>1, MapRound
    <3>3. Upto(k, n)
      <4>. HIDE DEF D, B, X
      <4>. QED
        BY <2>b, <3>2
    <3>. HIDE DEF Upto
    <3>. QED
      BY <2>1, <3>2, <3>3
  <2>6. CASE ~Overlaps(t[n], a, b)
    <3>1. over[n] = over[n - 1]
      BY <1>0, <2>6 DEF MapLoop
    <3>2. n \notin D /\ k \in 0 .. n /\ n \in 0 .. n
      BY <1>1, <2>6 DEF Met
    <3>. HIDE DEF D, B, X
    <3>3. Upto(k, n)
      BY <2>b, <3>1
    <3>4. k = n - 1 => Upto(n, n)
      BY <1>1, <3>1, <3>2, <3>3, PageSkip
    <3>. HIDE DEF Upto
    <3>5. CASE over[n].failed
      BY <2>1, <3>2, <3>3, <3>5
    <3>6. CASE ~over[n].failed
      <4>1. Upto(n, n)
        BY <2>b, <3>1, <3>4, <3>6
      <4>. QED
        BY <2>1, <3>2, <4>1
    <3>. QED
      BY <3>5, <3>6
  <2>. QED
    BY <2>4, <2>5, <2>6
<1>4. \A n \in 0 .. Len(t) : n \in P
  <2>. HIDE DEF P
  <2>. QED
    BY <1>1, <1>2, <1>3, LoopInduction
<1>5. \A n \in 0 .. Len(t) : Right(n)
  <2>. HIDE DEF Right
  <2>. QED
    BY <1>4
<1>. QED
  BY <1>0, <1>5

\* What the calls have done to the pages when they return.
LEMMA UnmapEnd ==
  ASSUME NEW st \in States, Good(st.tree), NoEmpty(st.tree), NEW a \in Nat, NEW b \in Nat, a <= b
  PROVE  /\ NoEmpty(Unmap(st, a, b).tree)
         /\ PageInv(st.tree, Hit(st.tree, a, b), Gone(st.tree, a, b), Cleared(st.tree, a, b, st.pt),
                    Len(st.tree), Unmap(st, a, b).tree, st.pt, Unmap(st, a, b).pt)
<1>1. PICK over : UnmapLoop(st, a, b, over)
  BY UnmapDefined
<1>2. Len(st.tree) \in Nat /\ Len(st.tree) \in 0 .. Len(st.tree)
  BY MemberOf DEF Good
<1>3. Unmap(st, a, b) = over[Len(st.tree)]
  BY <1>1 DEF UnmapLoop
<1>. QED
  BY <1>1, <1>2, <1>3, UnmapPages

LEMMA ProtectEnd ==
  ASSUME NEW st \in States, Good(st.tree), NoEmpty(st.tree), ~st.failed,
         NEW a \in Nat, NEW b \in Nat, a <= b, NEW prot \in Prot
  PROVE  IF Protect(st, a, b, prot).failed
         THEN \E q \in Hit(st.tree, a, b), p \in Pages :
                Covers(st.tree[q], p) /\ a <= p /\ p < b /\ TableOf(p) \notin tables
         ELSE PageInv(st.tree, Hit(st.tree, a, b), Changed(st.tree, a, b, prot),
                      Reset(st.tree, a, b, st.pt, prot), Len(st.tree),
                      Protect(st, a, b, prot).tree, st.pt, Protect(st, a, b, prot).pt)
<1>1. PICK over : ProtectLoop(st, a, b, prot, over)
  BY ProtectDefined
<1>2. Len(st.tree) \in Nat /\ Len(st.tree) \in 0 .. Len(st.tree)
  BY MemberOf DEF Good
<1>3. Protect(st, a, b, prot) = over[Len(st.tree)]
  BY <1>1 DEF ProtectLoop
<1>. QED
  BY <1>1, <1>2, <1>3, ProtectPages

\* What map() leaves, s, of t and old: u is the tree before the new mapping is
\* put in, and nothing of it covers the range unless map() gave up.
MapOutcome(t, a, b, old, new, s) ==
  \E u : \E k \in 0 .. Len(t) :
    /\ PageInv(t, Met(t, a, b), Moved(t, a, b), Cleared(t, a, b, old), k, u, old, s.pt)
    /\ s.failed => s.tree = u
    /\ ~s.failed =>
         /\ k = Len(t)
         /\ \A p \in Pages :
              Covering(s.tree, p) = IF Covers(new, p) THEN {new} ELSE Covering(u, p)

LEMMA MapEnd ==
  ASSUME NEW st \in States, Good(st.tree), NoEmpty(st.tree), NEW a \in Nat, NEW b \in Nat, a <= b,
         NEW new \in Mappings, new.startp = a, new.endp = b
  PROVE  MapOutcome(st.tree, a, b, st.pt, new, Map(st, a, b, new))
<1>. USE DEF MapOutcome
<1>1. PICK over : MapLoop(st, a, b, over)
  BY MapDefined
<1>2. Len(st.tree) \in Nat /\ Len(st.tree) \in 0 .. Len(st.tree) /\ Pages \subseteq Nat
  BY MemberOf, Bounds DEF Good, Pages
<1>3. PICK done : done = over[Len(st.tree)]
  OBVIOUS
<1>4. /\ done \in States /\ Progress(st.tree, Len(st.tree), done.tree)
      /\ done.failed \/ Vacant(st.tree, Len(st.tree), a, b, done.tree)
  BY <1>1, <1>2, <1>3, MapProgress DEF MapLoop
<1>5. Map(st, a, b, new) = IF done.failed THEN done ELSE [done EXCEPT !.tree = Emplace(@, new)]
  BY <1>1, <1>3 DEF MapLoop
<1>6. PICK k \in 0 .. Len(st.tree) :
        /\ ~done.failed => k = Len(st.tree)
        /\ PageInv(st.tree, Met(st.tree, a, b), Moved(st.tree, a, b),
                   Cleared(st.tree, a, b, st.pt), k, done.tree, st.pt, done.pt)
  BY <1>1, <1>2, <1>3, MapPages
<1>7. CASE done.failed
  <2>1. Map(st, a, b, new) = done
    BY <1>5, <1>7
  <2>. QED
    BY <1>6, <1>7, <2>1
<1>8. CASE ~done.failed
  <2>1. Good(done.tree)
    BY <1>4 DEF Progress
  <2>2. ASSUME NEW x \in Range(done.tree) PROVE Empty(x) \/ x.endp <= a \/ b <= x.startp
    BY <1>2, <1>4, <1>8, <2>2 DEF Vacant
  <2>3. \A x \in Range(done.tree) : Empty(new) \/ Empty(x) \/ Apart(x, new)
    BY <2>2 DEF Apart
  <2>4. Range(Emplace(done.tree, new)) = Range(done.tree) \union {new}
    BY <2>1, <2>3, EmplaceFacts
  <2>5. Map(st, a, b, new) = [done EXCEPT !.tree = Emplace(done.tree, new)]
    BY <1>5, <1>8
  <2>6. /\ Map(st, a, b, new).tree = Emplace(done.tree, new)
        /\ Map(st, a, b, new).pt = done.pt /\ Map(st, a, b, new).failed = done.failed
    BY <1>4, <2>5 DEF States
  <2>7. ASSUME NEW p \in Pages
        PROVE  Covering(Map(st, a, b, new).tree, p) =
                 IF Covers(new, p) THEN {new} ELSE Covering(done.tree, p)
    <3>1. ASSUME NEW x \in Range(done.tree), Covers(new, p) PROVE ~Covers(x, p)
      <4>1. x \in Mappings /\ p \in Nat
        BY <1>2, <2>1, MemberOf DEF Good
      <4>. QED
        BY <2>2, <3>1, <4>1, MappingFacts DEF Covers, Empty
    <3>. QED
      BY <2>4, <2>6, <3>1 DEF Covering
  <2>. QED
    BY <1>6, <1>8, <2>6, <2>7
<1>. QED
  BY <1>7, <1>8

-----------------------------------------------------------------------------
(* The page table follows the tree *)

Suits(v, x) == x.prot = v.prot /\ x.frame \in {PageZero} \union ({v.obj} \X Nat)
Match(t, table) == \A p \in Pages : table[p] # Absent => \E m \in Covering(t, p) : Suits(m, table[p])

LEMMA MatchKept ==
  ASSUME NEW t, Good(t), NEW D, NEW B, NEW X, NEW n, NEW u, NEW old, NEW table,
         PageInv(t, D, B, X, n, u, old, table), Match(t, old),
         \A q \in 1 .. Len(t), p \in Pages : q \in D /\ Covers(t[q], p) =>
           X[q][p] = Absent \/ \E v \in B[q][p] : Suits(v, X[q][p])
  PROVE  Match(u, table)
<1>1. SUFFICES ASSUME NEW p \in Pages, table[p] # Absent
               PROVE  \E m \in Covering(u, p) : Suits(m, table[p])
  BY DEF Match
<1>2. p \in Nat
  BY Bounds DEF Pages
<1>3. Covering(t, p) # {}
  BY <1>1 DEF PageInv, Match
<1>4. PICK q \in 1 .. Len(t) : Covers(t[q], p)
  BY <1>3, MemberOf DEF Covering, Good
<1>5. CASE q <= n /\ q \in D
  <2>1. Views(Covering(u, p), p) = B[q][p] /\ table[p] = X[q][p]
    BY <1>4, <1>5 DEF PageInv
  <2>2. PICK v \in Views(Covering(u, p), p) : Suits(v, table[p])
    BY <1>1, <1>4, <1>5, <2>1
  <2>3. PICK m \in Covering(u, p) : v = View(m, p)
    BY <2>2 DEF Views
  <2>4. v.prot = m.prot /\ v.obj = m.obj
    BY <2>3 DEF View
  <2>. QED
    BY <2>2, <2>4 DEF Suits
<1>6. CASE ~(q <= n /\ q \in D)
  <2>1. Covering(u, p) = {t[q]} /\ table[p] = old[p]
    BY <1>4, <1>6 DEF PageInv
  <2>2. Covering(t, p) = {t[q]}
    BY <1>2, <1>4, SingleCover
  <2>. QED
    BY <1>1, <2>1, <2>2 DEF Match
<1>. QED
  BY <1>5, <1>6

\* An entry that matched suits the one mapping of its page, and what the loops
\* say of the page.
LEMMA SuitsBefore ==
  ASSUME NEW t, Good(t), NEW old, Match(t, old), NEW q \in 1 .. Len(t), NEW p \in Pages,
         Covers(t[q], p)
  PROVE  /\ old[p] = Absent \/ Suits(t[q], old[p])
         /\ old[p] = Absent \/ Suits(View(t[q], p), old[p])
<1>1. p \in Nat
  BY Bounds DEF Pages
<1>2. Covering(t, p) = {t[q]}
  BY <1>1, SingleCover
<1>3. old[p] = Absent \/ Suits(t[q], old[p])
  BY <1>2 DEF Match
<1>4. View(t[q], p).prot = t[q].prot /\ View(t[q], p).obj = t[q].obj
  BY DEF View
<1>. QED
  BY <1>3, <1>4 DEF Suits

LEMMA UnmapMatch ==
  ASSUME NEW st \in States, Good(st.tree), NoEmpty(st.tree), Match(st.tree, st.pt),
         NEW a \in Nat, NEW b \in Nat, a <= b
  PROVE  Match(Unmap(st, a, b).tree, Unmap(st, a, b).pt)
<1>0. PICK t, old, u, table :
        t = st.tree /\ old = st.pt /\ u = Unmap(st, a, b).tree /\ table = Unmap(st, a, b).pt
  OBVIOUS
<1>1. PICK D, B, X : D = Hit(t, a, b) /\ B = Gone(t, a, b) /\ X = Cleared(t, a, b, old)
  OBVIOUS
<1>2. PICK n : n = Len(t)
  OBVIOUS
<1>3. Good(t) /\ Match(t, old) /\ PageInv(t, D, B, X, n, u, old, table)
  BY <1>0, <1>1, <1>2, UnmapEnd
<1>4. ASSUME NEW q \in 1 .. Len(t), NEW p \in Pages, q \in D /\ Covers(t[q], p)
      PROVE  X[q][p] = Absent \/ \E v \in B[q][p] : Suits(v, X[q][p])
  <2>1. CASE a <= p /\ p < b
    BY <1>1, <2>1 DEF Cleared
  <2>2. CASE ~(a <= p /\ p < b)
    <3>1. X[q][p] = old[p] /\ B[q][p] = {View(t[q], p)}
      BY <1>1, <2>2 DEF Cleared, Gone
    <3>. QED
      BY <1>3, <1>4, <3>1, SuitsBefore
  <2>. QED
    BY <2>1, <2>2
<1>5. Match(u, table)
  BY <1>3, <1>4, MatchKept
<1>. QED
  BY <1>0, <1>5

LEMMA ProtectMatch ==
  ASSUME NEW st \in States, Good(st.tree), NoEmpty(st.tree), ~st.failed, Match(st.tree, st.pt),
         NEW a \in Nat, NEW b \in Nat, a <= b, NEW prot \in Prot, ~Protect(st, a, b, prot).failed
  PROVE  Match(Protect(st, a, b, prot).tree, Protect(st, a, b, prot).pt)
<1>0. PICK t, old, u, table :
        /\ t = st.tree /\ old = st.pt
        /\ u = Protect(st, a, b, prot).tree /\ table = Protect(st, a, b, prot).pt
  OBVIOUS
<1>1. PICK D, B, X :
        D = Hit(t, a, b) /\ B = Changed(t, a, b, prot) /\ X = Reset(t, a, b, old, prot)
  OBVIOUS
<1>2. PICK n : n = Len(t)
  OBVIOUS
<1>3. Good(t) /\ Match(t, old) /\ PageInv(t, D, B, X, n, u, old, table)
  BY <1>0, <1>1, <1>2, ProtectEnd
<1>4. ASSUME NEW q \in 1 .. Len(t), NEW p \in Pages, q \in D /\ Covers(t[q], p)
      PROVE  X[q][p] = Absent \/ \E v \in B[q][p] : Suits(v, X[q][p])
  <2>1. CASE a <= p /\ p < b
    <3>1. PICK v : v = [View(t[q], p) EXCEPT !.prot = prot]
      OBVIOUS
    <3>2. X[q][p] = Entry(old[p], prot) /\ v \in B[q][p]
      BY <1>1, <2>1, <3>1 DEF Reset, Changed
    <3>3. v.prot = prot /\ v.obj = t[q].obj
      BY <3>1 DEF View
    <3>4. old[p] = Absent \/ Suits(t[q], old[p])
      BY <1>3, <1>4, SuitsBefore
    <3>5. /\ Entry(old[p], prot).prot = prot
          /\ Entry(old[p], prot).frame = IF old[p].frame = Nothing THEN PageZero ELSE old[p].frame
      BY DEF Entry
    <3>6. Absent.frame = Nothing
      BY DEF Absent
    <3>7. Entry(old[p], prot).frame \in {PageZero} \union ({v.obj} \X Nat)
      BY <3>3, <3>4, <3>5, <3>6 DEF Suits
    <3>8. Suits(v, X[q][p])
      BY <3>2, <3>3, <3>5, <3>7 DEF Suits
    <3>. QED
      BY <3>2, <3>8
  <2>2. CASE ~(a <= p /\ p < b)
    <3>1. X[q][p] = old[p] /\ B[q][p] = {View(t[q], p)}
      BY <1>1, <2>2 DEF Reset, Changed
    <3>. QED
      BY <1>3, <1>4, <3>1, SuitsBefore
  <2>. QED
    BY <2>1, <2>2
<1>5. Match(u, table)
  BY <1>3, <1>4, MatchKept
<1>. QED
  BY <1>0, <1>5

LEMMA MapMatch ==
  ASSUME NEW st \in States, Good(st.tree), NoEmpty(st.tree), Match(st.tree, st.pt),
         NEW a \in Nat, NEW b \in Nat, a <= b, NEW new \in Mappings, new.startp = a, new.endp = b
  PROVE  Match(Map(st, a, b, new).tree, Map(st, a, b, new).pt)
<1>0. PICK t, old, s : t = st.tree /\ old = st.pt /\ s = Map(st, a, b, new)
  OBVIOUS
<1>1. PICK D, B, X : D = Met(t, a, b) /\ B = Moved(t, a, b) /\ X = Cleared(t, a, b, old)
  OBVIOUS
<1>2. PICK u, k :
        /\ k \in 0 .. Len(t)
        /\ PageInv(t, D, B, X, k, u, old, s.pt)
        /\ s.failed => s.tree = u
        /\ ~s.failed =>
             /\ k = Len(t)
             /\ \A p \in Pages : Covering(s.tree, p) = IF Covers(new, p) THEN {new} ELSE Covering(u, p)
  <2>1. MapOutcome(st.tree, a, b, st.pt, new, Map(st, a, b, new))
    BY MapEnd
  <2>2. MapOutcome(t, a, b, old, new, s)
    BY <1>0, <2>1
  <2>. QED
    BY <1>1, <2>2 DEF MapOutcome
<1>3. Good(t) /\ Match(t, old) /\ Len(t) \in Nat /\ Pages \subseteq Nat
  BY <1>0, MemberOf, Bounds DEF Good, Pages
<1>4. ASSUME NEW q \in 1 .. Len(t), NEW p \in Pages, q \in D /\ Covers(t[q], p)
      PROVE  X[q][p] = Absent \/ \E v \in B[q][p] : Suits(v, X[q][p])
  <2>1. CASE a <= p /\ p < b
    BY <1>1, <2>1 DEF Cleared
  <2>2. CASE p < a
    <3>1. X[q][p] = old[p] /\ B[q][p] = {View(t[q], p)}
      BY <1>1, <1>3, <2>2 DEF Cleared, Moved
    <3>. QED
      BY <1>3, <1>4, <3>1, SuitsBefore
  <2>3. CASE ~(p < a) /\ ~(p < b)
    <3>1. PICK f \in Mappings : f = t[q]
      BY <1>3, MemberOf DEF Good
    <3>2. PICK m : m = RestOf(f, a, b)
      OBVIOUS
    <3>3. Overlaps(f, a, b)
      BY <1>1, <1>4, <3>1 DEF Met
    <3>4. m.obj = f.obj /\ m.prot = f.prot
      BY <3>2, <3>3, RestFacts DEF Piece
    <3>5. X[q][p] = old[p] /\ B[q][p] = {View(m, p)}
      BY <1>1, <1>3, <2>3, <3>1, <3>2 DEF Cleared, Moved
    <3>6. View(m, p).obj = f.obj /\ View(m, p).prot = f.prot
      BY <3>4 DEF View
    <3>7. old[p] = Absent \/ Suits(t[q], old[p])
      BY <1>3, <1>4, SuitsBefore
    <3>. QED
      BY <3>1, <3>5, <3>6, <3>7 DEF Suits
  <2>. QED
    BY <1>3, <2>1, <2>2, <2>3
<1>5. Match(u, s.pt)
  BY <1>2, <1>3, <1>4, MatchKept
<1>6. CASE s.failed
  BY <1>0, <1>2, <1>5, <1>6
<1>7. CASE ~s.failed
  <2>1. ASSUME NEW p \in Pages, Covers(new, p) PROVE s.pt[p] = Absent
    <3>1. a <= p /\ p < b
      BY <2>1 DEF Covers
    <3>2. CASE Covering(t, p) = {}
      BY <1>2, <1>3, <3>2 DEF PageInv, Match
    <3>3. CASE Covering(t, p) # {}
      <4>1. PICK q \in 1 .. Len(t) : Covers(t[q], p)
        BY <1>3, <3>3, MemberOf DEF Covering, Good
      <4>2. t[q] \in Mappings
        BY <1>3, MemberOf DEF Good
      <4>3. Overlaps(t[q], a, b)
        BY <1>3, <3>1, <4>1, <4>2, MappingFacts DEF Overlaps, Covers
      <4>4. q <= k /\ q \in D
        BY <1>1, <1>2, <1>3, <1>7, <4>3 DEF Met
      <4>5. s.pt[p] = X[q][p]
        BY <1>2, <4>1, <4>4 DEF PageInv
      <4>. QED
        BY <1>1, <3>1, <4>5 DEF Cleared
    <3>. QED
      BY <3>2, <3>3
  <2>2. Match(s.tree, s.pt)
    BY <1>2, <1>5, <1>7, <2>1 DEF Match
  <2>. QED
    BY <1>0, <2>2
<1>. QED
  BY <1>6, <1>7

LEMMA MatchState ==
  ASSUME VmInv, Tidy
  PROVE  /\ NoEmpty(tree) /\ NoEmpty(State.tree)
         /\ EntriesMatch => Match(State.tree, State.pt)
<1>1. State.tree = tree /\ State.pt = pt /\ Good(tree)
  BY StateFacts
<1>2. ASSUME NEW m \in Range(tree) PROVE ~Empty(m)
  <2>1. m \in Mappings /\ m.startp < m.endp
    BY <1>1, MemberOf DEF Good, Tidy
  <2>. QED
    BY <2>1, MappingFacts DEF Empty
<1>3. EntriesMatch => Match(tree, pt)
  BY DEF EntriesMatch, Match, Suits
<1>. QED
  BY <1>1, <1>2, <1>3 DEF NoEmpty

LEMMA CallMatch ==
  ASSUME NEW st, Match(st.tree, st.pt), tree' = st.tree, pt' = st.pt
  PROVE  EntriesMatch'
BY DEF EntriesMatch, Match, Suits

LEMMA VacatedMatch ==
  ASSUME VmInv, Tidy, EntriesMatch, NEW a \in Nat, NEW n \in Nat
  PROVE  Match(Vacated(a, n).tree, Vacated(a, n).pt) /\ NoEmpty(Vacated(a, n).tree)
<1>1. /\ State \in States /\ Good(State.tree) /\ NoEmpty(State.tree)
      /\ Match(State.tree, State.pt)
  BY StateFacts, MatchState
<1>2. a + n \in Nat /\ a <= a + n
  OBVIOUS
<1>3. Match(Unmap(State, a, a + n).tree, Unmap(State, a, a + n).pt)
  BY <1>1, <1>2, UnmapMatch
<1>4. NoEmpty(Unmap(State, a, a + n).tree)
  BY <1>1, <1>2, UnmapEnd
<1>. QED
  BY <1>1, <1>3, <1>4 DEF Vacated

LEMMA MmapAtMatch ==
  ASSUME NEW a \in Nat, NEW n \in Nat, NEW o \in Objects, NEW off \in Nat,
         NEW prot \in Prot, NEW private \in BOOLEAN, NEW unt \in BOOLEAN,
         NEW first \in States, Good(first.tree), NoEmpty(first.tree), Match(first.tree, first.pt),
         MmapAt(a, n, o, off, prot, private, unt, first)
  PROVE  EntriesMatch'
<1>. DEFINE new == NewMapping(a, n, o, off, prot, private, unt)
            st == Map(first, a, a + n, new)
<1>1. a + n <= NumPages /\ a + n \in Nat /\ a <= a + n
  BY DEF MmapAt
<1>2. new \in Mappings /\ new.startp = a /\ new.endp = a + n
  BY <1>1, Bounds DEF NewMapping, Mappings, Prot
<1>3. Match(st.tree, st.pt)
  <2>. HIDE DEF new
  <2>. QED
    BY <1>1, <1>2, MapMatch
<1>4. tree' = st.tree /\ pt' = st.pt
  BY DEF MmapAt
<1>. HIDE DEF st
<1>. QED
  BY <1>3, <1>4, CallMatch

LEMMA FaultMatch ==
  ASSUME VmInv, Tidy, EntriesMatch, NEW p \in Pages, NEW access, NEW mode, Fault(p, access, mode)
  PROVE  EntriesMatch'
<1>. DEFINE m == FirstCovering(tree, p)
            entry == FaultEntry(m, p)
<1>1. tree' = tree /\ tree \in Seq(Mappings) /\ pt \in [Pages -> Entries] /\ Match(tree, pt)
  BY StateFacts, MatchState DEF VmInv, TypeOK, Fault
<1>2. CASE UNCHANGED <<pt, tables>>
  BY <1>1, <1>2 DEF EntriesMatch, Match, Suits
<1>3. CASE ~UNCHANGED <<pt, tables>>
  <2>1. Covering(tree, p) # {} /\ pt' = [pt EXCEPT ![p] = entry]
    BY <1>3 DEF Fault
  <2>2. m \in Mappings /\ Covers(m, p) /\ m \in Range(tree)
    BY <1>1, <2>1, FirstFacts
  <2>. HIDE DEF m
  <2>3. m.offsetp + (p - m.startp) \in Nat
    <3>1. m.offsetp \in Nat /\ m.startp \in Nat /\ m.startp <= p /\ p \in Nat
      BY <2>2, MappingFacts, Bounds DEF Covers, Pages
    <3>. QED
      BY <3>1
  <2>4. m \in Covering(tree, p) /\ Suits(m, entry)
    <3>1. m \in Covering(tree, p)
      BY <2>2 DEF Covering
    <3>2. entry.prot = m.prot /\ entry.frame = <<m.obj, m.offsetp + (p - m.startp)>>
      BY DEF FaultEntry
    <3>3. <<m.obj, m.offsetp + (p - m.startp)>> \in {m.obj} \X Nat
      BY <2>3
    <3>. QED
      BY <3>1, <3>2, <3>3 DEF Suits
  <2>. HIDE DEF entry
  <2>5. Match(tree, [pt EXCEPT ![p] = entry])
    BY <1>1, <2>4 DEF Match
  <2>. QED
    BY <1>1, <2>1, <2>5 DEF EntriesMatch, Match, Suits
<1>. QED
  BY <1>2, <1>3

LEMMA NextMatch ==
  ASSUME VmInv, Tidy, EntriesMatch, outcome' = "running", [Next]_vars
  PROVE  EntriesMatch'
<1>0. /\ Pages \subseteq Nat /\ Lengths \subseteq Nat /\ 0 .. MaxOffset \subseteq Nat
      /\ Prots \subseteq Prot
  BY Bounds DEF Pages, Prot
<1>s. /\ State \in States /\ Good(State.tree) /\ NoEmpty(State.tree) /\ ~State.failed
      /\ Match(State.tree, State.pt)
  BY StateFacts, MatchState
<1>2. ASSUME NEW n \in Lengths, NEW o \in Objects, NEW off \in 0 .. MaxOffset,
             NEW prot \in Prots, NEW priv \in BOOLEAN, NEW unt \in BOOLEAN,
             MmapAnywhere(n, o, off, prot, priv, unt)
      PROVE  EntriesMatch'
  <2>1. PICK a : a = FindFreeRegion(tree, n)
    OBVIOUS
  <2>2. a \in Nat
    <3>1. tree \in Seq(Mappings) /\ n \in Nat
      BY <1>0 DEF VmInv, TypeOK
    <3>2. a \in 0 .. NumPages
      BY <2>1, <3>1, FreeType
    <3>. QED
      BY <3>2, Bounds
  <2>3. MmapAt(a, n, o, off, prot, priv, unt, State)
    BY <1>2, <2>1 DEF MmapAnywhere
  <2>4. n \in Nat /\ off \in Nat /\ prot \in Prot
    BY <1>0
  <2>. QED
    BY <1>s, <2>2, <2>3, <2>4, MmapAtMatch
<1>3. ASSUME NEW n \in Lengths, NEW o \in Objects, NEW off \in 0 .. MaxOffset,
             NEW prot \in Prots, NEW priv \in BOOLEAN, NEW unt \in BOOLEAN, NEW a \in Pages,
             MmapFixed(a, n, o, off, prot, priv, unt)
      PROVE  EntriesMatch'
  <2>1. a \in Nat /\ n \in Nat /\ off \in Nat /\ prot \in Prot
    BY <1>0
  <2>2. /\ Vacated(a, n) \in States /\ Good(Vacated(a, n).tree) /\ NoEmpty(Vacated(a, n).tree)
        /\ Match(Vacated(a, n).tree, Vacated(a, n).pt)
    BY <2>1, VacatedGood, VacatedMatch
  <2>3. MmapAt(a, n, o, off, prot, priv, unt, Vacated(a, n))
    BY <1>3 DEF MmapFixed
  <2>. QED
    BY <2>1, <2>2, <2>3, MmapAtMatch
<1>4. ASSUME NEW a \in Pages, NEW n \in Lengths, Munmap(a, n) PROVE EntriesMatch'
  <2>1. a \in Nat /\ n \in Nat
    BY <1>0
  <2>2. a + n \in Nat /\ a <= a + n
    BY <2>1
  <2>3. PICK st : st = Unmap(State, a, a + n)
    OBVIOUS
  <2>4. Match(st.tree, st.pt)
    BY <1>s, <2>1, <2>2, <2>3, UnmapMatch
  <2>5. tree' = st.tree /\ pt' = st.pt
    BY <1>4, <2>3 DEF Munmap
  <2>. QED
    BY <2>4, <2>5, CallMatch
<1>5. ASSUME NEW a \in Pages, NEW n \in Lengths, MmapFixedRefused(a, n) PROVE EntriesMatch'
  <2>1. a \in Nat /\ n \in Nat
    BY <1>0
  <2>2. Match(Vacated(a, n).tree, Vacated(a, n).pt)
    BY <2>1, VacatedMatch
  <2>3. tree' = Vacated(a, n).tree /\ pt' = Vacated(a, n).pt
    BY <1>5 DEF MmapFixedRefused
  <2>. QED
    BY <2>2, <2>3, CallMatch
<1>6. ASSUME NEW a \in Pages, NEW n \in Lengths, NEW prot \in Prots, Mprotect(a, n, prot)
      PROVE  EntriesMatch'
  <2>1. a \in Nat /\ n \in Nat /\ prot \in Prot
    BY <1>0
  <2>2. a + n \in Nat /\ a <= a + n
    BY <2>1
  <2>3. PICK st : st = Protect(State, a, a + n, prot)
    OBVIOUS
  <2>4. tree' = st.tree /\ pt' = st.pt /\ ~st.failed
    BY <1>6, <2>3 DEF Mprotect
  <2>5. Match(st.tree, st.pt)
    BY <1>s, <2>1, <2>2, <2>3, <2>4, ProtectMatch
  <2>. QED
    BY <2>4, <2>5, CallMatch
<1>7. ASSUME NEW p \in Pages, NEW access \in {"read", "write"}, NEW mode \in {"user", "kernel"},
             Fault(p, access, mode)
      PROVE  EntriesMatch'
  BY <1>7, FaultMatch
<1>8. CASE UNCHANGED vars
  BY <1>8 DEF vars, EntriesMatch
<1>. QED
  BY <1>2, <1>3, <1>4, <1>5, <1>6, <1>7, <1>8 DEF Next

(***************************************************************************)
(* On an address space of any size, no system call and no fault makes a    *)
(* page table that agrees with the tree grant a right its mapping does not *)
(* give, or reach into an object that is gone.                             *)
(***************************************************************************)
THEOREM EntriesFollowTreeHolds ==
  Spec => EntriesFollowTree
<1>1. VmInv /\ [Next]_vars => [Tidy /\ EntriesMatch /\ outcome' = "running" => EntriesMatch']_vars
  BY NextMatch
<1>. QED
  BY <1>1, InitInv, NextInv, PTL DEF Spec, EntriesFollowTree

-----------------------------------------------------------------------------
(* The tables behind the entries *)

\* An entry that is not empty is in a table that exists, until protect()
\* panics.
TablesKnown == outcome = "running" => \A p \in Pages : pt[p] # Absent => TableOf(p) \in tables

\* munmap() and map() only empty entries.
LEMMA UnmapEntries ==
  ASSUME NEW st \in States, NEW a \in Nat, NEW b \in Nat, a <= b
  PROVE  \A p \in Pages : Unmap(st, a, b).pt[p] \in {Absent, st.pt[p]}
<1>1. PICK over : UnmapLoop(st, a, b, over)
  BY UnmapDefined
<1>0. PICK t : t = st.tree
  OBVIOUS
<1>. DEFINE P == {n \in 0 .. Len(t) : \A p \in Pages : over[n].pt[p] \in {Absent, st.pt[p]}}
<1>2. Len(t) \in Nat /\ Len(t) \in 0 .. Len(t) /\ \A n \in 1 .. Len(t) : t[n] \in Mappings
  BY <1>0, MemberOf DEF States
<1>3. 0 \in P
  BY <1>1, <1>2 DEF UnmapLoop
<1>4. ASSUME NEW n \in 1 .. Len(t), n - 1 \in P PROVE n \in P
  <2>1. n \in 0 .. Len(t) /\ n - 1 \in 0 .. Len(t) /\ over[n - 1] \in States
    BY <1>0, <1>1, <1>2 DEF UnmapLoop
  <2>2. CASE Affected(t[n], a, b)
    <3>1. over[n].pt = Clear(over[n - 1].pt, From(t[n], a), To(t[n], b))
      <4>1. over[n] = UnmapOver(over[n - 1], t[n], a, b) /\ Overlaps(t[n], a, b)
        BY <1>0, <1>1, <2>2 DEF UnmapLoop, Affected
      <4>. QED
        BY <1>2, <2>1, <4>1, UnmapRound
    <3>. QED
      BY <1>4, <2>1, <3>1 DEF Clear
  <2>3. CASE ~Affected(t[n], a, b)
    BY <1>0, <1>1, <1>4, <2>1, <2>3 DEF UnmapLoop
  <2>. QED
    BY <2>2, <2>3
<1>5. \A n \in 0 .. Len(t) : n \in P
  <2>. HIDE DEF P
  <2>. QED
    BY <1>2, <1>3, <1>4, LoopInduction
<1>6. Unmap(st, a, b) = over[Len(t)]
  BY <1>0, <1>1 DEF UnmapLoop
<1>. QED
  BY <1>2, <1>5, <1>6

LEMMA MapEntries ==
  ASSUME NEW st \in States, NEW a \in Nat, NEW b \in Nat, a <= b, NEW new \in Mappings
  PROVE  \A p \in Pages : Map(st, a, b, new).pt[p] \in {Absent, st.pt[p]}
<1>1. PICK over : MapLoop(st, a, b, over)
  BY MapDefined
<1>0. PICK t : t = st.tree
  OBVIOUS
<1>. DEFINE P == {n \in 0 .. Len(t) : \A p \in Pages : over[n].pt[p] \in {Absent, st.pt[p]}}
<1>2. Len(t) \in Nat /\ Len(t) \in 0 .. Len(t) /\ \A n \in 1 .. Len(t) : t[n] \in Mappings
  BY <1>0, MemberOf DEF States
<1>3. 0 \in P
  BY <1>1, <1>2 DEF MapLoop
<1>4. ASSUME NEW n \in 1 .. Len(t), n - 1 \in P PROVE n \in P
  <2>1. n \in 0 .. Len(t) /\ n - 1 \in 0 .. Len(t) /\ over[n - 1] \in States
    BY <1>0, <1>1, <1>2 DEF MapLoop
  <2>2. CASE Overlaps(t[n], a, b)
    <3>1. \/ over[n].pt = over[n - 1].pt
          \/ over[n].pt = Clear(over[n - 1].pt, From(t[n], a), To(t[n], b))
      <4>1. over[n] = MapOver(over[n - 1], t[n], a, b)
        BY <1>0, <1>1, <2>2 DEF MapLoop
      <4>2. PICK s \in States, f \in Mappings : s = over[n - 1] /\ f = t[n]
        BY <1>2, <2>1
      <4>3. Overlaps(f, a, b)
        BY <2>2, <4>2
      <4>4. CASE s.failed \/ f.untouchable
        <5>1. MapOver(s, f, a, b).pt = s.pt
          BY <4>3, <4>4, MapRound
        <5>. QED
          BY <4>1, <4>2, <5>1
      <4>5. CASE ~s.failed /\ ~f.untouchable
        <5>1. MapOver(s, f, a, b).pt = Clear(s.pt, From(f, a), To(f, b))
          BY <4>3, <4>5, MapRound
        <5>. QED
          BY <4>1, <4>2, <5>1
      <4>. QED
        BY <4>4, <4>5
    <3>. QED
      BY <1>4, <2>1, <3>1 DEF Clear
  <2>3. CASE ~Overlaps(t[n], a, b)
    BY <1>0, <1>1, <1>4, <2>1, <2>3 DEF MapLoop
  <2>. QED
    BY <2>2, <2>3
<1>5. \A n \in 0 .. Len(t) : n \in P
  <2>. HIDE DEF P
  <2>. QED
    BY <1>2, <1>3, <1>4, LoopInduction
<1>6. PICK done : done = over[Len(t)] /\ done \in States
  BY <1>0, <1>1, <1>2 DEF MapLoop
<1>7. Map(st, a, b, new) = IF done.failed THEN done ELSE [done EXCEPT !.tree = Emplace(@, new)]
  BY <1>0, <1>1, <1>6 DEF MapLoop
<1>8. Map(st, a, b, new).pt = done.pt
  BY <1>6, <1>7 DEF States
<1>. QED
  BY <1>2, <1>5, <1>6, <1>8

\* protect() writes entries of tables that exist, unless it panics.
LEMMA ProtectEntries ==
  ASSUME NEW st \in States, NEW a \in Nat, NEW b \in Nat, a <= b, NEW prot \in Prot,
         ~Protect(st, a, b, prot).failed
  PROVE  \A p \in Pages : Protect(st, a, b, prot).pt[p] = st.pt[p] \/ TableOf(p) \in tables
<1>1. PICK over : ProtectLoop(st, a, b, prot, over)
  BY ProtectDefined
<1>0. PICK t : t = st.tree
  OBVIOUS
<1>. DEFINE Right(n) == ~over[n].failed =>
              \A p \in Pages : over[n].pt[p] = st.pt[p] \/ TableOf(p) \in tables
            P == {n \in 0 .. Len(t) : Right(n)}
<1>2. Len(t) \in Nat /\ Len(t) \in 0 .. Len(t) /\ \A n \in 1 .. Len(t) : t[n] \in Mappings
  BY <1>0, MemberOf DEF States
<1>3. 0 \in P
  BY <1>1, <1>2 DEF ProtectLoop
<1>4. ASSUME NEW n \in 1 .. Len(t), n - 1 \in P PROVE n \in P
  <2>1. n \in 0 .. Len(t) /\ n - 1 \in 0 .. Len(t) /\ over[n - 1] \in States
    BY <1>0, <1>1, <1>2 DEF ProtectLoop
  <2>2. Right(n - 1)
    BY <1>4
  <2>3. CASE Affected(t[n], a, b) /\ ~over[n - 1].failed
    <3>1. /\ over[n].pt = ProtectPt(over[n - 1].pt, From(t[n], a), To(t[n], b), prot)
          /\ over[n].failed <=> \E p \in Pages :
               From(t[n], a) <= p /\ p < To(t[n], b) /\ TableOf(p) \notin tables
      <4>1. over[n] = ProtectOver(over[n - 1], t[n], a, b, prot) /\ Overlaps(t[n], a, b)
        BY <1>0, <1>1, <2>3 DEF ProtectLoop, Affected
      <4>. QED
        BY <1>2, <2>1, <2>3, <4>1, ProtectRound
    <3>2. Right(n)
      BY <2>2, <2>3, <3>1 DEF ProtectPt
    <3>. QED
      BY <2>1, <3>2
  <2>4. CASE ~Affected(t[n], a, b) \/ over[n - 1].failed
    <3>1. over[n] = over[n - 1]
      <4>1. CASE ~Affected(t[n], a, b)
        BY <1>0, <1>1, <4>1 DEF ProtectLoop
      <4>2. CASE Affected(t[n], a, b)
        <5>1. over[n] = ProtectOver(over[n - 1], t[n], a, b, prot) /\ Overlaps(t[n], a, b)
          BY <1>0, <1>1, <4>2 DEF ProtectLoop, Affected
        <5>. QED
          BY <1>2, <2>1, <2>4, <4>2, <5>1, ProtectRound
      <4>. QED
        BY <4>1, <4>2
    <3>. QED
      BY <2>1, <2>2, <3>1
  <2>. QED
    BY <2>3, <2>4
<1>5. \A n \in 0 .. Len(t) : n \in P
  <2>. HIDE DEF P
  <2>. QED
    BY <1>2, <1>3, <1>4, LoopInduction
<1>6. Protect(st, a, b, prot) = over[Len(t)]
  BY <1>0, <1>1 DEF ProtectLoop
<1>7. Right(Len(t))
  <2>. HIDE DEF Right
  <2>. QED
    BY <1>2, <1>5
<1>. QED
  BY <1>6, <1>7

LEMMA EntriesEmptied ==
  ASSUME TablesKnown, outcome = "running", NEW table, \A p \in Pages : table[p] \in {Absent, pt[p]},
         pt' = table, tables' = tables
  PROVE  TablesKnown'
BY DEF TablesKnown

LEMMA NextKnown ==
  VmInv /\ TablesKnown /\ [Next]_vars => TablesKnown'
<1>1. SUFFICES ASSUME VmInv, TablesKnown, [Next]_vars PROVE TablesKnown'
  OBVIOUS
<1>0. /\ Pages \subseteq Nat /\ Lengths \subseteq Nat /\ 0 .. MaxOffset \subseteq Nat
      /\ Prots \subseteq Prot
  BY Bounds DEF Pages, Prot
<1>s. State \in States /\ Good(State.tree) /\ State.pt = pt
  BY <1>1, StateFacts
<1>v. ASSUME NEW a \in Nat, NEW n \in Nat
      PROVE  /\ Vacated(a, n) \in States
             /\ \A p \in Pages : Vacated(a, n).pt[p] \in {Absent, pt[p]}
  <2>1. Vacated(a, n) \in States
    BY <1>1, VacatedGood
  <2>2. a + n \in Nat /\ a <= a + n
    OBVIOUS
  <2>3. \A p \in Pages : Unmap(State, a, a + n).pt[p] \in {Absent, State.pt[p]}
    BY <1>s, <2>2, UnmapEntries
  <2>. QED
    BY <1>s, <2>1, <2>3 DEF Vacated
<1>m. ASSUME NEW a \in Nat, NEW n \in Nat, NEW o \in Objects, NEW off \in Nat, NEW prot \in Prot,
             NEW private \in BOOLEAN, NEW unt \in BOOLEAN, NEW first \in States,
             \A p \in Pages : first.pt[p] \in {Absent, pt[p]},
             MmapAt(a, n, o, off, prot, private, unt, first), outcome = "running"
      PROVE  TablesKnown'
  <2>. DEFINE new == NewMapping(a, n, o, off, prot, private, unt)
              st == Map(first, a, a + n, new)
  <2>1. a + n <= NumPages /\ a + n \in Nat /\ a <= a + n
    BY <1>m DEF MmapAt
  <2>2. new \in Mappings
    BY <2>1, Bounds DEF NewMapping, Mappings, Prot
  <2>3. \A p \in Pages : st.pt[p] \in {Absent, first.pt[p]}
    <3>. HIDE DEF new
    <3>. QED
      BY <2>1, <2>2, MapEntries
  <2>4. pt' = st.pt /\ tables' = tables
    BY <1>m DEF MmapAt
  <2>. HIDE DEF st
  <2>5. \A p \in Pages : st.pt[p] \in {Absent, pt[p]}
    BY <1>m, <2>3
  <2>. QED
    BY <1>1, <1>m, <2>4, <2>5, EntriesEmptied
<1>2. ASSUME NEW n \in Lengths, NEW o \in Objects, NEW off \in 0 .. MaxOffset,
             NEW prot \in Prots, NEW priv \in BOOLEAN, NEW unt \in BOOLEAN,
             MmapAnywhere(n, o, off, prot, priv, unt)
      PROVE  TablesKnown'
  <2>1. PICK a : a = FindFreeRegion(tree, n)
    OBVIOUS
  <2>2. a \in Nat
    <3>1. tree \in Seq(Mappings) /\ n \in Nat
      BY <1>0, <1>1 DEF VmInv, TypeOK
    <3>2. a \in 0 .. NumPages
      BY <2>1, <3>1, FreeType
    <3>. QED
      BY <3>2, Bounds
  <2>3. MmapAt(a, n, o, off, prot, priv, unt, State) /\ outcome = "running"
    BY <1>2, <2>1 DEF MmapAnywhere, Running
  <2>4. n \in Nat /\ off \in Nat /\ prot \in Prot /\ \A p \in Pages : State.pt[p] \in {Absent, pt[p]}
    BY <1>0, <1>s
  <2>. QED
    BY <1>s, <1>m, <2>2, <2>3, <2>4
<1>3. ASSUME NEW n \in Lengths, NEW o \in Objects, NEW off \in 0 .. MaxOffset,
             NEW prot \in Prots, NEW priv \in BOOLEAN, NEW unt \in BOOLEAN, NEW a \in Pages,
             MmapFixed(a, n, o, off, prot, priv, unt)
      PROVE  TablesKnown'
  <2>1. a \in Nat /\ n \in Nat /\ off \in Nat /\ prot \in Prot
    BY <1>0
  <2>2. PICK first : first = Vacated(a, n)
    OBVIOUS
  <2>3. first \in States /\ \A p \in Pages : first.pt[p] \in {Absent, pt[p]}
    BY <1>v, <2>1, <2>2
  <2>4. MmapAt(a, n, o, off, prot, priv, unt, first) /\ outcome = "running"
    BY <1>3, <2>2 DEF MmapFixed, Running
  <2>. QED
    BY <1>m, <2>1, <2>3, <2>4
<1>4. ASSUME NEW a \in Pages, NEW n \in Lengths, Munmap(a, n) PROVE TablesKnown'
  <2>1. a \in Nat /\ n \in Nat
    BY <1>0
  <2>2. a + n \in Nat /\ a <= a + n
    BY <2>1
  <2>3. PICK st : st = Unmap(State, a, a + n)
    OBVIOUS
  <2>4. \A p \in Pages : st.pt[p] \in {Absent, pt[p]}
    BY <1>s, <2>1, <2>2, <2>3, UnmapEntries
  <2>5. pt' = st.pt /\ tables' = tables /\ outcome = "running"
    BY <1>4, <2>3 DEF Munmap, Running
  <2>. QED
    BY <1>1, <2>4, <2>5, EntriesEmptied
<1>5. ASSUME NEW a \in Pages, NEW n \in Lengths, MmapFixedRefused(a, n) PROVE TablesKnown'
  <2>1. a \in Nat /\ n \in Nat
    BY <1>0
  <2>2. pt' = Vacated(a, n).pt /\ tables' = tables /\ outcome = "running"
    BY <1>5 DEF MmapFixedRefused, Running
  <2>3. \A p \in Pages : Vacated(a, n).pt[p] \in {Absent, pt[p]}
    BY <1>v, <2>1
  <2>. QED
    BY <1>1, <2>2, <2>3, EntriesEmptied
<1>6. ASSUME NEW a \in Pages, NEW n \in Lengths, NEW prot \in Prots, Mprotect(a, n, prot)
      PROVE  TablesKnown'
  <2>1. a \in Nat /\ n \in Nat /\ prot \in Prot
    BY <1>0
  <2>2. a + n \in Nat /\ a <= a + n
    BY <2>1
  <2>3. PICK st : st = Protect(State, a, a + n, prot)
    OBVIOUS
  <2>4. /\ pt' = st.pt /\ tables' = tables /\ outcome = "running"
        /\ outcome' = IF st.failed THEN "protect panic" ELSE "running"
    BY <1>6, <2>3 DEF Mprotect, Running
  <2>5. CASE st.failed
    BY <2>4, <2>5 DEF TablesKnown
  <2>6. CASE ~st.failed
    <3>1. \A p \in Pages : st.pt[p] = pt[p] \/ TableOf(p) \in tables
      BY <1>s, <2>1, <2>2, <2>3, <2>6, ProtectEntries
    <3>. QED
      BY <1>1, <2>4, <3>1 DEF TablesKnown
  <2>. QED
    BY <2>5, <2>6
<1>7. ASSUME NEW p \in Pages, NEW access \in {"read", "write"}, NEW mode \in {"user", "kernel"},
             Fault(p, access, mode)
      PROVE  TablesKnown'
  <2>1. outcome = "running" /\ pt \in [Pages -> Entries]
    BY <1>1, <1>7 DEF Fault, VmInv, TypeOK
  <2>2. CASE UNCHANGED <<pt, tables>>
    BY <1>1, <2>1, <2>2 DEF TablesKnown
  <2>3. CASE ~UNCHANGED <<pt, tables>>
    <3>1. PICK entry : pt' = [pt EXCEPT ![p] = entry] /\ tables' = tables \union {TableOf(p)}
      BY <1>7, <2>3 DEF Fault
    <3>. QED
      BY <1>1, <2>1, <3>1 DEF TablesKnown
  <2>. QED
    BY <2>2, <2>3
<1>8. CASE UNCHANGED vars
  BY <1>1, <1>8 DEF vars, TablesKnown
<1>. QED
  BY <1>1, <1>2, <1>3, <1>4, <1>5, <1>6, <1>7, <1>8 DEF Next

-----------------------------------------------------------------------------
(* The calls change what they are asked to change *)

\* Page p of t, when a loop has gone through all of it: no mapping covers it,
\* or t[q] alone does.
Lone(t, p, q) ==
  q \in 1 .. Len(t) /\ Covers(t[q], p) /\ Covering(t, p) = {t[q]} /\ Backing(t, p) = {View(t[q], p)}
Bare(t, p) == Covering(t, p) = {} /\ Backing(t, p) = {}

LEMMA PageCases ==
  ASSUME NEW t, Good(t), NEW p \in Pages
  PROVE  Bare(t, p) \/ \E q : Lone(t, p, q)
<1>1. p \in Nat
  BY Bounds DEF Pages
<1>2. CASE Covering(t, p) = {}
  BY <1>2 DEF Bare, Backing
<1>3. CASE Covering(t, p) # {}
  <2>1. PICK q \in 1 .. Len(t) : Covers(t[q], p)
    BY <1>3, MemberOf DEF Covering, Good
  <2>2. Covering(t, p) = {t[q]}
    BY <1>1, <2>1, SingleCover
  <2>3. Views({t[q]}, p) = {View(t[q], p)}
    BY DEF Views
  <2>. QED
    BY <2>1, <2>2, <2>3, BackingViews DEF Lone
<1>. QED
  BY <1>2, <1>3

LEMMA PageAfter ==
  ASSUME NEW t, Good(t), NEW D, NEW B, NEW X, NEW u, NEW old, NEW table,
         PageInv(t, D, B, X, Len(t), u, old, table), NEW p \in Pages
  PROVE  /\ Bare(t, p) => Backing(u, p) = {} /\ table[p] = old[p]
         /\ \A q : Lone(t, p, q) =>
              IF q \in D THEN Backing(u, p) = B[q][p] /\ table[p] = X[q][p]
              ELSE Backing(u, p) = Backing(t, p) /\ table[p] = old[p]
<1>1. ASSUME Bare(t, p) PROVE Backing(u, p) = {} /\ table[p] = old[p]
  <2>1. Covering(u, p) = {} /\ table[p] = old[p]
    BY <1>1 DEF Bare, PageInv
  <2>. QED
    BY <2>1 DEF Backing
<1>2. ASSUME NEW q, Lone(t, p, q)
      PROVE  IF q \in D THEN Backing(u, p) = B[q][p] /\ table[p] = X[q][p]
             ELSE Backing(u, p) = Backing(t, p) /\ table[p] = old[p]
  <2>1. q \in 1 .. Len(t) /\ q <= Len(t) /\ Covers(t[q], p)
    BY <1>2, MemberOf DEF Lone, Good
  <2>2. CASE q \in D
    <3>1. Views(Covering(u, p), p) = B[q][p] /\ table[p] = X[q][p]
      BY <2>1, <2>2 DEF PageInv
    <3>. QED
      BY <2>2, <3>1, BackingViews
  <2>3. CASE q \notin D
    <3>1. Covering(u, p) = Covering(t, p) /\ table[p] = old[p]
      BY <1>2, <2>1, <2>3 DEF PageInv, Lone
    <3>. QED
      BY <2>3, <3>1, BackingViews
  <2>. QED
    BY <2>2, <2>3
<1>. QED
  BY <1>1, <1>2

\* A page of the range has its mapping worked on, unless it is the stack's.
LEMMA PageHit ==
  ASSUME NEW t, Good(t), NEW a \in Nat, NEW b \in Nat, NEW p \in Pages, NEW q, Lone(t, p, q),
         a <= p, p < b
  PROVE  q \in Met(t, a, b) /\ (~t[q].untouchable => q \in Hit(t, a, b))
<1>1. q \in 1 .. Len(t) /\ t[q] \in Mappings /\ p \in Nat /\ Covers(t[q], p)
  BY MemberOf, Bounds DEF Lone, Good, Pages
<1>2. Overlaps(t[q], a, b)
  BY <1>1, MappingFacts DEF Covers, Overlaps
<1>. QED
  BY <1>1, <1>2 DEF Met, Hit, Affected

LEMMA StackPage ==
  ASSUME NEW p \in Pages
  PROVE  /\ Bare(tree, p) => ~Untouchable(p)
         /\ \A q : Lone(tree, p, q) => (Untouchable(p) <=> tree[q].untouchable)
BY DEF Bare, Lone, Untouchable

LEMMA UnmapIsExact ==
  ASSUME VmInv, Tidy
  PROVE  UnmapExact
<1>1. SUFFICES ASSUME NEW a \in Pages, NEW n \in Lengths, NEW p \in Pages, NEW st,
                      st = Unmap(State, a, a + n)
               PROVE  IF a <= p /\ p < a + n /\ ~Untouchable(p)
                      THEN Backing(st.tree, p) = {} /\ (Backing(tree, p) # {} => st.pt[p] = Absent)
                      ELSE Backing(st.tree, p) = Backing(tree, p) /\ st.pt[p] = pt[p]
  BY DEF UnmapExact
<1>2. a \in Nat /\ n \in Nat /\ a + n \in Nat /\ a <= a + n
  BY Bounds DEF Pages
<1>3. PICK b : b = a + n /\ b \in Nat
  BY <1>2
<1>4. /\ State \in States /\ Good(State.tree) /\ NoEmpty(State.tree)
      /\ State.tree = tree /\ State.pt = pt
  BY StateFacts, MatchState
<1>5. PICK D, B, X : D = Hit(tree, a, b) /\ B = Gone(tree, a, b) /\ X = Cleared(tree, a, b, pt)
  OBVIOUS
<1>6. PageInv(tree, D, B, X, Len(tree), st.tree, pt, st.pt)
  BY <1>1, <1>2, <1>3, <1>4, <1>5, UnmapEnd
<1>7. /\ Bare(tree, p) => Backing(st.tree, p) = {} /\ st.pt[p] = pt[p]
      /\ \A q : Lone(tree, p, q) =>
           IF q \in D THEN Backing(st.tree, p) = B[q][p] /\ st.pt[p] = X[q][p]
           ELSE Backing(st.tree, p) = Backing(tree, p) /\ st.pt[p] = pt[p]
  BY <1>4, <1>6, PageAfter
<1>8. CASE Bare(tree, p)
  BY <1>7, <1>8 DEF Bare
<1>9. ASSUME NEW q, Lone(tree, p, q)
      PROVE  IF a <= p /\ p < b /\ ~Untouchable(p)
             THEN Backing(st.tree, p) = {} /\ (Backing(tree, p) # {} => st.pt[p] = Absent)
             ELSE Backing(st.tree, p) = Backing(tree, p) /\ st.pt[p] = pt[p]
  <2>1. (Untouchable(p) <=> tree[q].untouchable) /\ q \in 1 .. Len(tree)
        /\ Backing(tree, p) = {View(tree[q], p)}
    BY <1>9, StackPage DEF Lone
  <2>2. CASE a <= p /\ p < b /\ ~Untouchable(p)
    <3>1. q \in D
      BY <1>2, <1>3, <1>4, <1>5, <1>9, <2>1, <2>2, PageHit
    <3>2. B[q][p] = {} /\ X[q][p] = Absent
      BY <1>5, <2>1, <2>2 DEF Gone, Cleared
    <3>. QED
      BY <1>7, <1>9, <2>2, <3>1, <3>2
  <2>3. CASE ~(a <= p /\ p < b /\ ~Untouchable(p))
    <3>1. ASSUME q \in D PROVE B[q][p] = Backing(tree, p) /\ X[q][p] = pt[p]
      <4>1. ~(a <= p /\ p < b)
        BY <1>5, <2>1, <2>3, <3>1 DEF Hit, Affected
      <4>. QED
        BY <1>5, <2>1, <4>1 DEF Gone, Cleared
    <3>. QED
      BY <1>7, <1>9, <2>3, <3>1
  <2>. QED
    BY <2>2, <2>3
<1>. QED
  BY <1>3, <1>4, <1>8, <1>9, PageCases

LEMMA ProtectIsExact ==
  ASSUME VmInv, TablesKnown, Tidy
  PROVE  ProtectExact
<1>. DEFINE Goal(st, range, prot) ==
              IF st.failed THEN \E p \in range : Backing(tree, p) # {} /\ pt[p] = Absent
              ELSE \A p \in Pages :
                IF p \in range /\ Backing(tree, p) # {}
                THEN /\ Backing(st.tree, p) = {[b EXCEPT !.prot = prot] : b \in Backing(tree, p)}
                     /\ st.pt[p].prot = prot
                     /\ st.pt[p].frame = IF pt[p].frame = Nothing THEN PageZero ELSE pt[p].frame
                ELSE Backing(st.tree, p) = Backing(tree, p) /\ st.pt[p] = pt[p]
<1>a. SUFFICES ASSUME NEW a \in Pages, NEW n \in Lengths, NEW prot \in Prots
               PROVE  Goal(Protect(State, a, a + n, prot),
                           {p \in Pages : a <= p /\ p < a + n /\ ~Untouchable(p)}, prot)
  BY Zenon DEF ProtectExact
<1>1. PICK st, range :
        /\ st = Protect(State, a, a + n, prot)
        /\ range = {p \in Pages : a <= p /\ p < a + n /\ ~Untouchable(p)}
  OBVIOUS
<1>b. SUFFICES Goal(st, range, prot)
  <2>. HIDE DEF Goal
  <2>. QED
    BY <1>1
<1>2. a \in Nat /\ n \in Nat /\ a + n \in Nat /\ a <= a + n /\ prot \in Prot
  BY Bounds DEF Pages, Prot
<1>3. PICK b : b = a + n /\ b \in Nat
  BY <1>2
<1>4. /\ State \in States /\ Good(State.tree) /\ NoEmpty(State.tree)
      /\ State.tree = tree /\ State.pt = pt /\ ~State.failed
  BY StateFacts, MatchState
<1>5. PICK D, B, X :
        /\ D = Hit(tree, a, b) /\ B = Changed(tree, a, b, prot) /\ X = Reset(tree, a, b, pt, prot)
  OBVIOUS
<1>6. IF st.failed
      THEN \E q \in D, p \in Pages : Covers(tree[q], p) /\ a <= p /\ p < b /\ TableOf(p) \notin tables
      ELSE PageInv(tree, D, B, X, Len(tree), st.tree, pt, st.pt)
  BY <1>1, <1>2, <1>3, <1>4, <1>5, ProtectEnd
<1>7. CASE st.failed
  <2>1. PICK q \in D, p \in Pages :
          Covers(tree[q], p) /\ a <= p /\ p < b /\ TableOf(p) \notin tables
    BY <1>6, <1>7
  <2>2. q \in 1 .. Len(tree) /\ ~tree[q].untouchable /\ p \in Nat
    BY <1>5, Bounds DEF Hit, Affected, Pages
  <2>3. Covering(tree, p) = {tree[q]}
    BY <1>4, <2>1, <2>2, SingleCover
  <2>4. Backing(tree, p) # {} /\ ~Untouchable(p)
    BY <2>2, <2>3 DEF Backing, Untouchable
  <2>5. pt[p] = Absent
    BY <2>1 DEF TablesKnown, Tidy
  <2>6. p \in range
    BY <1>1, <1>3, <2>1, <2>4
  <2>. QED
    BY <1>7, <2>4, <2>5, <2>6
<1>8. CASE ~st.failed
  <2>1. SUFFICES ASSUME NEW p \in Pages
                 PROVE  IF p \in range /\ Backing(tree, p) # {}
                        THEN /\ Backing(st.tree, p) = {[c EXCEPT !.prot = prot] : c \in Backing(tree, p)}
                             /\ st.pt[p].prot = prot
                             /\ st.pt[p].frame = IF pt[p].frame = Nothing THEN PageZero ELSE pt[p].frame
                        ELSE Backing(st.tree, p) = Backing(tree, p) /\ st.pt[p] = pt[p]
    BY <1>8
  <2>2. /\ Bare(tree, p) => Backing(st.tree, p) = {} /\ st.pt[p] = pt[p]
        /\ \A q : Lone(tree, p, q) =>
             IF q \in D THEN Backing(st.tree, p) = B[q][p] /\ st.pt[p] = X[q][p]
             ELSE Backing(st.tree, p) = Backing(tree, p) /\ st.pt[p] = pt[p]
    <3>1. PageInv(tree, D, B, X, Len(tree), st.tree, pt, st.pt)
      BY <1>6, <1>8
    <3>. QED
      BY <1>4, <3>1, PageAfter
  <2>3. CASE Bare(tree, p)
    BY <2>2, <2>3 DEF Bare
  <2>4. ASSUME NEW q, Lone(tree, p, q)
        PROVE  IF p \in range /\ Backing(tree, p) # {}
               THEN /\ Backing(st.tree, p) = {[c EXCEPT !.prot = prot] : c \in Backing(tree, p)}
                    /\ st.pt[p].prot = prot
                    /\ st.pt[p].frame = IF pt[p].frame = Nothing THEN PageZero ELSE pt[p].frame
               ELSE Backing(st.tree, p) = Backing(tree, p) /\ st.pt[p] = pt[p]
    <3>1. (Untouchable(p) <=> tree[q].untouchable) /\ q \in 1 .. Len(tree)
          /\ Backing(tree, p) = {View(tree[q], p)}
      BY <2>4, StackPage DEF Lone
    <3>2. CASE p \in range
      <4>0. a <= p /\ p < b /\ ~Untouchable(p)
        BY <1>1, <1>3, <3>2
      <4>1. q \in D
        BY <1>2, <1>3, <1>4, <1>5, <2>4, <3>1, <4>0, PageHit
      <4>2. B[q][p] = {[View(tree[q], p) EXCEPT !.prot = prot]} /\ X[q][p] = Entry(pt[p], prot)
        BY <1>5, <3>1, <4>0 DEF Changed, Reset
      <4>3. /\ Entry(pt[p], prot).prot = prot
            /\ Entry(pt[p], prot).frame = IF pt[p].frame = Nothing THEN PageZero ELSE pt[p].frame
        BY DEF Entry
      <4>. QED
        BY <2>2, <2>4, <3>1, <3>2, <4>1, <4>2, <4>3
    <3>3. CASE p \notin range
      <4>1. ASSUME q \in D PROVE B[q][p] = Backing(tree, p) /\ X[q][p] = pt[p]
        <5>1. ~(a <= p /\ p < b)
          BY <1>1, <1>3, <1>5, <3>1, <3>3, <4>1 DEF Hit, Affected
        <5>. QED
          BY <1>5, <3>1, <5>1 DEF Changed, Reset
      <4>. QED
        BY <2>2, <2>4, <3>3, <4>1
    <3>. QED
      BY <3>2, <3>3
  <2>. QED
    BY <1>4, <2>3, <2>4, PageCases
<1>. QED
  BY <1>7, <1>8

\* The rest map() leaves of a mapping that began at or before the range keeps
\* the pages of its object.
LEMMA RestKept ==
  ASSUME NEW e \in Mappings, NEW a \in Nat, NEW b \in Nat, a <= b, Overlaps(e, a, b),
         NEW p \in Nat, Covers(e, p), b <= p
  PROVE  /\ View(RestOf(e, a, b), p).obj = View(e, p).obj
         /\ e.startp <= a => View(RestOf(e, a, b), p) = View(e, p)
<1>1. PICK m : m = RestOf(e, a, b)
  OBVIOUS
<1>2. /\ m.startp = Smaller(b, e.endp) /\ m.offsetp = e.offsetp + HeadPages(e, a) + (b - a)
      /\ m.obj = e.obj /\ m.prot = e.prot /\ m.private = e.private
  BY <1>1, RestFacts DEF Piece
<1>3. m.startp = b
  BY <1>2, MappingFacts DEF Covers, Smaller
<1>4. e.startp <= a => m.offsetp + (p - m.startp) = e.offsetp + (p - e.startp)
  BY <1>2, <1>3, MappingFacts DEF HeadPages
<1>. QED
  BY <1>1, <1>2, <1>4 DEF View

LEMMA MapIsExact ==
  ASSUME VmInv, Tidy
  PROVE  MapExact
<1>. DEFINE Exact(a, c, st, new, p) ==
              IF a <= p /\ p < c
              THEN Backing(st.tree, p) = Backing(<<new>>, p) /\ st.pt[p] = Absent
              ELSE /\ st.pt[p] = pt[p]
                   /\ {b.obj : b \in Backing(st.tree, p)} = {b.obj : b \in Backing(tree, p)}
                   /\ (\A m \in Covering(tree, p) : m.startp <= a \/ m.startp >= c)
                        => Backing(st.tree, p) = Backing(tree, p)
<1>a. SUFFICES ASSUME NEW a \in Pages \ {0}, NEW n \in Lengths \ {0}, NEW o \in Anon,
                      NEW unt \in BOOLEAN
               PROVE  a + n <= NumPages
                        /\ ~Map(State, a, a + n, NewMapping(a, n, o, 0, "rw", TRUE, unt)).failed =>
                      \A p \in Pages :
                        Exact(a, a + n, Map(State, a, a + n, NewMapping(a, n, o, 0, "rw", TRUE, unt)),
                              NewMapping(a, n, o, 0, "rw", TRUE, unt), p)
  BY Zenon DEF MapExact
<1>b. PICK new, st :
        new = NewMapping(a, n, o, 0, "rw", TRUE, unt) /\ st = Map(State, a, a + n, new)
  OBVIOUS
<1>1. SUFFICES ASSUME a + n <= NumPages, ~st.failed, NEW p \in Pages
               PROVE  Exact(a, a + n, st, new, p)
  <2>. HIDE DEF Exact
  <2>. QED
    BY <1>b
<1>2. a \in Nat /\ n \in Nat /\ a + n \in Nat /\ a <= a + n /\ Pages \subseteq Nat
  BY Bounds DEF Pages
<1>3. PICK b : b = a + n /\ b \in Nat /\ a <= b /\ b <= NumPages
  BY <1>1, <1>2
<1>4. /\ State \in States /\ Good(State.tree) /\ NoEmpty(State.tree)
      /\ State.tree = tree /\ State.pt = pt
  BY StateFacts, MatchState
<1>5. new \in Mappings /\ new.startp = a /\ new.endp = b
  BY <1>b, <1>1, <1>2, <1>3, Bounds DEF NewMapping, Mappings, Objects
<1>6. PICK D, B, X : D = Met(tree, a, b) /\ B = Moved(tree, a, b) /\ X = Cleared(tree, a, b, pt)
  OBVIOUS
<1>7. PICK u :
        /\ PageInv(tree, D, B, X, Len(tree), u, pt, st.pt)
        /\ \A q \in Pages : Covering(st.tree, q) = IF Covers(new, q) THEN {new} ELSE Covering(u, q)
  <2>1. MapOutcome(State.tree, a, b, State.pt, new, Map(State, a, b, new))
    BY <1>2, <1>3, <1>4, <1>5, MapEnd
  <2>2. MapOutcome(tree, a, b, pt, new, st)
    BY <1>b, <1>3, <1>4, <2>1
  <2>. QED
    BY <1>1, <1>6, <2>2 DEF MapOutcome
<1>8. /\ Bare(tree, p) => Backing(u, p) = {} /\ st.pt[p] = pt[p]
      /\ \A q : Lone(tree, p, q) =>
           IF q \in D THEN Backing(u, p) = B[q][p] /\ st.pt[p] = X[q][p]
           ELSE Backing(u, p) = Backing(tree, p) /\ st.pt[p] = pt[p]
  BY <1>4, <1>7, PageAfter
<1>9. CASE a <= p /\ p < b
  <2>1. Covers(new, p)
    BY <1>5, <1>9 DEF Covers
  <2>2. Covering(st.tree, p) = {new}
    BY <1>7, <2>1
  <2>3. Range(<<new>>) = {new}
    BY DEF Range
  <2>4. Covering(<<new>>, p) = {new}
    BY <2>1, <2>3 DEF Covering
  <2>5. Backing(st.tree, p) = Backing(<<new>>, p)
    BY <2>2, <2>4, BackingViews
  <2>6. ASSUME Bare(tree, p) PROVE st.pt[p] = Absent
    BY <1>8, <2>6 DEF Bare, Tidy
  <2>7. ASSUME NEW q, Lone(tree, p, q) PROVE st.pt[p] = Absent
    <3>1. q \in D /\ q \in 1 .. Len(tree)
      BY <1>2, <1>3, <1>4, <1>6, <1>9, <2>7, PageHit DEF Lone
    <3>2. X[q][p] = Absent
      BY <1>6, <1>9, <3>1 DEF Cleared
    <3>. QED
      BY <1>8, <2>7, <3>1, <3>2
  <2>8. st.pt[p] = Absent
    BY <1>4, <2>6, <2>7, PageCases
  <2>. QED
    BY <1>3, <1>9, <2>5, <2>8
<1>10. CASE ~(a <= p /\ p < b)
  <2>1. ~Covers(new, p)
    BY <1>5, <1>10 DEF Covers
  <2>2. Covering(st.tree, p) = Covering(u, p)
    BY <1>7, <2>1
  <2>3. Backing(st.tree, p) = Backing(u, p)
    BY <2>2, BackingViews
  <2>. DEFINE Goal ==
                /\ st.pt[p] = pt[p]
                /\ {c.obj : c \in Backing(st.tree, p)} = {c.obj : c \in Backing(tree, p)}
                /\ (\A m \in Covering(tree, p) : m.startp <= a \/ m.startp >= b)
                     => Backing(st.tree, p) = Backing(tree, p)
  <2>4. ASSUME Bare(tree, p) PROVE Goal
    <3>1. Backing(st.tree, p) = Backing(tree, p) /\ st.pt[p] = pt[p]
      BY <1>8, <2>3, <2>4 DEF Bare
    <3>. QED
      BY <3>1
  <2>5. ASSUME NEW q, Lone(tree, p, q) PROVE Goal
    <3>1. /\ q \in 1 .. Len(tree) /\ Covering(tree, p) = {tree[q]} /\ Covers(tree[q], p)
          /\ Backing(tree, p) = {View(tree[q], p)}
      BY <2>5 DEF Lone
    <3>2. CASE q \notin D
      <4>1. Backing(st.tree, p) = Backing(tree, p) /\ st.pt[p] = pt[p]
        BY <1>8, <2>3, <2>5, <3>2
      <4>. QED
        BY <4>1
    <3>3. CASE q \in D
      <4>1. Backing(st.tree, p) = B[q][p] /\ st.pt[p] = X[q][p]
        BY <1>8, <2>3, <2>5, <3>3
      <4>2. st.pt[p] = pt[p]
        BY <1>6, <1>10, <3>1, <4>1 DEF Cleared
      <4>3. CASE p < a
        <5>1. Backing(st.tree, p) = Backing(tree, p)
          BY <1>6, <1>10, <3>1, <4>1, <4>3 DEF Moved
        <5>. QED
          BY <4>2, <5>1
      <4>4. CASE ~(p < a)
        <5>1. PICK f \in Mappings : f = tree[q]
          BY <1>4, <3>1, MemberOf DEF Good
        <5>2. Overlaps(f, a, b) /\ Covers(f, p) /\ p \in Nat /\ b <= p
          BY <1>2, <1>3, <1>6, <1>10, <3>1, <3>3, <4>4, <5>1 DEF Met
        <5>3. PICK v, w : v = View(RestOf(f, a, b), p) /\ w = View(f, p)
          OBVIOUS
        <5>4. v.obj = w.obj /\ (f.startp <= a => v = w)
          BY <1>2, <1>3, <5>2, <5>3, RestKept
        <5>5. Backing(st.tree, p) = {v} /\ Backing(tree, p) = {w}
          BY <1>6, <1>10, <3>1, <4>1, <4>4, <5>1, <5>3 DEF Moved
        <5>6. f.startp < b /\ f.startp \in Nat
          BY <5>2, MappingFacts DEF Overlaps
        <5>7. (\A m \in Covering(tree, p) : m.startp <= a \/ m.startp >= b) => f.startp <= a
          BY <1>3, <3>1, <5>1, <5>6
        <5>8. {c.obj : c \in {v}} = {c.obj : c \in {w}}
          BY <5>4
        <5>. QED
          BY <4>2, <5>4, <5>5, <5>7, <5>8
      <4>. QED
        BY <4>3, <4>4
    <3>. QED
      BY <3>2, <3>3
  <2>6. Goal
    <3>. HIDE DEF Goal
    <3>. QED
      BY <1>4, <2>4, <2>5, PageCases
  <2>. QED
    BY <1>3, <1>10, <2>6
<1>. QED
  BY <1>3, <1>9, <1>10

(***************************************************************************)
(* On an address space of any size, from a tidy state, munmap(),           *)
(* mprotect() and map() change exactly the pages they are asked to change, *)
(* in the tree and in the page table, whatever mappings they have to       *)
(* split; mprotect() puts physical page 0 behind the entries of mapped     *)
(* pages that were empty.                                                  *)
(***************************************************************************)
THEOREM ChangesExactInvariant ==
  Spec => []ChangesExact
<1>1. Init => TablesKnown
  BY DEF Init, TablesKnown
<1>2. VmInv /\ TablesKnown => ChangesExact
  <2>1. SUFFICES ASSUME VmInv, TablesKnown PROVE ChangesExact
    OBVIOUS
  <2>2. CASE Tidy
    BY <2>1, <2>2, UnmapIsExact, ProtectIsExact, MapIsExact DEF ChangesExact
  <2>3. CASE ~Tidy
    BY <2>3 DEF ChangesExact, UnmapExact, ProtectExact, MapExact
  <2>. QED
    BY <2>2, <2>3
<1>. QED
  BY <1>1, <1>2, InitInv, NextInv, NextKnown, PTL DEF Spec

=============================================================================
