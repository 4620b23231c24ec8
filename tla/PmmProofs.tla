----------------------------- MODULE PmmProofs ------------------------------
(***************************************************************************)
(* What is proved of the physical memory manager, for every memory map,    *)
(* every bound on the order of blocks and every sequence of calls:         *)
(*   MemoryAccountedInvariant  no page is lost or in two blocks, and       *)
(*                             struct page tells the truth                 *)
(*                                                                         *)
(* The invariant (Sound) speaks of the first pages of blocks, the heads: a *)
(* page is the head of a block exactly while it is on a free list or       *)
(* marked allocated, the blocks tile the memory the allocators were given, *)
(* and next_paddr of a head is 0 or the page behind its block, in the same *)
(* zone.  That makes the test of coalesce_to() sufficient: the page behind *)
(* a block is in some block and can only be its head, so that what its     *)
(* struct page says is true.                                               *)
(***************************************************************************)
EXTENDS Pmm, FiniteSetTheorems, SequenceTheorems, WellFoundedInduction, TLAPS

-----------------------------------------------------------------------------
(* Numbers.                                                                *)

\* A set of natural numbers has a least element.
LEMMA LeastNatural ==
  ASSUME NEW T, T \subseteq Nat, T # {}
  PROVE  \E x \in T : \A y \in T : x <= y
<1>. DEFINE R == OpToRel(<, Nat)
<1>1. IsWellFoundedOn(R, Nat)
  BY NatLessThanWellFounded
<1>2. \E x \in T : \A y \in T : ~ (<<y, x>> \in R)
  <2>. HIDE DEF R
  <2>. QED BY <1>1, WFMin
<1>3. \A x, y \in Nat : y < x => <<y, x>> \in R
  BY DEF OpToRel
<1>. HIDE DEF R
<1>4. PICK x \in T : \A y \in T : ~ (<<y, x>> \in R)
  BY <1>2
<1>5. ASSUME NEW y \in T PROVE x <= y
  <2>1. x \in Nat /\ y \in Nat /\ ~ (y < x)
    BY <1>3, <1>4
  <2>. QED
    BY <2>1
<1>. QED
  BY <1>4, <1>5

\* A bounded one has a greatest.
LEMMA GreatestNatural ==
  ASSUME NEW n \in Nat, NEW T, T \subseteq 0..n, T # {}
  PROVE  \E x \in T : \A y \in T : x >= y
<1>. DEFINE U == {n - x : x \in T}
<1>1. U \subseteq Nat /\ U # {}
  <2>1. PICK x : x \in T
    OBVIOUS
  <2>2. n - x \in U
    BY <2>1
  <2>3. ASSUME NEW u \in U PROVE u \in Nat
    OBVIOUS
  <2>. HIDE DEF U
  <2>. QED
    BY <2>2, <2>3
<1>2. PICK u \in U : \A v \in U : u <= v
  <2>. HIDE DEF U
  <2>. QED BY <1>1, LeastNatural
<1>3. PICK x \in T : u = n - x
  OBVIOUS
<1>4. ASSUME NEW y \in T PROVE x >= y
  <2>1. n - y \in U /\ x \in Int /\ y \in Int
    OBVIOUS
  <2>2. u <= n - y
    BY <2>1, <1>2
  <2>. QED
    BY <2>1, <2>2, <1>3
<1>. QED
  BY <1>4

\* What holds at first and is kept by every step holds all along.
LEMMA Inductive ==
  ASSUME NEW n \in Nat, NEW S, S \subseteq 0..n, 0 \in S, \A i \in 1..n : i - 1 \in S => i \in S
  PROVE  S = 0..n
<1>. DEFINE T == 0..n \ S
<1>. SUFFICES ASSUME T # {}
              PROVE  FALSE
  OBVIOUS
<1>1. T \subseteq Nat
  OBVIOUS
<1>2. PICK k \in T : \A y \in T : k <= y
  BY <1>1, LeastNatural
<1>3. k \in 1..n /\ k - 1 \in 0..n /\ ~(k <= k - 1)
  OBVIOUS
<1>4. k - 1 \in S
  <2>1. k - 1 \notin T
    <3>. HIDE DEF T
    <3>. QED BY <1>2, <1>3
  <2>. QED
    BY <2>1, <1>3
<1>. QED
  BY <1>3, <1>4

\* Approximations of lib::pow2.
Doubles(n, g) == g \in [0..n -> Nat \ {0}] /\ g[0] = 1 /\ \A k \in 1..n : g[k] = 2 * g[k - 1]

LEMMA DoublesExist ==
  ASSUME NEW n \in Nat
  PROVE  \E g : Doubles(n, g)
<1>. DEFINE S == {k \in 0..n : \E g : Doubles(k, g)}
<1>1. 0 \in S
  <2>. DEFINE g == [i \in 0..0 |-> 1]
  <2>1. Doubles(0, g)
    BY DEF Doubles
  <2>. HIDE DEF g
  <2>. QED BY <2>1
<1>2. ASSUME NEW k \in 1..n, k - 1 \in S
      PROVE  k \in S
  <2>1. PICK h : Doubles(k - 1, h)
    BY <1>2
  <2>. DEFINE g == [i \in 0..k |-> IF i = k THEN 2 * h[k - 1] ELSE h[i]]
  <2>2. h[k - 1] \in Nat \ {0} /\ 2 * h[k - 1] \in Nat \ {0}
    BY <2>1 DEF Doubles
  <2>3. (\A i \in 0..(k - 1) : g[i] = h[i]) /\ g[k] = 2 * h[k - 1] /\ g \in [0..k -> Nat \ {0}]
    BY <2>1, <2>2 DEF Doubles
  <2>. HIDE DEF g
  <2>4. ASSUME NEW i \in 1..k PROVE g[i] = 2 * g[i - 1]
    <3>1. i - 1 \in 0..(k - 1) /\ (i = k \/ i \in 1..(k - 1))
      OBVIOUS
    <3>2. CASE i = k
      BY <3>1, <3>2, <2>3
    <3>3. CASE i \in 1..(k - 1)
      <4>1. h[i] = 2 * h[i - 1] /\ i \in 0..(k - 1)
        BY <3>3, <2>1 DEF Doubles
      <4>. QED
        BY <3>1, <4>1, <2>3
    <3>. QED
      BY <3>1, <3>2, <3>3
  <2>5. g[0] = 1
    BY <2>1, <2>3 DEF Doubles
  <2>6. Doubles(k, g) /\ k \in 0..n
    BY <2>3, <2>4, <2>5 DEF Doubles
  <2>. QED
    BY <2>6
<1>3. S \subseteq 0..n
  OBVIOUS
<1>. HIDE DEF S
<1>4. S = 0..n
  BY <1>1, <1>2, <1>3, Inductive
<1>5. n \in S
  BY <1>4
<1>. QED
  BY <1>5 DEF S

LEMMA DoublesAgree ==
  ASSUME NEW n \in Nat, NEW m \in 0..n, NEW g, NEW h, Doubles(n, g), Doubles(m, h)
  PROVE  g[m] = h[m]
<1>. DEFINE S == {k \in 0..m : g[k] = h[k]}
<1>1. 0 \in S
  BY DEF Doubles
<1>2. ASSUME NEW k \in 1..m, k - 1 \in S
      PROVE  k \in S
  <2>1. k \in 1..n /\ k \in 0..m
    OBVIOUS
  <2>. QED
    BY <1>2, <2>1 DEF Doubles
<1>3. S \subseteq 0..m /\ m \in Nat
  OBVIOUS
<1>. HIDE DEF S
<1>4. S = 0..m
  BY <1>1, <1>2, <1>3, Inductive
<1>5. m \in S
  BY <1>3, <1>4
<1>. QED
  BY <1>5 DEF S

\* Powers of two.
LEMMA PowFacts ==
  /\ Pow2[0] = 1
  /\ \A k \in Nat : Pow2[k] \in Nat \ {0} /\ Pow2[k + 1] = 2 * Pow2[k]
<1>. DEFINE A(n) == CHOOSE g : Doubles(n, g)
            f == [k \in Nat |-> A(k)[k]]
<1>1. ASSUME NEW k \in Nat PROVE Doubles(k, A(k))
  BY DoublesExist
<1>2. ASSUME NEW k \in Nat, k # 0
      PROVE  A(k)[k] = 2 * A(k - 1)[k - 1]
  <2>1. k \in 1..k /\ k - 1 \in 0..k /\ k - 1 \in Nat
    BY <1>2
  <2>2. Doubles(k, A(k)) /\ Doubles(k - 1, A(k - 1))
    BY <1>1, <2>1
  <2>. HIDE DEF A
  <2>3. A(k)[k] = 2 * A(k)[k - 1]
    BY <2>1, <2>2 DEF Doubles
  <2>4. A(k)[k - 1] = A(k - 1)[k - 1]
    BY <2>1, <2>2, DoublesAgree
  <2>. QED
    BY <2>3, <2>4
<1>3. A(0)[0] = 1
  <2>1. Doubles(0, A(0))
    BY <1>1
  <2>. QED
    BY <2>1 DEF Doubles
<1>. HIDE DEF A
<1>4. f = [k \in Nat |-> IF k = 0 THEN 1 ELSE 2 * f[k - 1]]
  <2>1. \A k \in Nat : k # 0 => f[k - 1] = A(k - 1)[k - 1]
    OBVIOUS
  <2>2. \A k \in Nat : A(k)[k] = IF k = 0 THEN 1 ELSE 2 * f[k - 1]
    BY <2>1, <1>2, <1>3
  <2>. QED
    BY <2>2
<1>. DEFINE e == CHOOSE g : g = [k \in Nat |-> IF k = 0 THEN 1 ELSE 2 * g[k - 1]]
<1>. HIDE DEF f
<1>5. e = [k \in Nat |-> IF k = 0 THEN 1 ELSE 2 * e[k - 1]]
  BY <1>4
<1>6. Pow2 = e
  BY DEF Pow2
<1>. HIDE DEF e
<1>7. \A k \in Nat : Pow2[k] = IF k = 0 THEN 1 ELSE 2 * Pow2[k - 1]
  BY <1>5, <1>6
<1>8. ASSUME NEW n \in Nat PROVE Pow2[n] \in Nat \ {0}
  <2>. DEFINE S == {k \in 0..n : Pow2[k] \in Nat \ {0}}
  <2>1. 0 \in S
    BY <1>7
  <2>2. ASSUME NEW k \in 1..n, k - 1 \in S PROVE k \in S
    <3>1. k \in Nat /\ k # 0
      OBVIOUS
    <3>2. Pow2[k] = 2 * Pow2[k - 1]
      BY <3>1, <1>7
    <3>. QED
      BY <2>2, <3>2
  <2>3. S \subseteq 0..n
    OBVIOUS
  <2>. HIDE DEF S
  <2>4. S = 0..n
    BY <2>1, <2>2, <2>3, Inductive
  <2>5. n \in S
    BY <2>4
  <2>. QED
    BY <2>5 DEF S
<1>9. ASSUME NEW k \in Nat PROVE Pow2[k + 1] = 2 * Pow2[k]
  <2>1. k + 1 \in Nat /\ k + 1 # 0 /\ (k + 1) - 1 = k
    OBVIOUS
  <2>. QED
    BY <2>1, <1>7
<1>. QED
  BY <1>7, <1>8, <1>9

\* A power outgrows its exponent.
LEMMA PowLarge ==
  ASSUME NEW n \in Nat
  PROVE  Pow2[n] > n
<1>. DEFINE S == {k \in 0..n : Pow2[k] > k}
<1>1. 0 \in S
  BY PowFacts
<1>2. ASSUME NEW k \in 1..n, k - 1 \in S PROVE k \in S
  <2>1. k - 1 \in Nat /\ (k - 1) + 1 = k
    OBVIOUS
  <2>2. Pow2[k] = 2 * Pow2[k - 1] /\ Pow2[k - 1] > k - 1 /\ Pow2[k - 1] \in Nat
    BY <1>2, <2>1, PowFacts
  <2>. QED
    BY <2>2
<1>3. S \subseteq 0..n
  OBVIOUS
<1>. HIDE DEF S
<1>4. S = 0..n
  BY <1>1, <1>2, <1>3, Inductive
<1>5. n \in S
  BY <1>4
<1>. QED
  BY <1>5 DEF S

\* The order of an allocation: its block holds what was asked for.
LEMMA NextOrderFits ==
  ASSUME NEW n \in Nat \ {0}
  PROVE  NextOrder(n) \in Nat /\ Pow2[NextOrder(n)] >= n
<1>. DEFINE T == {k \in Nat : Pow2[k] >= n}
<1>1. n \in T /\ T \subseteq Nat
  BY PowLarge, PowFacts
<1>2. PICK k \in T : \A y \in T : k <= y
  <2>. HIDE DEF T
  <2>. QED BY <1>1, LeastNatural
<1>3. k \in 0..n /\ Pow2[k] >= n
  BY <1>1, <1>2
<1>4. k = 0 \/ Pow2[k - 1] < n
  <2>. SUFFICES ASSUME k # 0 PROVE Pow2[k - 1] < n
    OBVIOUS
  <2>1. k - 1 \in Nat /\ ~(k <= k - 1)
    BY <1>3
  <2>2. k - 1 \notin T
    BY <1>2, <2>1
  <2>3. Pow2[k - 1] \in Nat
    BY <2>1, PowFacts
  <2>. QED
    BY <2>1, <2>2, <2>3
<1>5. NextOrder(n) \in 0..n /\ Pow2[NextOrder(n)] >= n
  BY <1>3, <1>4 DEF NextOrder
<1>. QED
  BY <1>5

\* The order of a piece of a range: it fits in.
LEMMA PrevOrderFits ==
  ASSUME NEW n \in Nat \ {0}
  PROVE  PrevOrder(n) \in Nat /\ Pow2[PrevOrder(n)] <= n
<1>. DEFINE T == {k \in Nat : Pow2[k + 1] > n}
<1>0. Pow2[n + 1] > n
  <2>1. Pow2[n + 1] = 2 * Pow2[n] /\ Pow2[n] > n /\ Pow2[n] \in Nat
    BY PowLarge, PowFacts
  <2>. QED BY <2>1
<1>1. n \in T /\ T \subseteq Nat
  BY <1>0
<1>2. PICK k \in T : \A y \in T : k <= y
  <2>. HIDE DEF T
  <2>. QED BY <1>1, LeastNatural
<1>3. k \in 0..n /\ Pow2[k + 1] > n
  BY <1>1, <1>2
<1>4. Pow2[k] <= n
  <2>1. CASE k = 0
    BY <2>1, PowFacts
  <2>2. CASE k # 0
    <3>1. k - 1 \in Nat /\ ~(k <= k - 1) /\ (k - 1) + 1 = k
      BY <2>2, <1>3
    <3>2. k - 1 \notin T
      BY <1>2, <3>1
    <3>3. Pow2[k] \in Nat
      BY <1>3, PowFacts
    <3>. QED
      BY <3>1, <3>2, <3>3
  <2>. QED
    BY <2>1, <2>2
<1>5. PrevOrder(n) \in 0..n /\ Pow2[PrevOrder(n)] <= n
  BY <1>3, <1>4 DEF PrevOrder
<1>. QED
  BY <1>5

\* Larger orders are larger blocks.
LEMMA PowMonotone ==
  ASSUME NEW m \in Nat, NEW k \in 0..m
  PROVE  Pow2[k] <= Pow2[m]
<1>. DEFINE n == m - k
            S == {i \in 0..n : Pow2[k] <= Pow2[k + i]}
<1>0. n \in Nat /\ k \in Nat /\ k + n = m
  OBVIOUS
<1>1. 0 \in S
  BY <1>0, PowFacts
<1>2. ASSUME NEW i \in 1..n, i - 1 \in S PROVE i \in S
  <2>1. k + (i - 1) \in Nat /\ (k + (i - 1)) + 1 = k + i /\ k \in Nat
    BY <1>0
  <2>2. Pow2[k + i] = 2 * Pow2[k + (i - 1)] /\ Pow2[k + (i - 1)] \in Nat /\ Pow2[k] \in Nat
    BY <2>1, PowFacts
  <2>. QED
    BY <1>2, <2>2
<1>3. S \subseteq 0..n
  OBVIOUS
<1>. HIDE DEF S
<1>4. S = 0..n
  BY <1>0, <1>1, <1>2, <1>3, Inductive
<1>5. n \in S
  BY <1>0, <1>4
<1>. QED
  BY <1>0, <1>5 DEF S

\* The halves of an aligned block are aligned.
LEMMA HalvesAligned ==
  ASSUME NEW pg \in Nat, NEW k \in Nat, Aligned(pg, k + 1)
  PROVE  Aligned(pg, k) /\ Aligned(pg + Pow2[k], k)
<1>1. PICK m \in Nat \ {0} : m = Pow2[k]
  BY PowFacts
<1>2. Pow2[k + 1] = 2 * m /\ pg % (2 * m) = 0
  BY <1>1, PowFacts DEF Aligned
<1>. DEFINE d == 2 * m
            j == pg \div d
<1>3. d \in Nat \ {0}
  OBVIOUS
<1>4. j \in Nat /\ pg = (d * j) + (pg % d)
  <2>. HIDE DEF d
  <2>. QED BY <1>3
<1>. HIDE DEF j
<1>5. pg = (2 * j) * m /\ pg + m = (2 * j + 1) * m
  BY <1>2, <1>4
<1>6. \A i \in Nat : (i * m) % m = 0
  OBVIOUS
<1>. QED
  BY <1>1, <1>4, <1>5, <1>6 DEF Aligned

\* Every page is a block of order 0.
LEMMA PagesAligned ==
  ASSUME NEW pg \in Nat
  PROVE  Aligned(pg, 0)
  BY PowFacts DEF Aligned

-----------------------------------------------------------------------------
(* What the loops compute: each has a sequence of states in which one      *)
(* follows from the one before.                                            *)

PmType ==
  [lists : [Zones -> [Orders -> Seq(Pages)]], next : [Pages -> Pages],
   order : [Pages -> Orders], allocated : [Pages -> BOOLEAN]]

\* The arguments they are called with.
AddArgs(p, z, base, end) == p \in PmType /\ z \in Zones /\ base \in Nat /\ end \in Nat /\ base <= end
SplitArgs(p, z, top, target) ==
  p \in PmType /\ z \in Zones /\ top \in Nat /\ target \in Nat /\ target <= top
MergeArgs(p, z, order) == p \in PmType /\ z \in Zones /\ Len(p.lists[z][order]) \in Nat
CoalesceArgs(p, z, target) == p \in PmType /\ z \in Zones /\ target \in Nat
MapArgs(st) == st.pm \in PmType /\ Len(MemMap) \in Nat /\ PfndbPages \in Nat

\* add_range(), block by block.
LEMMA AddBlocksSteps ==
  ASSUME NEW p, NEW z, NEW base, NEW end, AddArgs(p, z, base, end)
  PROVE  \E g : /\ DOMAIN g = 0..(end - base) /\ g[0] = [pm |-> p, base |-> base]
                /\ \A i \in 1..(end - base) : g[i] = AddBlock(g[i - 1], z, end)
                /\ AddBlocks(p, z, base, end) = g[end - base].pm
<1>. DEFINE n == end - base
            a == [pm |-> p, base |-> base]
            S == {k \in 0..n : \E g : /\ DOMAIN g = 0..k /\ g[0] = a
                                      /\ \A i \in 1..k : g[i] = AddBlock(g[i - 1], z, end)}
<1>0. n \in Nat
  BY DEF AddArgs
<1>1. 0 \in S
  <2>. DEFINE g == [i \in 0..0 |-> a]
  <2>. HIDE DEF a, n
  <2>1. DOMAIN g = 0..0 /\ g[0] = a /\ \A i \in 1..0 : g[i] = AddBlock(g[i - 1], z, end)
    OBVIOUS
  <2>. HIDE DEF g
  <2>. QED
    BY <1>0, <2>1
<1>2. ASSUME NEW k \in 1..n, k - 1 \in S
      PROVE  k \in S
  <2>. HIDE DEF a
  <2>1. PICK h : /\ DOMAIN h = 0..(k - 1) /\ h[0] = a
                 /\ \A i \in 1..(k - 1) : h[i] = AddBlock(h[i - 1], z, end)
    BY <1>2
  <2>. DEFINE x == AddBlock(h[k - 1], z, end)
              g == [i \in 0..k |-> IF i = k THEN x ELSE h[i]]
  <2>. HIDE DEF x, n
  <2>2. (\A i \in 0..(k - 1) : g[i] = h[i]) /\ g[k] = x /\ DOMAIN g = 0..k
    BY <1>0
  <2>. HIDE DEF g
  <2>3. ASSUME NEW i \in 1..k
        PROVE  g[i] = AddBlock(g[i - 1], z, end)
    <3>1. g[i - 1] = h[i - 1]
      BY <1>0, <2>2
    <3>2. CASE i = k
      BY <3>1, <3>2, <2>2 DEF x
    <3>3. CASE i # k
      <4>1. i \in 1..(k - 1) /\ i \in 0..(k - 1)
        BY <1>0, <3>3
      <4>. QED
        BY <3>1, <4>1, <2>1, <2>2
    <3>. QED
      BY <3>2, <3>3
  <2>4. g[0] = a /\ k \in 0..n
    BY <1>0, <2>1, <2>2
  <2>5. \E y : /\ DOMAIN y = 0..k /\ y[0] = a
               /\ \A i \in 1..k : y[i] = AddBlock(y[i - 1], z, end)
    BY <2>2, <2>3, <2>4
  <2>. QED
    BY <2>4, <2>5
<1>3. n \in S
  <2>1. S \subseteq 0..n
    OBVIOUS
  <2>. HIDE DEF S, n
  <2>2. S = 0..n
    BY <1>0, <1>1, <1>2, <2>1, Inductive
  <2>. QED
    BY <1>0, <2>2
<1>. DEFINE f == CHOOSE g : g = [i \in 0..n |-> IF i = 0 THEN a ELSE AddBlock(g[i - 1], z, end)]
<1>4. f = [i \in 0..n |-> IF i = 0 THEN a ELSE AddBlock(f[i - 1], z, end)]
  <2>. HIDE DEF a
  <2>1. PICK h : /\ DOMAIN h = 0..n /\ h[0] = a
                 /\ \A i \in 1..n : h[i] = AddBlock(h[i - 1], z, end)
    BY <1>3
  <2>. HIDE DEF n
  <2>. DEFINE e == [i \in 0..n |-> h[i]]
  <2>2. \A i \in 0..n : e[i] = h[i] /\ (i # 0 => i \in 1..n /\ e[i - 1] = h[i - 1])
    BY <1>0
  <2>3. \A i \in 0..n : h[i] = IF i = 0 THEN a ELSE AddBlock(e[i - 1], z, end)
    <3>. HIDE DEF e
    <3>. QED BY <2>1, <2>2
  <2>4. e = [i \in 0..n |-> IF i = 0 THEN a ELSE AddBlock(e[i - 1], z, end)]
    BY <2>3
  <2>. HIDE DEF e
  <2>. QED
    BY <2>4
<1>5. AddBlocks(p, z, base, end) = f[n].pm
  BY DEF AddBlocks
<1>. HIDE DEF f, n, a
<1>6. DOMAIN f = 0..n /\ \A i \in 0..n : f[i] = IF i = 0 THEN a ELSE AddBlock(f[i - 1], z, end)
  BY <1>4, Zenon
<1>7. 0 \in 0..n /\ \A i \in 1..n : i \in 0..n /\ i # 0
  BY <1>0
<1>8. DOMAIN f = 0..n /\ f[0] = a /\ \A i \in 1..n : f[i] = AddBlock(f[i - 1], z, end)
  BY <1>6, <1>7
<1>. QED
  BY <1>5, <1>8 DEF n, a

\* split_to(), order by order.
LEMMA SplitDownSteps ==
  ASSUME NEW p, NEW z, NEW top, NEW target, SplitArgs(p, z, top, target)
  PROVE  \E g : /\ DOMAIN g = 0..(top - target) /\ g[0] = p
                /\ \A i \in 1..(top - target) : g[i] = SplitOnce(g[i - 1], z, top - i + 1)
                /\ SplitDown(p, z, top, target) = g[top - target]
<1>. DEFINE n == top - target
            a == p
            S == {k \in 0..n : \E g : /\ DOMAIN g = 0..k /\ g[0] = a
                                      /\ \A i \in 1..k : g[i] = SplitOnce(g[i - 1], z, top - i + 1)}
<1>0. n \in Nat
  BY DEF SplitArgs
<1>1. 0 \in S
  <2>. DEFINE g == [i \in 0..0 |-> a]
  <2>. HIDE DEF a, n
  <2>1. DOMAIN g = 0..0 /\ g[0] = a /\ \A i \in 1..0 : g[i] = SplitOnce(g[i - 1], z, top - i + 1)
    OBVIOUS
  <2>. HIDE DEF g
  <2>. QED
    BY <1>0, <2>1
<1>2. ASSUME NEW k \in 1..n, k - 1 \in S
      PROVE  k \in S
  <2>. HIDE DEF a
  <2>1. PICK h : /\ DOMAIN h = 0..(k - 1) /\ h[0] = a
                 /\ \A i \in 1..(k - 1) : h[i] = SplitOnce(h[i - 1], z, top - i + 1)
    BY <1>2
  <2>. DEFINE x == SplitOnce(h[k - 1], z, top - k + 1)
              g == [i \in 0..k |-> IF i = k THEN x ELSE h[i]]
  <2>. HIDE DEF x, n
  <2>2. (\A i \in 0..(k - 1) : g[i] = h[i]) /\ g[k] = x /\ DOMAIN g = 0..k
    BY <1>0
  <2>. HIDE DEF g
  <2>3. ASSUME NEW i \in 1..k
        PROVE  g[i] = SplitOnce(g[i - 1], z, top - i + 1)
    <3>1. g[i - 1] = h[i - 1]
      BY <1>0, <2>2
    <3>2. CASE i = k
      BY <3>1, <3>2, <2>2 DEF x
    <3>3. CASE i # k
      <4>1. i \in 1..(k - 1) /\ i \in 0..(k - 1)
        BY <1>0, <3>3
      <4>. QED
        BY <3>1, <4>1, <2>1, <2>2
    <3>. QED
      BY <3>2, <3>3
  <2>4. g[0] = a /\ k \in 0..n
    BY <1>0, <2>1, <2>2
  <2>5. \E y : /\ DOMAIN y = 0..k /\ y[0] = a
               /\ \A i \in 1..k : y[i] = SplitOnce(y[i - 1], z, top - i + 1)
    BY <2>2, <2>3, <2>4
  <2>. QED
    BY <2>4, <2>5
<1>3. n \in S
  <2>1. S \subseteq 0..n
    OBVIOUS
  <2>. HIDE DEF S, n
  <2>2. S = 0..n
    BY <1>0, <1>1, <1>2, <2>1, Inductive
  <2>. QED
    BY <1>0, <2>2
<1>. DEFINE f == CHOOSE g : g = [i \in 0..n |-> IF i = 0 THEN a ELSE SplitOnce(g[i - 1], z, top - i + 1)]
<1>4. f = [i \in 0..n |-> IF i = 0 THEN a ELSE SplitOnce(f[i - 1], z, top - i + 1)]
  <2>. HIDE DEF a
  <2>1. PICK h : /\ DOMAIN h = 0..n /\ h[0] = a
                 /\ \A i \in 1..n : h[i] = SplitOnce(h[i - 1], z, top - i + 1)
    BY <1>3
  <2>. HIDE DEF n
  <2>. DEFINE e == [i \in 0..n |-> h[i]]
  <2>2. \A i \in 0..n : e[i] = h[i] /\ (i # 0 => i \in 1..n /\ e[i - 1] = h[i - 1])
    BY <1>0
  <2>3. \A i \in 0..n : h[i] = IF i = 0 THEN a ELSE SplitOnce(e[i - 1], z, top - i + 1)
    <3>. HIDE DEF e
    <3>. QED BY <2>1, <2>2
  <2>4. e = [i \in 0..n |-> IF i = 0 THEN a ELSE SplitOnce(e[i - 1], z, top - i + 1)]
    BY <2>3
  <2>. HIDE DEF e
  <2>. QED
    BY <2>4
<1>5. SplitDown(p, z, top, target) = f[n]
  BY DEF SplitDown
<1>. HIDE DEF f, n, a
<1>6. DOMAIN f = 0..n /\ \A i \in 0..n : f[i] = IF i = 0 THEN a ELSE SplitOnce(f[i - 1], z, top - i + 1)
  BY <1>4, Zenon
<1>7. 0 \in 0..n /\ \A i \in 1..n : i \in 0..n /\ i # 0
  BY <1>0
<1>8. DOMAIN f = 0..n /\ f[0] = a /\ \A i \in 1..n : f[i] = SplitOnce(f[i - 1], z, top - i + 1)
  BY <1>6, <1>7
<1>. QED
  BY <1>5, <1>8 DEF n, a

\* coalesce_to(), merge by merge.
LEMMA CoalesceOrderSteps ==
  ASSUME NEW p, NEW z, NEW order, MergeArgs(p, z, order)
  PROVE  \E g : /\ DOMAIN g = 0..Len(p.lists[z][order]) /\ g[0] = p
                /\ \A i \in 1..Len(p.lists[z][order]) : g[i] = MergeOnce(g[i - 1], z, order)
                /\ CoalesceOrder(p, z, order) = g[Len(p.lists[z][order])]
<1>. DEFINE n == Len(p.lists[z][order])
            a == p
            S == {k \in 0..n : \E g : /\ DOMAIN g = 0..k /\ g[0] = a
                                      /\ \A i \in 1..k : g[i] = MergeOnce(g[i - 1], z, order)}
<1>0. n \in Nat
  BY DEF MergeArgs
<1>1. 0 \in S
  <2>. DEFINE g == [i \in 0..0 |-> a]
  <2>. HIDE DEF a, n
  <2>1. DOMAIN g = 0..0 /\ g[0] = a /\ \A i \in 1..0 : g[i] = MergeOnce(g[i - 1], z, order)
    OBVIOUS
  <2>. HIDE DEF g
  <2>. QED
    BY <1>0, <2>1
<1>2. ASSUME NEW k \in 1..n, k - 1 \in S
      PROVE  k \in S
  <2>. HIDE DEF a
  <2>1. PICK h : /\ DOMAIN h = 0..(k - 1) /\ h[0] = a
                 /\ \A i \in 1..(k - 1) : h[i] = MergeOnce(h[i - 1], z, order)
    BY <1>2
  <2>. DEFINE x == MergeOnce(h[k - 1], z, order)
              g == [i \in 0..k |-> IF i = k THEN x ELSE h[i]]
  <2>. HIDE DEF x, n
  <2>2. (\A i \in 0..(k - 1) : g[i] = h[i]) /\ g[k] = x /\ DOMAIN g = 0..k
    BY <1>0
  <2>. HIDE DEF g
  <2>3. ASSUME NEW i \in 1..k
        PROVE  g[i] = MergeOnce(g[i - 1], z, order)
    <3>1. g[i - 1] = h[i - 1]
      BY <1>0, <2>2
    <3>2. CASE i = k
      BY <3>1, <3>2, <2>2 DEF x
    <3>3. CASE i # k
      <4>1. i \in 1..(k - 1) /\ i \in 0..(k - 1)
        BY <1>0, <3>3
      <4>. QED
        BY <3>1, <4>1, <2>1, <2>2
    <3>. QED
      BY <3>2, <3>3
  <2>4. g[0] = a /\ k \in 0..n
    BY <1>0, <2>1, <2>2
  <2>5. \E y : /\ DOMAIN y = 0..k /\ y[0] = a
               /\ \A i \in 1..k : y[i] = MergeOnce(y[i - 1], z, order)
    BY <2>2, <2>3, <2>4
  <2>. QED
    BY <2>4, <2>5
<1>3. n \in S
  <2>1. S \subseteq 0..n
    OBVIOUS
  <2>. HIDE DEF S, n
  <2>2. S = 0..n
    BY <1>0, <1>1, <1>2, <2>1, Inductive
  <2>. QED
    BY <1>0, <2>2
<1>. DEFINE f == CHOOSE g : g = [i \in 0..n |-> IF i = 0 THEN a ELSE MergeOnce(g[i - 1], z, order)]
<1>4. f = [i \in 0..n |-> IF i = 0 THEN a ELSE MergeOnce(f[i - 1], z, order)]
  <2>. HIDE DEF a
  <2>1. PICK h : /\ DOMAIN h = 0..n /\ h[0] = a
                 /\ \A i \in 1..n : h[i] = MergeOnce(h[i - 1], z, order)
    BY <1>3
  <2>. HIDE DEF n
  <2>. DEFINE e == [i \in 0..n |-> h[i]]
  <2>2. \A i \in 0..n : e[i] = h[i] /\ (i # 0 => i \in 1..n /\ e[i - 1] = h[i - 1])
    BY <1>0
  <2>3. \A i \in 0..n : h[i] = IF i = 0 THEN a ELSE MergeOnce(e[i - 1], z, order)
    <3>. HIDE DEF e
    <3>. QED BY <2>1, <2>2
  <2>4. e = [i \in 0..n |-> IF i = 0 THEN a ELSE MergeOnce(e[i - 1], z, order)]
    BY <2>3
  <2>. HIDE DEF e
  <2>. QED
    BY <2>4
<1>5. CoalesceOrder(p, z, order) = f[n]
  BY DEF CoalesceOrder
<1>. HIDE DEF f, n, a
<1>6. DOMAIN f = 0..n /\ \A i \in 0..n : f[i] = IF i = 0 THEN a ELSE MergeOnce(f[i - 1], z, order)
  BY <1>4, Zenon
<1>7. 0 \in 0..n /\ \A i \in 1..n : i \in 0..n /\ i # 0
  BY <1>0
<1>8. DOMAIN f = 0..n /\ f[0] = a /\ \A i \in 1..n : f[i] = MergeOnce(f[i - 1], z, order)
  BY <1>6, <1>7
<1>. QED
  BY <1>5, <1>8 DEF n, a

\* coalesce_to(), order by order.
LEMMA CoalesceToSteps ==
  ASSUME NEW p, NEW z, NEW target, CoalesceArgs(p, z, target)
  PROVE  \E g : /\ DOMAIN g = 0..target /\ g[0] = p
                /\ \A i \in 1..target : g[i] = CoalesceOrder(g[i - 1], z, i - 1)
                /\ CoalesceTo(p, z, target) = g[target]
<1>. DEFINE n == target
            a == p
            S == {k \in 0..n : \E g : /\ DOMAIN g = 0..k /\ g[0] = a
                                      /\ \A i \in 1..k : g[i] = CoalesceOrder(g[i - 1], z, i - 1)}
<1>0. n \in Nat
  BY DEF CoalesceArgs
<1>1. 0 \in S
  <2>. DEFINE g == [i \in 0..0 |-> a]
  <2>. HIDE DEF a, n
  <2>1. DOMAIN g = 0..0 /\ g[0] = a /\ \A i \in 1..0 : g[i] = CoalesceOrder(g[i - 1], z, i - 1)
    OBVIOUS
  <2>. HIDE DEF g
  <2>. QED
    BY <1>0, <2>1
<1>2. ASSUME NEW k \in 1..n, k - 1 \in S
      PROVE  k \in S
  <2>. HIDE DEF a
  <2>1. PICK h : /\ DOMAIN h = 0..(k - 1) /\ h[0] = a
                 /\ \A i \in 1..(k - 1) : h[i] = CoalesceOrder(h[i - 1], z, i - 1)
    BY <1>2
  <2>. DEFINE x == CoalesceOrder(h[k - 1], z, k - 1)
              g == [i \in 0..k |-> IF i = k THEN x ELSE h[i]]
  <2>. HIDE DEF x, n
  <2>2. (\A i \in 0..(k - 1) : g[i] = h[i]) /\ g[k] = x /\ DOMAIN g = 0..k
    BY <1>0
  <2>. HIDE DEF g
  <2>3. ASSUME NEW i \in 1..k
        PROVE  g[i] = CoalesceOrder(g[i - 1], z, i - 1)
    <3>1. g[i - 1] = h[i - 1]
      BY <1>0, <2>2
    <3>2. CASE i = k
      BY <3>1, <3>2, <2>2 DEF x
    <3>3. CASE i # k
      <4>1. i \in 1..(k - 1) /\ i \in 0..(k - 1)
        BY <1>0, <3>3
      <4>. QED
        BY <3>1, <4>1, <2>1, <2>2
    <3>. QED
      BY <3>2, <3>3
  <2>4. g[0] = a /\ k \in 0..n
    BY <1>0, <2>1, <2>2
  <2>5. \E y : /\ DOMAIN y = 0..k /\ y[0] = a
               /\ \A i \in 1..k : y[i] = CoalesceOrder(y[i - 1], z, i - 1)
    BY <2>2, <2>3, <2>4
  <2>. QED
    BY <2>4, <2>5
<1>3. n \in S
  <2>1. S \subseteq 0..n
    OBVIOUS
  <2>. HIDE DEF S, n
  <2>2. S = 0..n
    BY <1>0, <1>1, <1>2, <2>1, Inductive
  <2>. QED
    BY <1>0, <2>2
<1>. DEFINE f == CHOOSE g : g = [i \in 0..n |-> IF i = 0 THEN a ELSE CoalesceOrder(g[i - 1], z, i - 1)]
<1>4. f = [i \in 0..n |-> IF i = 0 THEN a ELSE CoalesceOrder(f[i - 1], z, i - 1)]
  <2>. HIDE DEF a
  <2>1. PICK h : /\ DOMAIN h = 0..n /\ h[0] = a
                 /\ \A i \in 1..n : h[i] = CoalesceOrder(h[i - 1], z, i - 1)
    BY <1>3
  <2>. HIDE DEF n
  <2>. DEFINE e == [i \in 0..n |-> h[i]]
  <2>2. \A i \in 0..n : e[i] = h[i] /\ (i # 0 => i \in 1..n /\ e[i - 1] = h[i - 1])
    BY <1>0
  <2>3. \A i \in 0..n : h[i] = IF i = 0 THEN a ELSE CoalesceOrder(e[i - 1], z, i - 1)
    <3>. HIDE DEF e
    <3>. QED BY <2>1, <2>2
  <2>4. e = [i \in 0..n |-> IF i = 0 THEN a ELSE CoalesceOrder(e[i - 1], z, i - 1)]
    BY <2>3
  <2>. HIDE DEF e
  <2>. QED
    BY <2>4
<1>5. CoalesceTo(p, z, target) = f[n]
  BY DEF CoalesceTo
<1>. HIDE DEF f, n, a
<1>6. DOMAIN f = 0..n /\ \A i \in 0..n : f[i] = IF i = 0 THEN a ELSE CoalesceOrder(f[i - 1], z, i - 1)
  BY <1>4, Zenon
<1>7. 0 \in 0..n /\ \A i \in 1..n : i \in 0..n /\ i # 0
  BY <1>0
<1>8. DOMAIN f = 0..n /\ f[0] = a /\ \A i \in 1..n : f[i] = CoalesceOrder(f[i - 1], z, i - 1)
  BY <1>6, <1>7
<1>. QED
  BY <1>5, <1>8 DEF n, a

\* The entries of the memory map in init(), one by one.
LEMMA WithEntriesSteps ==
  ASSUME NEW st, MapArgs(st)
  PROVE  \E g : /\ DOMAIN g = 0..Len(MemMap) /\ g[0] = st
                /\ \A i \in 1..Len(MemMap) : g[i] = AddEntry(g[i - 1], i)
                /\ WithEntries(st) = g[Len(MemMap)]
<1>. DEFINE n == Len(MemMap)
            a == st
            S == {k \in 0..n : \E g : /\ DOMAIN g = 0..k /\ g[0] = a
                                      /\ \A i \in 1..k : g[i] = AddEntry(g[i - 1], i)}
<1>0. n \in Nat
  BY DEF MapArgs
<1>1. 0 \in S
  <2>. DEFINE g == [i \in 0..0 |-> a]
  <2>. HIDE DEF a, n
  <2>1. DOMAIN g = 0..0 /\ g[0] = a /\ \A i \in 1..0 : g[i] = AddEntry(g[i - 1], i)
    OBVIOUS
  <2>. HIDE DEF g
  <2>. QED
    BY <1>0, <2>1
<1>2. ASSUME NEW k \in 1..n, k - 1 \in S
      PROVE  k \in S
  <2>. HIDE DEF a
  <2>1. PICK h : /\ DOMAIN h = 0..(k - 1) /\ h[0] = a
                 /\ \A i \in 1..(k - 1) : h[i] = AddEntry(h[i - 1], i)
    BY <1>2
  <2>. DEFINE x == AddEntry(h[k - 1], k)
              g == [i \in 0..k |-> IF i = k THEN x ELSE h[i]]
  <2>. HIDE DEF x, n
  <2>2. (\A i \in 0..(k - 1) : g[i] = h[i]) /\ g[k] = x /\ DOMAIN g = 0..k
    BY <1>0
  <2>. HIDE DEF g
  <2>3. ASSUME NEW i \in 1..k
        PROVE  g[i] = AddEntry(g[i - 1], i)
    <3>1. g[i - 1] = h[i - 1]
      BY <1>0, <2>2
    <3>2. CASE i = k
      BY <3>1, <3>2, <2>2 DEF x
    <3>3. CASE i # k
      <4>1. i \in 1..(k - 1) /\ i \in 0..(k - 1)
        BY <1>0, <3>3
      <4>. QED
        BY <3>1, <4>1, <2>1, <2>2
    <3>. QED
      BY <3>2, <3>3
  <2>4. g[0] = a /\ k \in 0..n
    BY <1>0, <2>1, <2>2
  <2>5. \E y : /\ DOMAIN y = 0..k /\ y[0] = a
               /\ \A i \in 1..k : y[i] = AddEntry(y[i - 1], i)
    BY <2>2, <2>3, <2>4
  <2>. QED
    BY <2>4, <2>5
<1>3. n \in S
  <2>1. S \subseteq 0..n
    OBVIOUS
  <2>. HIDE DEF S, n
  <2>2. S = 0..n
    BY <1>0, <1>1, <1>2, <2>1, Inductive
  <2>. QED
    BY <1>0, <2>2
<1>. DEFINE f == CHOOSE g : g = [i \in 0..n |-> IF i = 0 THEN a ELSE AddEntry(g[i - 1], i)]
<1>4. f = [i \in 0..n |-> IF i = 0 THEN a ELSE AddEntry(f[i - 1], i)]
  <2>. HIDE DEF a
  <2>1. PICK h : /\ DOMAIN h = 0..n /\ h[0] = a
                 /\ \A i \in 1..n : h[i] = AddEntry(h[i - 1], i)
    BY <1>3
  <2>. HIDE DEF n
  <2>. DEFINE e == [i \in 0..n |-> h[i]]
  <2>2. \A i \in 0..n : e[i] = h[i] /\ (i # 0 => i \in 1..n /\ e[i - 1] = h[i - 1])
    BY <1>0
  <2>3. \A i \in 0..n : h[i] = IF i = 0 THEN a ELSE AddEntry(e[i - 1], i)
    <3>. HIDE DEF e
    <3>. QED BY <2>1, <2>2
  <2>4. e = [i \in 0..n |-> IF i = 0 THEN a ELSE AddEntry(e[i - 1], i)]
    BY <2>3
  <2>. HIDE DEF e
  <2>. QED
    BY <2>4
<1>5. WithEntries(st) = f[n]
  BY DEF WithEntries
<1>. HIDE DEF f, n, a
<1>6. DOMAIN f = 0..n /\ \A i \in 0..n : f[i] = IF i = 0 THEN a ELSE AddEntry(f[i - 1], i)
  BY <1>4, Zenon
<1>7. 0 \in 0..n /\ \A i \in 1..n : i \in 0..n /\ i # 0
  BY <1>0
<1>8. DOMAIN f = 0..n /\ f[0] = a /\ \A i \in 1..n : f[i] = AddEntry(f[i - 1], i)
  BY <1>6, <1>7
<1>. QED
  BY <1>5, <1>8 DEF n, a

\* The pfndb of the bootstrap entry, page by page.
LEMMA WithPfndbSteps ==
  ASSUME NEW st, MapArgs(st)
  PROVE  \E g : /\ DOMAIN g = 0..PfndbPages /\ g[0] = st
                /\ \A i \in 1..PfndbPages : g[i] = PfndbAlloc(g[i - 1])
                /\ WithPfndb(st) = g[PfndbPages]
<1>. DEFINE n == PfndbPages
            a == st
            S == {k \in 0..n : \E g : /\ DOMAIN g = 0..k /\ g[0] = a
                                      /\ \A i \in 1..k : g[i] = PfndbAlloc(g[i - 1])}
<1>0. n \in Nat
  BY DEF MapArgs
<1>1. 0 \in S
  <2>. DEFINE g == [i \in 0..0 |-> a]
  <2>. HIDE DEF a, n
  <2>1. DOMAIN g = 0..0 /\ g[0] = a /\ \A i \in 1..0 : g[i] = PfndbAlloc(g[i - 1])
    OBVIOUS
  <2>. HIDE DEF g
  <2>. QED
    BY <1>0, <2>1
<1>2. ASSUME NEW k \in 1..n, k - 1 \in S
      PROVE  k \in S
  <2>. HIDE DEF a
  <2>1. PICK h : /\ DOMAIN h = 0..(k - 1) /\ h[0] = a
                 /\ \A i \in 1..(k - 1) : h[i] = PfndbAlloc(h[i - 1])
    BY <1>2
  <2>. DEFINE x == PfndbAlloc(h[k - 1])
              g == [i \in 0..k |-> IF i = k THEN x ELSE h[i]]
  <2>. HIDE DEF x, n
  <2>2. (\A i \in 0..(k - 1) : g[i] = h[i]) /\ g[k] = x /\ DOMAIN g = 0..k
    BY <1>0
  <2>. HIDE DEF g
  <2>3. ASSUME NEW i \in 1..k
        PROVE  g[i] = PfndbAlloc(g[i - 1])
    <3>1. g[i - 1] = h[i - 1]
      BY <1>0, <2>2
    <3>2. CASE i = k
      BY <3>1, <3>2, <2>2 DEF x
    <3>3. CASE i # k
      <4>1. i \in 1..(k - 1) /\ i \in 0..(k - 1)
        BY <1>0, <3>3
      <4>. QED
        BY <3>1, <4>1, <2>1, <2>2
    <3>. QED
      BY <3>2, <3>3
  <2>4. g[0] = a /\ k \in 0..n
    BY <1>0, <2>1, <2>2
  <2>5. \E y : /\ DOMAIN y = 0..k /\ y[0] = a
               /\ \A i \in 1..k : y[i] = PfndbAlloc(y[i - 1])
    BY <2>2, <2>3, <2>4
  <2>. QED
    BY <2>4, <2>5
<1>3. n \in S
  <2>1. S \subseteq 0..n
    OBVIOUS
  <2>. HIDE DEF S, n
  <2>2. S = 0..n
    BY <1>0, <1>1, <1>2, <2>1, Inductive
  <2>. QED
    BY <1>0, <2>2
<1>. DEFINE f == CHOOSE g : g = [i \in 0..n |-> IF i = 0 THEN a ELSE PfndbAlloc(g[i - 1])]
<1>4. f = [i \in 0..n |-> IF i = 0 THEN a ELSE PfndbAlloc(f[i - 1])]
  <2>. HIDE DEF a
  <2>1. PICK h : /\ DOMAIN h = 0..n /\ h[0] = a
                 /\ \A i \in 1..n : h[i] = PfndbAlloc(h[i - 1])
    BY <1>3
  <2>. HIDE DEF n
  <2>. DEFINE e == [i \in 0..n |-> h[i]]
  <2>2. \A i \in 0..n : e[i] = h[i] /\ (i # 0 => i \in 1..n /\ e[i - 1] = h[i - 1])
    BY <1>0
  <2>3. \A i \in 0..n : h[i] = IF i = 0 THEN a ELSE PfndbAlloc(e[i - 1])
    <3>. HIDE DEF e
    <3>. QED BY <2>1, <2>2
  <2>4. e = [i \in 0..n |-> IF i = 0 THEN a ELSE PfndbAlloc(e[i - 1])]
    BY <2>3
  <2>. HIDE DEF e
  <2>. QED
    BY <2>4
<1>5. WithPfndb(st) = f[n]
  BY DEF WithPfndb
<1>. HIDE DEF f, n, a
<1>6. DOMAIN f = 0..n /\ \A i \in 0..n : f[i] = IF i = 0 THEN a ELSE PfndbAlloc(f[i - 1])
  BY <1>4, Zenon
<1>7. 0 \in 0..n /\ \A i \in 1..n : i \in 0..n /\ i # 0
  BY <1>0
<1>8. DOMAIN f = 0..n /\ f[0] = a /\ \A i \in 1..n : f[i] = PfndbAlloc(f[i - 1])
  BY <1>6, <1>7
<1>. QED
  BY <1>5, <1>8 DEF n, a

\* reclaim_bootloader_memory(), entry by entry.
LEMMA ReclaimedSteps ==
  ASSUME NEW st, MapArgs(st)
  PROVE  \E g : /\ DOMAIN g = 0..Len(MemMap) /\ g[0] = st
                /\ \A i \in 1..Len(MemMap) : g[i] = ReclaimEntry(g[i - 1], i)
                /\ Reclaimed(st) = g[Len(MemMap)]
<1>. DEFINE n == Len(MemMap)
            a == st
            S == {k \in 0..n : \E g : /\ DOMAIN g = 0..k /\ g[0] = a
                                      /\ \A i \in 1..k : g[i] = ReclaimEntry(g[i - 1], i)}
<1>0. n \in Nat
  BY DEF MapArgs
<1>1. 0 \in S
  <2>. DEFINE g == [i \in 0..0 |-> a]
  <2>. HIDE DEF a, n
  <2>1. DOMAIN g = 0..0 /\ g[0] = a /\ \A i \in 1..0 : g[i] = ReclaimEntry(g[i - 1], i)
    OBVIOUS
  <2>. HIDE DEF g
  <2>. QED
    BY <1>0, <2>1
<1>2. ASSUME NEW k \in 1..n, k - 1 \in S
      PROVE  k \in S
  <2>. HIDE DEF a
  <2>1. PICK h : /\ DOMAIN h = 0..(k - 1) /\ h[0] = a
                 /\ \A i \in 1..(k - 1) : h[i] = ReclaimEntry(h[i - 1], i)
    BY <1>2
  <2>. DEFINE x == ReclaimEntry(h[k - 1], k)
              g == [i \in 0..k |-> IF i = k THEN x ELSE h[i]]
  <2>. HIDE DEF x, n
  <2>2. (\A i \in 0..(k - 1) : g[i] = h[i]) /\ g[k] = x /\ DOMAIN g = 0..k
    BY <1>0
  <2>. HIDE DEF g
  <2>3. ASSUME NEW i \in 1..k
        PROVE  g[i] = ReclaimEntry(g[i - 1], i)
    <3>1. g[i - 1] = h[i - 1]
      BY <1>0, <2>2
    <3>2. CASE i = k
      BY <3>1, <3>2, <2>2 DEF x
    <3>3. CASE i # k
      <4>1. i \in 1..(k - 1) /\ i \in 0..(k - 1)
        BY <1>0, <3>3
      <4>. QED
        BY <3>1, <4>1, <2>1, <2>2
    <3>. QED
      BY <3>2, <3>3
  <2>4. g[0] = a /\ k \in 0..n
    BY <1>0, <2>1, <2>2
  <2>5. \E y : /\ DOMAIN y = 0..k /\ y[0] = a
               /\ \A i \in 1..k : y[i] = ReclaimEntry(y[i - 1], i)
    BY <2>2, <2>3, <2>4
  <2>. QED
    BY <2>4, <2>5
<1>3. n \in S
  <2>1. S \subseteq 0..n
    OBVIOUS
  <2>. HIDE DEF S, n
  <2>2. S = 0..n
    BY <1>0, <1>1, <1>2, <2>1, Inductive
  <2>. QED
    BY <1>0, <2>2
<1>. DEFINE f == CHOOSE g : g = [i \in 0..n |-> IF i = 0 THEN a ELSE ReclaimEntry(g[i - 1], i)]
<1>4. f = [i \in 0..n |-> IF i = 0 THEN a ELSE ReclaimEntry(f[i - 1], i)]
  <2>. HIDE DEF a
  <2>1. PICK h : /\ DOMAIN h = 0..n /\ h[0] = a
                 /\ \A i \in 1..n : h[i] = ReclaimEntry(h[i - 1], i)
    BY <1>3
  <2>. HIDE DEF n
  <2>. DEFINE e == [i \in 0..n |-> h[i]]
  <2>2. \A i \in 0..n : e[i] = h[i] /\ (i # 0 => i \in 1..n /\ e[i - 1] = h[i - 1])
    BY <1>0
  <2>3. \A i \in 0..n : h[i] = IF i = 0 THEN a ELSE ReclaimEntry(e[i - 1], i)
    <3>. HIDE DEF e
    <3>. QED BY <2>1, <2>2
  <2>4. e = [i \in 0..n |-> IF i = 0 THEN a ELSE ReclaimEntry(e[i - 1], i)]
    BY <2>3
  <2>. HIDE DEF e
  <2>. QED
    BY <2>4
<1>5. Reclaimed(st) = f[n]
  BY DEF Reclaimed
<1>. HIDE DEF f, n, a
<1>6. DOMAIN f = 0..n /\ \A i \in 0..n : f[i] = IF i = 0 THEN a ELSE ReclaimEntry(f[i - 1], i)
  BY <1>4, Zenon
<1>7. 0 \in 0..n /\ \A i \in 1..n : i \in 0..n /\ i # 0
  BY <1>0
<1>8. DOMAIN f = 0..n /\ f[0] = a /\ \A i \in 1..n : f[i] = ReclaimEntry(f[i - 1], i)
  BY <1>6, <1>7
<1>. QED
  BY <1>5, <1>8 DEF n, a

-----------------------------------------------------------------------------
(* Blocks that tile a set of pages.                                        *)

InZone(z, pg) == ZoneStart(z) <= pg /\ pg < ZoneEnd(z)

\* The blocks with the heads H and these orders are aligned, lie in one zone
\* each, and fill M without overlap.
Tiles(order, H, M) ==
  /\ order \in [Pages -> Orders] /\ H \subseteq M /\ M \subseteq Pages \ {0}
  /\ \A h \in H : Aligned(h, order[h])
  /\ \A a, b \in H : a < b => a + Pow2[order[a]] <= b
  /\ \A h \in H : \A m \in h..(h + Pow2[order[h]] - 1) : m \in M
  /\ \A m \in M : \E h \in H : h <= m /\ m < h + Pow2[order[h]]
  /\ \A h \in H, z \in Zones : InZone(z, h) => h + Pow2[order[h]] <= ZoneEnd(z)

\* next_paddr of a head is 0 or the page behind its block.
Chains(next, order, H, M) ==
  /\ next \in [Pages -> Pages]
  /\ \A m \in Pages \ M : next[m] = 0
  /\ \A h \in H : next[h] # 0 =>
       /\ next[h] = h + Pow2[order[h]] /\ next[h] \in M
       /\ \A z \in Zones : InZone(z, h) => InZone(z, next[h])

\* The zones lie one behind the other.
LEMMA ZoneFacts ==
  ASSUME PmmAssumption
  PROVE  /\ Top \in Nat /\ MaxOrder \in Nat
         /\ \A z \in Zones : ZoneStart(z) \in Nat /\ ZoneEnd(z) \in Nat /\ 0 < ZoneStart(z)
                             /\ ZoneStart(z) < ZoneEnd(z) /\ ZoneEnd(z) <= Top
         /\ \A pg \in Pages \ {0} : \E z \in Zones : InZone(z, pg)
         /\ \A pg \in Pages, y, z \in Zones : InZone(y, pg) /\ InZone(z, pg) => y = z
<1>1. /\ Sub1MiB \in Nat /\ Sub4GiB \in Nat /\ Top \in Nat /\ MaxOrder \in Nat
      /\ 1 < Sub1MiB /\ Sub1MiB < Sub4GiB /\ Sub4GiB < Top
  BY DEF PmmAssumption
<1>2. /\ ZoneStart("sub1mib") = 1 /\ ZoneEnd("sub1mib") = Sub1MiB
      /\ ZoneStart("sub4gib") = Sub1MiB /\ ZoneEnd("sub4gib") = Sub4GiB
      /\ ZoneStart("normal") = Sub4GiB /\ ZoneEnd("normal") = Top
  BY DEF ZoneStart, ZoneEnd
<1>3. \A z \in Zones : z = "sub1mib" \/ z = "sub4gib" \/ z = "normal"
  BY DEF Zones
<1>4. "sub1mib" \in Zones /\ "sub4gib" \in Zones /\ "normal" \in Zones
  BY DEF Zones
<1>5. \A z \in Zones : ZoneStart(z) \in Nat /\ ZoneEnd(z) \in Nat /\ 0 < ZoneStart(z)
                       /\ ZoneStart(z) < ZoneEnd(z) /\ ZoneEnd(z) <= Top
  BY <1>1, <1>2, <1>3
<1>6. ASSUME NEW pg \in Pages \ {0} PROVE \E z \in Zones : InZone(z, pg)
  <2>1. pg \in Nat /\ 1 <= pg /\ pg < Top
    BY <1>1 DEF Pages
  <2>2. CASE pg < Sub1MiB
    BY <1>2, <1>4, <2>1, <2>2 DEF InZone
  <2>3. CASE Sub1MiB <= pg /\ pg < Sub4GiB
    BY <1>2, <1>4, <2>3 DEF InZone
  <2>4. CASE Sub4GiB <= pg
    BY <1>2, <1>4, <2>1, <2>4 DEF InZone
  <2>. QED
    BY <1>1, <2>1, <2>2, <2>3, <2>4
<1>7. ASSUME NEW pg \in Pages, NEW y \in Zones, NEW z \in Zones, InZone(y, pg), InZone(z, pg)
      PROVE  y = z
  <2>1. pg \in Nat
    BY <1>1 DEF Pages
  <2>. QED
    BY <1>1, <1>2, <1>3, <1>7, <2>1 DEF InZone
<1>. QED
  BY <1>1, <1>5, <1>6, <1>7

\* What is behind a name of the tiling.
LEMMA TileFacts ==
  ASSUME PmmAssumption, NEW order, NEW H, NEW M, Tiles(order, H, M)
  PROVE  /\ order \in [Pages -> Orders] /\ H \subseteq M /\ M \subseteq Pages /\ 0 \notin M
         /\ \A m \in Pages : m \in Nat /\ m < Top
         /\ \A m \in Pages : order[m] \in Orders /\ order[m] \in Nat /\ order[m] <= MaxOrder
                             /\ Pow2[order[m]] \in Nat /\ Pow2[order[m]] > 0
         /\ \A h \in H : h \in Pages /\ h \in Nat /\ h # 0
<1>1. Top \in Nat /\ MaxOrder \in Nat
  BY ZoneFacts
<1>2. \A m \in Pages : m \in Nat /\ m < Top
  BY <1>1 DEF Pages
<1>3. \A k \in Orders : k \in Nat /\ k <= MaxOrder /\ Pow2[k] \in Nat /\ Pow2[k] > 0
  BY <1>1, PowFacts DEF Orders
<1>4. order \in [Pages -> Orders] /\ H \subseteq M /\ M \subseteq Pages \ {0}
  BY DEF Tiles
<1>. QED
  BY <1>2, <1>3, <1>4

\* The upper half of a block.
LEMMA UpperHalf ==
  ASSUME PmmAssumption, NEW order, NEW H, NEW M, Tiles(order, H, M),
         NEW pg \in H, NEW k \in Nat, order[pg] = k + 1
  PROVE  /\ pg + Pow2[k] \in M /\ pg + Pow2[k] \notin H /\ pg + Pow2[k] # pg /\ pg + Pow2[k] \in Pages
         /\ k \in Orders /\ \A z \in Zones : InZone(z, pg) => InZone(z, pg + Pow2[k])
<1>. DEFINE P == Pow2[k]
            buddy == pg + P
<1>1. /\ pg \in Nat /\ pg \in Pages /\ P \in Nat /\ P > 0 /\ Pow2[k + 1] = 2 * P
      /\ k + 1 \in Orders /\ MaxOrder \in Nat
  BY TileFacts, ZoneFacts, PowFacts
<1>2. k \in Orders
  BY <1>1 DEF Orders
<1>. HIDE DEF P
<1>3. buddy \in pg..(pg + 2 * P - 1) /\ buddy \in Nat /\ pg < buddy
  BY <1>1
<1>4. buddy \in M
  BY <1>1, <1>3 DEF Tiles
<1>5. buddy \notin H
  <2>. SUFFICES ASSUME buddy \in H PROVE FALSE
    OBVIOUS
  <2>1. pg + 2 * P <= buddy
    BY <1>1, <1>3 DEF Tiles
  <2>. QED
    BY <1>1, <1>3, <2>1
<1>6. buddy \in Pages /\ buddy # pg
  BY <1>1, <1>3, <1>4, TileFacts
<1>7. ASSUME NEW z \in Zones, InZone(z, pg) PROVE InZone(z, buddy)
  <2>1. pg + 2 * P <= ZoneEnd(z) /\ ZoneEnd(z) \in Nat /\ ZoneStart(z) \in Nat
    BY <1>1, <1>7, ZoneFacts DEF Tiles
  <2>. QED
    BY <1>1, <1>7, <2>1 DEF InZone
<1>. QED
  BY <1>2, <1>4, <1>5, <1>6, <1>7 DEF P

\* split_to(): both halves of a block are blocks.
LEMMA SplitTiles ==
  ASSUME PmmAssumption, NEW order, NEW H, NEW M, Tiles(order, H, M),
         NEW pg \in H, NEW k \in Nat, order[pg] = k + 1, NEW buddy, buddy = pg + Pow2[k],
         NEW new \in [Pages -> Orders], new[pg] = k, new[buddy] = k,
         \A m \in Pages : m # pg /\ m # buddy => new[m] = order[m]
  PROVE  Tiles(new, H \cup {buddy}, M)
<1>. DEFINE P == Pow2[k]
            G == H \cup {buddy}
<1>1. pg \in Nat /\ pg \in Pages /\ P \in Nat /\ P > 0 /\ Pow2[k + 1] = 2 * P
  BY TileFacts, PowFacts
<1>2. /\ k \in Orders /\ buddy \in M /\ buddy \notin H /\ buddy \in Pages /\ buddy # pg
      /\ \A z \in Zones : InZone(z, pg) => InZone(z, buddy)
  BY UpperHalf
<1>. HIDE DEF P
<1>3. buddy = pg + P /\ buddy \in Nat /\ pg < buddy
  BY <1>1 DEF P
<1>4. buddy \in M
  BY <1>2
<1>5. buddy \notin H
  BY <1>2
<1>6. buddy \in Pages /\ buddy # pg
  BY <1>2
<1>7. /\ new \in [Pages -> Orders] /\ new[pg] = k /\ new[buddy] = k
      /\ \A m \in Pages : m # pg /\ m # buddy => new[m] = order[m]
  OBVIOUS
<1>8. Aligned(pg, k) /\ Aligned(buddy, k)
  <2>1. Aligned(pg, k + 1)
    BY DEF Tiles
  <2>. QED
    BY <1>1, <2>1, HalvesAligned
<1>9. \A h \in H : h # pg => new[h] = order[h] /\ h \in Pages /\ h \in Nat /\ Pow2[order[h]] \in Nat
  BY <1>5, <1>7, TileFacts
<1>10. \A h \in G : Aligned(h, new[h])
  BY <1>7, <1>8, <1>9 DEF Tiles
<1>11. ASSUME NEW a \in G, NEW b \in G, a < b
       PROVE  a + Pow2[new[a]] <= b
  <2>1. CASE a \in H /\ b \in H
    <3>1. a + Pow2[order[a]] <= b /\ a \in Nat /\ b \in Nat
      BY <1>11, <2>1, TileFacts DEF Tiles
    <3>2. CASE a = pg
      BY <1>1, <1>7, <3>1, <3>2 DEF P
    <3>3. CASE a # pg
      BY <1>9, <2>1, <3>1, <3>3
    <3>. QED
      BY <3>2, <3>3
  <2>2. CASE a = buddy /\ b = buddy
    BY <1>3, <1>11, <2>2
  <2>3. CASE a = buddy /\ b \in H
    <3>1. b \in Nat /\ pg < b
      BY <1>3, <1>11, <2>3, TileFacts
    <3>2. pg + 2 * P <= b
      BY <1>1, <2>3, <3>1 DEF Tiles
    <3>. QED
      BY <1>1, <1>3, <1>7, <2>3, <3>1, <3>2 DEF P
  <2>4. CASE a \in H /\ b = buddy
    <3>1. a \in Nat
      BY <2>4, TileFacts
    <3>2. CASE a = pg
      BY <1>1, <1>3, <1>7, <2>4, <3>2 DEF P
    <3>3. CASE a < pg
      <4>1. a + Pow2[order[a]] <= pg /\ Pow2[order[a]] \in Nat
        BY <1>9, <1>1, <2>4, <3>1, <3>3 DEF Tiles
      <4>2. new[a] = order[a]
        <5>1. a # pg
          BY <1>1, <3>1, <3>3
        <5>. QED
          BY <1>9, <2>4, <5>1
      <4>. QED
        BY <1>1, <1>3, <2>4, <3>1, <4>1, <4>2
    <3>4. CASE pg < a
      <4>1. pg + 2 * P <= a
        BY <1>1, <2>4, <3>4 DEF Tiles
      <4>. QED
        BY <1>1, <1>3, <1>11, <2>4, <3>1, <4>1
    <3>. QED
      BY <1>1, <3>1, <3>2, <3>3, <3>4
  <2>. QED
    BY <2>1, <2>2, <2>3, <2>4
<1>12. ASSUME NEW h \in G, NEW m \in h..(h + Pow2[new[h]] - 1)
       PROVE  m \in M
  <2>1. CASE h \in H /\ h # pg
    BY <1>9, <2>1 DEF Tiles
  <2>2. CASE h = pg \/ h = buddy
    <3>1. m \in pg..(pg + 2 * P - 1)
      BY <1>1, <1>3, <1>7, <2>2 DEF P
    <3>. QED
      BY <1>1, <3>1 DEF Tiles
  <2>. QED
    BY <2>1, <2>2
<1>13. ASSUME NEW m \in M
       PROVE  \E h \in G : h <= m /\ m < h + Pow2[new[h]]
  <2>1. PICK h \in H : h <= m /\ m < h + Pow2[order[h]]
    BY DEF Tiles
  <2>2. CASE h # pg
    BY <1>9, <2>1, <2>2
  <2>3. CASE h = pg
    <3>1. m \in Nat
      BY TileFacts
    <3>2. m < buddy \/ (buddy <= m /\ m < buddy + P)
      BY <1>1, <1>3, <2>1, <2>3, <3>1
    <3>. QED
      BY <1>3, <1>7, <2>1, <2>3, <3>2 DEF P
  <2>. QED
    BY <2>2, <2>3
<1>14. ASSUME NEW h \in G, NEW z \in Zones, InZone(z, h)
       PROVE  h + Pow2[new[h]] <= ZoneEnd(z)
  <2>1. CASE h \in H /\ h # pg
    BY <1>9, <1>14, <2>1 DEF Tiles
  <2>2. CASE h = pg
    <3>1. pg + 2 * P <= ZoneEnd(z)
      BY <1>1, <1>14, <2>2 DEF Tiles
    <3>. QED
      BY <1>1, <1>7, <2>2, <3>1, ZoneFacts DEF P
  <2>3. CASE h = buddy
    <3>1. PICK y \in Zones : InZone(y, pg)
      BY <1>1, ZoneFacts, TileFacts
    <3>2. pg + 2 * P <= ZoneEnd(y) /\ ZoneEnd(y) \in Nat /\ ZoneStart(y) \in Nat
      BY <1>1, <3>1, ZoneFacts DEF Tiles
    <3>3. InZone(y, buddy)
      BY <1>2, <3>1
    <3>4. y = z
      BY <1>6, <1>14, <2>3, <3>3, ZoneFacts
    <3>. QED
      BY <1>1, <1>3, <1>7, <2>3, <3>2, <3>4 DEF P
  <2>. QED
    BY <2>1, <2>2, <2>3
<1>15. G \subseteq M /\ M \subseteq Pages \ {0}
  BY <1>4 DEF Tiles
<1>. QED
  BY <1>7, <1>10, <1>11, <1>12, <1>13, <1>14, <1>15 DEF Tiles

\* coalesce_to(): two halves of an aligned block are a block.
LEMMA MergeTiles ==
  ASSUME PmmAssumption, NEW order, NEW H, NEW M, Tiles(order, H, M),
         NEW curr \in H, NEW buddy \in H, NEW k \in Nat, k + 1 \in Orders,
         order[curr] = k, order[buddy] = k, buddy = curr + Pow2[k], Aligned(curr, k + 1),
         \A z \in Zones : InZone(z, curr) => InZone(z, buddy),
         NEW new \in [Pages -> Orders], new[curr] = k + 1,
         \A m \in Pages : m # curr => new[m] = order[m]
  PROVE  Tiles(new, H \ {buddy}, M)
<1>. DEFINE P == Pow2[k]
            G == H \ {buddy}
<1>1. /\ curr \in Nat /\ curr \in Pages /\ P \in Nat /\ P > 0 /\ Pow2[k + 1] = 2 * P
      /\ buddy \in Nat /\ buddy \in Pages
  BY TileFacts, PowFacts
<1>2. buddy = curr + P
  OBVIOUS
<1>. HIDE DEF P
<1>3. /\ new \in [Pages -> Orders] /\ new[curr] = k + 1
      /\ \A m \in Pages : m # curr => new[m] = order[m]
  OBVIOUS
<1>4. \A h \in H : h # curr => new[h] = order[h] /\ h \in Pages /\ h \in Nat /\ Pow2[order[h]] \in Nat
  BY <1>3, TileFacts
<1>5. \A h \in G : Aligned(h, new[h])
  BY <1>3, <1>4 DEF Tiles
<1>6. ASSUME NEW a \in G, NEW b \in G, a < b
      PROVE  a + Pow2[new[a]] <= b
  <2>1. a \in Nat /\ b \in Nat /\ a \in H /\ b \in H /\ a # buddy /\ b # buddy
    BY TileFacts
  <2>2. CASE a # curr
    BY <1>4, <1>6, <2>1, <2>2 DEF Tiles
  <2>3. CASE a = curr
    <3>1. curr + P <= b
      BY <1>1, <1>6, <2>1, <2>3 DEF Tiles, P
    <3>2. buddy < b
      BY <1>1, <1>2, <2>1, <3>1
    <3>3. buddy + P <= b
      BY <2>1, <3>2 DEF Tiles, P
    <3>. QED
      BY <1>1, <1>2, <1>3, <2>1, <2>3, <3>3
  <2>. QED
    BY <2>2, <2>3
<1>7. ASSUME NEW h \in G, NEW m \in h..(h + Pow2[new[h]] - 1)
      PROVE  m \in M
  <2>1. CASE h # curr
    BY <1>4, <2>1 DEF Tiles
  <2>2. CASE h = curr
    <3>1. m \in curr..(curr + P - 1) \/ m \in buddy..(buddy + P - 1)
      BY <1>1, <1>2, <1>3, <2>2
    <3>. QED
      BY <3>1 DEF Tiles, P
  <2>. QED
    BY <2>1, <2>2
<1>8. ASSUME NEW m \in M
      PROVE  \E h \in G : h <= m /\ m < h + Pow2[new[h]]
  <2>1. PICK h \in H : h <= m /\ m < h + Pow2[order[h]]
    BY DEF Tiles
  <2>2. m \in Nat
    BY TileFacts
  <2>3. CASE h # curr /\ h # buddy
    BY <1>4, <2>1, <2>3
  <2>4. CASE h = curr \/ h = buddy
    <3>1. curr <= m /\ m < curr + Pow2[new[curr]]
      BY <1>1, <1>2, <1>3, <2>1, <2>2, <2>4 DEF P
    <3>2. curr \in G
      BY <1>1, <1>2
    <3>. QED
      BY <3>1, <3>2
  <2>. QED
    BY <2>3, <2>4
<1>9. ASSUME NEW h \in G, NEW z \in Zones, InZone(z, h)
      PROVE  h + Pow2[new[h]] <= ZoneEnd(z)
  <2>1. CASE h # curr
    BY <1>4, <1>9, <2>1 DEF Tiles
  <2>2. CASE h = curr
    <3>1. InZone(z, buddy)
      BY <1>9, <2>2
    <3>2. buddy + P <= ZoneEnd(z) /\ ZoneEnd(z) \in Nat
      BY <3>1, ZoneFacts DEF Tiles, P
    <3>. QED
      BY <1>1, <1>2, <1>3, <2>2, <3>2
  <2>. QED
    BY <2>1, <2>2
<1>10. G \subseteq M /\ M \subseteq Pages \ {0}
  BY DEF Tiles
<1>. QED
  BY <1>3, <1>5, <1>6, <1>7, <1>8, <1>9, <1>10 DEF Tiles

\* The place of a block beside the others.
LEMMA FreshBlock ==
  ASSUME PmmAssumption, NEW M, NEW base \in Nat, NEW k \in Orders, NEW z \in Zones,
         ZoneStart(z) <= base, base + Pow2[k] <= ZoneEnd(z),
         \A m \in M : m < base \/ base + Pow2[k] <= m
  PROVE  base \in Pages /\ base # 0 /\ base \notin M /\ InZone(z, base)
<1>1. /\ Pow2[k] \in Nat /\ Pow2[k] > 0 /\ ZoneStart(z) \in Nat /\ ZoneEnd(z) \in Nat /\ ZoneEnd(z) <= Top
      /\ 0 < ZoneStart(z) /\ Top \in Nat
  BY ZoneFacts, PowFacts DEF Orders
<1>2. base \in Pages \ {0} /\ InZone(z, base)
  BY <1>1 DEF Pages, InZone
<1>3. ~(base < base) /\ ~(base + Pow2[k] <= base)
  BY <1>1
<1>. QED
  BY <1>2, <1>3

\* add_range(): a block beside the others.
LEMMA AddTiles ==
  ASSUME PmmAssumption, NEW order, NEW H, NEW M, Tiles(order, H, M),
         NEW base \in Nat, NEW k \in Orders, NEW z \in Zones, Aligned(base, k),
         ZoneStart(z) <= base, base + Pow2[k] <= ZoneEnd(z),
         \A m \in M : m < base \/ base + Pow2[k] <= m,
         NEW new \in [Pages -> Orders], new[base] = k,
         \A m \in Pages : m # base => new[m] = order[m]
  PROVE  Tiles(new, H \cup {base}, M \cup base..(base + Pow2[k] - 1))
<1>. DEFINE P == Pow2[k]
            G == H \cup {base}
            N == M \cup base..(base + P - 1)
<1>1. P \in Nat /\ P > 0 /\ ZoneEnd(z) \in Nat /\ ZoneEnd(z) <= Top /\ Top \in Nat
  BY ZoneFacts, PowFacts DEF Orders
<1>2. base \in Pages \ {0} /\ InZone(z, base) /\ base + P <= ZoneEnd(z)
  BY FreshBlock
<1>3. base \notin M
  BY FreshBlock
<1>. HIDE DEF P
<1>4. /\ new \in [Pages -> Orders] /\ new[base] = k
      /\ \A m \in Pages : m # base => new[m] = order[m]
  OBVIOUS
<1>5. \A h \in H : /\ h # base /\ new[h] = order[h] /\ h \in Pages /\ h \in Nat /\ h \in M
                   /\ Pow2[order[h]] \in Nat /\ Pow2[order[h]] > 0
  BY <1>3, <1>4, TileFacts
<1>6. \A h \in G : Aligned(h, new[h])
  BY <1>4, <1>5 DEF Tiles
<1>7. ASSUME NEW a \in G, NEW b \in G, a < b
      PROVE  a + Pow2[new[a]] <= b
  <2>1. CASE a \in H /\ b \in H
    BY <1>5, <1>7, <2>1 DEF Tiles
  <2>2. CASE a = base /\ b \in H
    <3>1. b \in Nat /\ b \in M /\ base < b
      BY <1>5, <1>7, <2>2
    <3>2. base + P <= b
      BY <3>1 DEF P
    <3>. QED
      BY <1>4, <2>2, <3>2 DEF P
  <2>3. CASE a \in H /\ b = base
    <3>1. a \in Nat /\ a < base /\ Pow2[order[a]] \in Nat /\ Pow2[order[a]] > 0 /\ new[a] = order[a]
      BY <1>5, <1>7, <2>3
    <3>. SUFFICES ASSUME ~(a + Pow2[order[a]] <= base) PROVE FALSE
      BY <2>3, <3>1
    <3>2. base \in a..(a + Pow2[order[a]] - 1)
      BY <3>1
    <3>3. base \in M
      BY <2>3, <3>2 DEF Tiles
    <3>. QED
      BY <1>3, <3>3
  <2>4. CASE a = base /\ b = base
    BY <1>7, <2>4
  <2>. QED
    BY <2>1, <2>2, <2>3, <2>4
<1>8. ASSUME NEW h \in G, NEW m \in h..(h + Pow2[new[h]] - 1)
      PROVE  m \in N
  <2>1. CASE h \in H
    BY <1>5, <2>1 DEF Tiles
  <2>2. CASE h = base
    BY <1>4, <2>2 DEF P
  <2>. QED
    BY <2>1, <2>2
<1>9. ASSUME NEW m \in N
      PROVE  \E h \in G : h <= m /\ m < h + Pow2[new[h]]
  <2>1. CASE m \in M
    BY <1>5, <2>1 DEF Tiles
  <2>2. CASE m \in base..(base + P - 1)
    <3>1. base <= m /\ m < base + Pow2[new[base]]
      BY <1>1, <1>4, <2>2 DEF P
    <3>. QED
      BY <3>1
  <2>. QED
    BY <2>1, <2>2
<1>10. ASSUME NEW h \in G, NEW y \in Zones, InZone(y, h)
       PROVE  h + Pow2[new[h]] <= ZoneEnd(y)
  <2>1. CASE h \in H
    BY <1>5, <1>10, <2>1 DEF Tiles
  <2>2. CASE h = base
    <3>1. y = z
      BY <1>2, <1>10, <2>2, ZoneFacts
    <3>. QED
      BY <1>2, <1>4, <2>2, <3>1 DEF P
  <2>. QED
    BY <2>1, <2>2
<1>11. G \subseteq N /\ N \subseteq Pages \ {0}
  <2>1. base \in base..(base + P - 1) /\ \A m \in base..(base + P - 1) : m \in Pages \ {0}
    BY <1>1, <1>2 DEF Pages
  <2>. QED
    BY <2>1, TileFacts
<1>12. Tiles(new, G, N)
  BY <1>4, <1>6, <1>7, <1>8, <1>9, <1>10, <1>11 DEF Tiles
<1>. QED
  BY <1>12 DEF P

\* split_to(): the upper half takes over the chain, the lower half points to it.
LEMMA SplitChains ==
  ASSUME PmmAssumption, NEW order, NEW next, NEW H, NEW M, Tiles(order, H, M), Chains(next, order, H, M),
         NEW pg \in H, NEW k \in Nat, order[pg] = k + 1, NEW buddy, buddy = pg + Pow2[k],
         NEW new, new[pg] = k, new[buddy] = k, \A m \in Pages : m # pg /\ m # buddy => new[m] = order[m],
         NEW link \in [Pages -> Pages], link[pg] = buddy, link[buddy] = next[pg],
         \A m \in Pages : m # pg /\ m # buddy => link[m] = next[m]
  PROVE  Chains(link, new, H \cup {buddy}, M)
<1>. DEFINE P == Pow2[k]
<1>1. /\ buddy \in M /\ buddy \notin H /\ buddy # pg /\ buddy \in Pages
      /\ \A z \in Zones : InZone(z, pg) => InZone(z, buddy)
  BY UpperHalf
<1>2. pg \in Nat /\ pg \in Pages /\ pg \in M /\ P \in Nat /\ P > 0 /\ Pow2[k + 1] = 2 * P /\ pg # 0
  BY TileFacts, PowFacts
<1>3. /\ link \in [Pages -> Pages] /\ link[pg] = buddy /\ link[buddy] = next[pg]
      /\ \A m \in Pages : m # pg /\ m # buddy => link[m] = next[m]
  OBVIOUS
<1>4. ASSUME NEW m \in Pages \ M PROVE link[m] = 0
  BY <1>1, <1>2, <1>3 DEF Chains
<1>. HIDE DEF P
<1>5. ASSUME NEW z \in Zones, InZone(z, pg) PROVE InZone(z, buddy)
  BY <1>1, <1>5
<1>6. ASSUME NEW h \in H \cup {buddy}, link[h] # 0
      PROVE  /\ link[h] = h + Pow2[new[h]] /\ link[h] \in M
             /\ \A z \in Zones : InZone(z, h) => InZone(z, link[h])
  <2>1. CASE h = pg
    BY <1>1, <1>3, <1>5, <2>1
  <2>2. CASE h = buddy
    <3>1. next[pg] = pg + 2 * P /\ next[pg] \in M /\ \A z \in Zones : InZone(z, pg) => InZone(z, next[pg])
      BY <1>2, <1>3, <1>6, <2>2 DEF Chains
    <3>2. next[pg] = buddy + P
      BY <1>2, <3>1 DEF P
    <3>3. PICK y \in Zones : InZone(y, pg)
      BY <1>2, ZoneFacts
    <3>4. InZone(y, buddy)
      BY <1>5, <3>3
    <3>5. \A z \in Zones : InZone(z, buddy) => z = y
      BY <1>1, <3>4, ZoneFacts
    <3>6. \A z \in Zones : InZone(z, buddy) => InZone(z, next[pg])
      BY <3>1, <3>3, <3>5
    <3>. QED
      BY <1>1, <1>3, <2>2, <3>1, <3>2, <3>6 DEF P
  <2>3. CASE h # pg /\ h # buddy
    <3>1. h \in H /\ h \in Pages
      BY <2>3, TileFacts
    <3>. QED
      BY <1>1, <1>3, <1>6, <2>3, <3>1 DEF Chains
  <2>. QED
    BY <2>1, <2>2, <2>3
<1>. QED
  BY <1>3, <1>4, <1>6 DEF Chains

\* coalesce_to(): the merged block takes over the chain of its upper half.
LEMMA MergeChains ==
  ASSUME PmmAssumption, NEW order, NEW next, NEW H, NEW M, Tiles(order, H, M), Chains(next, order, H, M),
         NEW curr \in H, NEW buddy \in H, NEW k \in Nat, k + 1 \in Orders,
         order[curr] = k, order[buddy] = k, buddy = curr + Pow2[k],
         \A z \in Zones : InZone(z, curr) => InZone(z, buddy),
         NEW new, new[curr] = k + 1, \A m \in Pages : m # curr => new[m] = order[m],
         NEW link \in [Pages -> Pages], link[curr] = next[buddy], \A m \in Pages : m # curr => link[m] = next[m]
  PROVE  Chains(link, new, H \ {buddy}, M)
<1>. DEFINE P == Pow2[k]
<1>1. /\ curr \in Nat /\ curr \in Pages /\ curr \in M /\ P \in Nat /\ P > 0 /\ Pow2[k + 1] = 2 * P
      /\ buddy \in Pages /\ order \in [Pages -> Orders]
  BY TileFacts, PowFacts
<1>2. new[curr] = k + 1 /\ \A m \in Pages : m # curr => new[m] = order[m]
  OBVIOUS
<1>3. /\ link \in [Pages -> Pages] /\ link[curr] = next[buddy]
      /\ \A m \in Pages : m # curr => link[m] = next[m]
  OBVIOUS
<1>4. ASSUME NEW m \in Pages \ M PROVE link[m] = 0
  BY <1>1, <1>3 DEF Chains
<1>. HIDE DEF P
<1>5. ASSUME NEW h \in H \ {buddy}, link[h] # 0
      PROVE  /\ link[h] = h + Pow2[new[h]] /\ link[h] \in M
             /\ \A z \in Zones : InZone(z, h) => InZone(z, link[h])
  <2>1. CASE h = curr
    <3>1. /\ next[buddy] = buddy + P /\ next[buddy] \in M
          /\ \A z \in Zones : InZone(z, buddy) => InZone(z, next[buddy])
      BY <1>3, <1>5, <2>1 DEF Chains, P
    <3>2. next[buddy] = curr + 2 * P
      BY <1>1, <3>1 DEF P
    <3>. QED
      BY <1>1, <1>2, <1>3, <2>1, <3>1, <3>2
  <2>2. CASE h # curr
    <3>1. h \in H /\ h \in Pages
      BY TileFacts
    <3>. QED
      BY <1>2, <1>3, <1>5, <2>2, <3>1 DEF Chains
  <2>. QED
    BY <2>1, <2>2
<1>. QED
  BY <1>3, <1>4, <1>5 DEF Chains

\* add_range(): a new block has no chain.
LEMMA AddChains ==
  ASSUME PmmAssumption, NEW order, NEW next, NEW H, NEW M, Tiles(order, H, M), Chains(next, order, H, M),
         NEW base \in Pages, base \notin M, NEW N, M \subseteq N,
         NEW new, \A m \in Pages : m # base => new[m] = order[m]
  PROVE  Chains(next, new, H \cup {base}, N)
<1>1. next[base] = 0 /\ \A m \in Pages \ N : next[m] = 0
  BY DEF Chains
<1>2. \A h \in H : h \in Pages /\ h # base
  BY TileFacts
<1>. QED
  BY <1>1, <1>2 DEF Chains

-----------------------------------------------------------------------------
(* Free lists.                                                             *)

\* put().
LEMMA PutList ==
  ASSUME NEW s \in Seq(Pages), NEW pg \in Pages, IsInjective(s), pg \notin Range(s)
  PROVE  /\ <<pg>> \o s \in Seq(Pages) /\ <<pg>> \o s # <<>>
         /\ IsInjective(<<pg>> \o s) /\ Range(<<pg>> \o s) = Range(s) \cup {pg}
<1>. DEFINE t == <<pg>> \o s
<1>1. /\ t \in Seq(Pages) /\ Len(t) = Len(s) + 1 /\ t[1] = pg /\ Len(s) \in Nat
      /\ DOMAIN s = 1..Len(s) /\ DOMAIN t = 1..(Len(s) + 1)
      /\ \A i \in 1..Len(s) : t[i + 1] = s[i]
  OBVIOUS
<1>. HIDE DEF t
<1>2. \A i \in DOMAIN t : i # 1 => i - 1 \in DOMAIN s /\ t[i] = s[i - 1]
  BY <1>1
<1>3. \A j \in DOMAIN s : s[j] # pg
  BY DEF Range
<1>4. IsInjective(t)
  <2>. SUFFICES ASSUME NEW i \in DOMAIN t, NEW j \in DOMAIN t, t[i] = t[j]
                PROVE  i = j
    BY DEF IsInjective
  <2>1. i \in Int /\ j \in Int
    BY <1>1
  <2>2. CASE i # 1 /\ j # 1
    <3>1. i - 1 = j - 1
      BY <1>2, <2>2 DEF IsInjective
    <3>. QED
      BY <2>1, <3>1
  <2>. QED
    BY <1>1, <1>2, <1>3, <2>2
<1>5. ASSUME NEW x PROVE x \in Range(t) <=> x \in Range(s) \cup {pg}
  <2>1. ASSUME x \in Range(t) PROVE x \in Range(s) \cup {pg}
    <3>1. PICK i \in DOMAIN t : x = t[i]
      BY <2>1 DEF Range
    <3>. QED
      BY <1>1, <1>2, <3>1 DEF Range
  <2>2. ASSUME x \in Range(s) PROVE x \in Range(t)
    <3>1. PICK i \in DOMAIN s : x = s[i]
      BY <2>2 DEF Range
    <3>2. i + 1 \in DOMAIN t /\ t[i + 1] = x
      BY <1>1, <3>1
    <3>. QED
      BY <3>2 DEF Range
  <2>3. pg \in Range(t)
    <3>1. 1 \in DOMAIN t
      BY <1>1
    <3>. QED
      BY <1>1, <3>1 DEF Range
  <2>. QED
    BY <2>1, <2>2, <2>3
<1>6. t # <<>>
  BY <1>1
<1>. QED
  BY <1>1, <1>4, <1>5, <1>6 DEF t

\* A list without one of its pages: rem() takes the first, coalesce_to() any.
LEMMA RemoveList ==
  ASSUME NEW s \in Seq(Pages), IsInjective(s), NEW n \in 1..Len(s)
  PROVE  /\ RemoveAt(s, n) \in Seq(Pages) /\ IsInjective(RemoveAt(s, n))
         /\ Range(RemoveAt(s, n)) = Range(s) \ {s[n]}
<1>. DEFINE t == RemoveAt(s, n)
<1>1. /\ t \in Seq(Pages) /\ Len(t) = Len(s) - 1 /\ Len(s) \in Nat /\ Len(s) > 0
      /\ \A i \in 1..(Len(s) - 1) : t[i] = IF i < n THEN s[i] ELSE s[i + 1]
  <2>. DEFINE u == SubSeq(s, 1, n - 1)
              v == SubSeq(s, n + 1, Len(s))
  <2>1. n \in Nat /\ 1 <= n /\ n <= Len(s) /\ Len(s) \in Nat /\ \A i \in 1..Len(s) : s[i] \in Pages
    OBVIOUS
  <2>2. u \in Seq(Pages) /\ Len(u) = n - 1 /\ \A i \in 1..(n - 1) : u[i] = s[i]
    BY <2>1
  <2>3. v \in Seq(Pages) /\ Len(v) = Len(s) - n /\ \A i \in 1..(Len(s) - n) : v[i] = s[n + i]
    BY <2>1
  <2>4. t = u \o v
    BY DEF RemoveAt
  <2>. HIDE DEF u, v, t
  <2>5. t \in Seq(Pages) /\ Len(t) = Len(s) - 1
    BY <2>1, <2>2, <2>3, <2>4
  <2>6. ASSUME NEW i \in 1..(Len(s) - 1) PROVE t[i] = IF i < n THEN s[i] ELSE s[i + 1]
    <3>1. CASE i < n
      BY <2>1, <2>2, <2>3, <2>4, <3>1
    <3>2. CASE ~(i < n)
      <4>1. i - (n - 1) \in 1..(Len(s) - n) /\ n + (i - (n - 1)) = i + 1
        BY <2>1, <3>2
      <4>2. t[i] = v[i - (n - 1)]
        BY <2>1, <2>2, <2>3, <2>4, <3>2
      <4>. QED
        BY <2>3, <3>2, <4>1, <4>2
    <3>. QED
      BY <3>1, <3>2
  <2>. QED
    BY <2>1, <2>5, <2>6
<1>2. DOMAIN s = 1..Len(s) /\ DOMAIN t = 1..(Len(s) - 1)
  BY <1>1
<1>. HIDE DEF t
<1>. DEFINE up(i) == IF i < n THEN i ELSE i + 1
            down(i) == IF i < n THEN i ELSE i - 1
<1>3. \A i \in DOMAIN t : up(i) \in DOMAIN s /\ up(i) # n /\ t[i] = s[up(i)] /\ down(up(i)) = i
  BY <1>1, <1>2
<1>4. \A i \in DOMAIN s : i # n => down(i) \in DOMAIN t /\ up(down(i)) = i
  BY <1>1, <1>2
<1>5. n \in DOMAIN s
  BY <1>2
<1>. HIDE DEF up, down
<1>6. IsInjective(t)
  <2>. SUFFICES ASSUME NEW i \in DOMAIN t, NEW j \in DOMAIN t, t[i] = t[j]
                PROVE  i = j
    BY DEF IsInjective
  <2>1. up(i) = up(j)
    BY <1>3 DEF IsInjective
  <2>. QED
    BY <1>3, <2>1
<1>7. ASSUME NEW x PROVE x \in Range(t) <=> x \in Range(s) \ {s[n]}
  <2>1. ASSUME x \in Range(t) PROVE x \in Range(s) \ {s[n]}
    <3>1. PICK i \in DOMAIN t : x = t[i]
      BY <2>1 DEF Range
    <3>2. x = s[up(i)] /\ up(i) \in DOMAIN s /\ up(i) # n
      BY <1>3, <3>1
    <3>. QED
      BY <1>5, <3>2 DEF Range, IsInjective
  <2>2. ASSUME x \in Range(s) \ {s[n]} PROVE x \in Range(t)
    <3>1. PICK i \in DOMAIN s : x = s[i]
      BY <2>2 DEF Range
    <3>2. i # n
      BY <2>2, <3>1
    <3>3. down(i) \in DOMAIN t /\ t[down(i)] = x
      BY <1>3, <1>4, <3>1, <3>2
    <3>. QED
      BY <3>3 DEF Range
  <2>. QED
    BY <2>1, <2>2
<1>. QED
  BY <1>1, <1>6, <1>7 DEF t

\* rem() of the head of a list.
LEMMA TailList ==
  ASSUME NEW s \in Seq(Pages), IsInjective(s), s # <<>>
  PROVE  /\ Tail(s) \in Seq(Pages) /\ IsInjective(Tail(s)) /\ Head(s) \in Range(s)
         /\ Range(Tail(s)) = Range(s) \ {Head(s)}
<1>1. 1 \in 1..Len(s) /\ Head(s) = s[1] /\ 1 \in DOMAIN s
  OBVIOUS
<1>2. Tail(s) = RemoveAt(s, 1)
  BY <1>1 DEF RemoveAt
<1>3. Head(s) \in Range(s)
  BY <1>1 DEF Range
<1>. QED
  BY <1>1, <1>2, <1>3, RemoveList

\* remove() in the middle of a list.
LEMMA RemoveFirstList ==
  ASSUME NEW s \in Seq(Pages), IsInjective(s), NEW e \in Range(s)
  PROVE  /\ RemoveFirst(s, e) \in Seq(Pages) /\ IsInjective(RemoveFirst(s, e))
         /\ Range(RemoveFirst(s, e)) = Range(s) \ {e}
<1>. DEFINE I == {i \in 1..Len(s) : s[i] = e}
<1>1. I # {} /\ I \subseteq Nat /\ \E i \in 1..Len(s) : s[i] = e
  BY DEF Range
<1>2. SelectInSeq(s, LAMBDA v : v = e) = Min(I)
  BY <1>1 DEF SelectInSeq
<1>3. \E x \in I : \A y \in I : x <= y
  <2>. HIDE DEF I
  <2>. QED BY <1>1, LeastNatural
<1>4. Min(I) \in I
  <2>. HIDE DEF I
  <2>. QED BY <1>3 DEF Min
<1>5. RemoveFirst(s, e) = RemoveAt(s, Min(I))
  BY <1>1, <1>2 DEF RemoveFirst
<1>6. Min(I) \in 1..Len(s) /\ s[Min(I)] = e
  <2>. DEFINE n == Min(I)
  <2>1. n \in I
    BY <1>4
  <2>. HIDE DEF n
  <2>. QED
    BY <2>1 DEF n
<1>. HIDE DEF I
<1>. QED
  BY <1>5, <1>6, RemoveList

-----------------------------------------------------------------------------
(* The record of an allocator.                                             *)

Taken(p) == {m \in Pages : p.allocated[m]}

\* The free lists hold the pages of F, each once and where it belongs.
Lists(lists, order, F) ==
  /\ lists \in [Zones -> [Orders -> Seq(Pages)]] /\ F \subseteq Pages
  /\ \A z \in Zones, k \in Orders :
       /\ IsInjective(lists[z][k])
       /\ \A m : m \in Range(lists[z][k]) <=> m \in F /\ order[m] = k /\ InZone(z, m)

\* The inductive invariant of an allocator: its blocks, with the heads H, tile M.
Sound(p, H, M) ==
  /\ p \in PmType
  /\ Tiles(p.order, H, M) /\ Chains(p.next, p.order, H, M)
  /\ Taken(p) \subseteq H
  /\ Lists(p.lists, p.order, H \ Taken(p))

\* What it does to the blocks in use: nothing.
Kept(p, q) ==
  Taken(q) = Taken(p) /\ \A m \in Taken(p) : q.order[m] = p.order[m]

LEMMA TypeFacts ==
  ASSUME NEW p \in PmType
  PROVE  /\ p.lists \in [Zones -> [Orders -> Seq(Pages)]] /\ p.next \in [Pages -> Pages]
         /\ p.order \in [Pages -> Orders] /\ p.allocated \in [Pages -> BOOLEAN]
         /\ \A z \in Zones, k \in Orders : p.lists[z][k] \in Seq(Pages)
<1>1. /\ p.lists \in [Zones -> [Orders -> Seq(Pages)]] /\ p.next \in [Pages -> Pages]
      /\ p.order \in [Pages -> Orders] /\ p.allocated \in [Pages -> BOOLEAN]
  BY DEF PmType
<1>. QED
  BY <1>1

\* An update of one free list.
WithList(p, z, k, s) == [p EXCEPT !.lists[z][k] = s]
LEMMA ListUpdate ==
  ASSUME NEW p \in PmType, NEW z \in Zones, NEW k \in Orders, NEW s \in Seq(Pages),
         NEW q, q = WithList(p, z, k, s)
  PROVE  /\ q \in PmType /\ q.next = p.next /\ q.order = p.order /\ q.allocated = p.allocated
         /\ q.lists[z][k] = s
         /\ \A y \in Zones, j \in Orders : y # z \/ j # k => q.lists[y][j] = p.lists[y][j]
<1>1. p.lists \in [Zones -> [Orders -> Seq(Pages)]]
  BY TypeFacts
<1>. DEFINE l == [p.lists EXCEPT ![z][k] = s]
<1>2. /\ l \in [Zones -> [Orders -> Seq(Pages)]] /\ l[z][k] = s
      /\ \A y \in Zones, j \in Orders : y # z \/ j # k => l[y][j] = p.lists[y][j]
  BY <1>1
<1>3. q = [p EXCEPT !.lists = l]
  BY DEF WithList
<1>. HIDE DEF l
<1>4. q \in PmType /\ q.next = p.next /\ q.order = p.order /\ q.allocated = p.allocated /\ q.lists = l
  BY <1>2, <1>3 DEF PmType
<1>. QED
  BY <1>2, <1>4

\* Only the pages of a list matter.
LEMMA ListsOrder ==
  ASSUME NEW lists, NEW order, NEW new, NEW F, Lists(lists, order, F), \A m \in F : new[m] = order[m]
  PROVE  Lists(lists, new, F)
<1>1. ASSUME NEW z \in Zones, NEW k \in Orders
      PROVE  /\ IsInjective(lists[z][k])
             /\ \A m : m \in Range(lists[z][k]) <=> m \in F /\ new[m] = k /\ InZone(z, m)
  <2>1. /\ IsInjective(lists[z][k])
        /\ \A m : m \in Range(lists[z][k]) <=> m \in F /\ order[m] = k /\ InZone(z, m)
    BY DEF Lists
  <2>. QED
    BY <2>1
<1>. QED
  BY <1>1 DEF Lists

\* A page leaves its list.
LEMMA ListsLess ==
  ASSUME PmmAssumption, NEW lists, NEW order, NEW F, Lists(lists, order, F),
         NEW z \in Zones, NEW k \in Orders, NEW pg \in Pages, pg \in Range(lists[z][k]),
         NEW new \in [Zones -> [Orders -> Seq(Pages)]],
         IsInjective(new[z][k]), Range(new[z][k]) = Range(lists[z][k]) \ {pg},
         \A y \in Zones, j \in Orders : y # z \/ j # k => new[y][j] = lists[y][j]
  PROVE  Lists(new, order, F \ {pg})
<1>1. pg \in F /\ order[pg] = k /\ InZone(z, pg) /\ pg \in Pages
  BY DEF Lists
<1>2. ASSUME NEW y \in Zones, NEW j \in Orders
      PROVE  /\ IsInjective(new[y][j])
             /\ \A m : m \in Range(new[y][j]) <=> m \in F \ {pg} /\ order[m] = j /\ InZone(y, m)
  <2>1. CASE y = z /\ j = k
    BY <1>1, <2>1 DEF Lists
  <2>2. CASE y # z \/ j # k
    <3>1. ~(order[pg] = j /\ InZone(y, pg))
      BY <1>1, <2>2, ZoneFacts
    <3>2. new[y][j] = lists[y][j]
      BY <2>2
    <3>. QED
      BY <3>1, <3>2 DEF Lists
  <2>. QED
    BY <2>1, <2>2
<1>. QED
  BY <1>2 DEF Lists

\* A page comes onto its list.
LEMMA ListsMore ==
  ASSUME PmmAssumption, NEW lists, NEW order, NEW F, Lists(lists, order, F),
         NEW z \in Zones, NEW k \in Orders, NEW pg \in Pages, pg \notin F, order[pg] = k, InZone(z, pg),
         NEW new \in [Zones -> [Orders -> Seq(Pages)]],
         IsInjective(new[z][k]), Range(new[z][k]) = Range(lists[z][k]) \cup {pg},
         \A y \in Zones, j \in Orders : y # z \/ j # k => new[y][j] = lists[y][j]
  PROVE  Lists(new, order, F \cup {pg})
<1>1. ASSUME NEW y \in Zones, NEW j \in Orders
      PROVE  /\ IsInjective(new[y][j])
             /\ \A m : m \in Range(new[y][j]) <=> m \in F \cup {pg} /\ order[m] = j /\ InZone(y, m)
  <2>1. CASE y = z /\ j = k
    BY <2>1 DEF Lists
  <2>2. CASE y # z \/ j # k
    <3>1. ~(order[pg] = j /\ InZone(y, pg))
      BY <2>2, ZoneFacts
    <3>2. new[y][j] = lists[y][j]
      BY <2>2
    <3>. QED
      BY <3>1, <3>2 DEF Lists
  <2>. QED
    BY <2>1, <2>2
<1>2. F \cup {pg} \subseteq Pages
  BY DEF Lists
<1>. QED
  BY <1>1, <1>2 DEF Lists

\* q is p with the free list of zone z and this order changed.
Relisted(q, p, order, F) ==
  /\ q \in PmType /\ q.next = p.next /\ q.order = p.order /\ q.allocated = p.allocated
  /\ Lists(q.lists, order, F)

\* put().
PutReady(p, order, F, z, k, pg) ==
  /\ p \in PmType /\ Lists(p.lists, order, F) /\ z \in Zones /\ k \in Orders
  /\ pg \in Pages /\ pg \notin F /\ order[pg] = k /\ InZone(z, pg)
LEMMA PutFacts ==
  ASSUME PmmAssumption, NEW p, NEW order, NEW F, NEW z, NEW k, NEW pg, PutReady(p, order, F, z, k, pg)
  PROVE  Relisted(Put(p, z, k, pg), p, order, F \cup {pg}) /\ HasPages(Put(p, z, k, pg), z, k)
<1>. DEFINE s == p.lists[z][k]
            t == <<pg>> \o s
            q == Put(p, z, k, pg)
<1>0. /\ p \in PmType /\ Lists(p.lists, order, F) /\ z \in Zones /\ k \in Orders
      /\ pg \in Pages /\ pg \notin F /\ order[pg] = k /\ InZone(z, pg)
  BY DEF PutReady
<1>1. s \in Seq(Pages) /\ IsInjective(s) /\ pg \notin Range(s)
  BY <1>0, TypeFacts DEF Lists
<1>2. t \in Seq(Pages) /\ t # <<>> /\ IsInjective(t) /\ Range(t) = Range(s) \cup {pg}
  <2>. HIDE DEF s
  <2>. QED BY <1>0, <1>1, PutList
<1>3. q = WithList(p, z, k, t)
  BY <1>0, TypeFacts DEF Put, WithList
<1>. HIDE DEF t, q
<1>4. /\ q \in PmType /\ q.next = p.next /\ q.order = p.order /\ q.allocated = p.allocated
      /\ q.lists[z][k] = t
      /\ \A y \in Zones, j \in Orders : y # z \/ j # k => q.lists[y][j] = p.lists[y][j]
  BY <1>0, <1>2, <1>3, ListUpdate
<1>5. q.lists \in [Zones -> [Orders -> Seq(Pages)]]
  BY <1>4, TypeFacts
<1>6. Lists(q.lists, order, F \cup {pg})
  BY <1>0, <1>2, <1>4, <1>5, ListsMore
<1>7. HasPages(q, z, k)
  BY <1>2, <1>4 DEF HasPages
<1>. QED
  BY <1>4, <1>6, <1>7 DEF q, Relisted

\* A list without one of its pages.
LessReady(p, order, F, z, k, pg, t) ==
  /\ p \in PmType /\ Lists(p.lists, order, F) /\ z \in Zones /\ k \in Orders
  /\ pg \in Range(p.lists[z][k])
  /\ t \in Seq(Pages) /\ IsInjective(t) /\ Range(t) = Range(p.lists[z][k]) \ {pg}
LEMMA LessFacts ==
  ASSUME PmmAssumption, NEW p, NEW order, NEW F, NEW z, NEW k, NEW pg, NEW t,
         LessReady(p, order, F, z, k, pg, t)
  PROVE  /\ Relisted(WithList(p, z, k, t), p, order, F \ {pg}) /\ WithList(p, z, k, t).lists[z][k] = t
         /\ pg \in F /\ pg \in Pages /\ order[pg] = k /\ InZone(z, pg)
<1>. DEFINE q == WithList(p, z, k, t)
<1>0. /\ p \in PmType /\ Lists(p.lists, order, F) /\ z \in Zones /\ k \in Orders
      /\ pg \in Range(p.lists[z][k])
      /\ t \in Seq(Pages) /\ IsInjective(t) /\ Range(t) = Range(p.lists[z][k]) \ {pg}
  BY DEF LessReady
<1>1. q = WithList(p, z, k, t)
  OBVIOUS
<1>. HIDE DEF q
<1>2. /\ q \in PmType /\ q.next = p.next /\ q.order = p.order /\ q.allocated = p.allocated
      /\ q.lists[z][k] = t
      /\ \A y \in Zones, j \in Orders : y # z \/ j # k => q.lists[y][j] = p.lists[y][j]
  BY <1>0, <1>1, ListUpdate
<1>3. q.lists \in [Zones -> [Orders -> Seq(Pages)]]
  BY <1>2, TypeFacts
<1>4. pg \in F /\ order[pg] = k /\ InZone(z, pg) /\ pg \in Pages
  BY <1>0 DEF Lists
<1>5. Lists(q.lists, order, F \ {pg})
  <2>1. IsInjective(q.lists[z][k]) /\ Range(q.lists[z][k]) = Range(p.lists[z][k]) \ {pg}
    BY <1>0, <1>2
  <2>. QED
    BY <1>0, <1>2, <1>3, <1>4, <2>1, ListsLess
<1>. QED
  BY <1>2, <1>4, <1>5 DEF q, Relisted

\* rem().
RemReady(p, order, F, z, k) ==
  p \in PmType /\ Lists(p.lists, order, F) /\ z \in Zones /\ k \in Orders /\ HasPages(p, z, k)
LEMMA RemFacts ==
  ASSUME PmmAssumption, NEW p, NEW order, NEW F, NEW z, NEW k, RemReady(p, order, F, z, k)
  PROVE  LET pg == Head(p.lists[z][k])
         IN  /\ Relisted(Rem(p, z, k), p, order, F \ {pg})
             /\ pg \in F /\ pg \in Pages /\ order[pg] = k /\ InZone(z, pg)
<1>. DEFINE s == p.lists[z][k]
            t == Tail(s)
            pg == Head(s)
<1>0. p \in PmType /\ Lists(p.lists, order, F) /\ z \in Zones /\ k \in Orders /\ HasPages(p, z, k)
  BY DEF RemReady
<1>1. s \in Seq(Pages) /\ IsInjective(s) /\ s # <<>>
  BY <1>0, TypeFacts DEF Lists, HasPages
<1>2. t \in Seq(Pages) /\ IsInjective(t) /\ Range(t) = Range(s) \ {pg} /\ pg \in Range(s)
  <2>. HIDE DEF s
  <2>. QED BY <1>1, TailList
<1>3. Rem(p, z, k) = WithList(p, z, k, t)
  BY <1>0, TypeFacts DEF Rem, WithList
<1>. HIDE DEF t, pg
<1>4. LessReady(p, order, F, z, k, pg, t)
  BY <1>0, <1>2 DEF LessReady
<1>5. /\ Relisted(WithList(p, z, k, t), p, order, F \ {pg})
      /\ pg \in F /\ pg \in Pages /\ order[pg] = k /\ InZone(z, pg)
  BY <1>4, LessFacts
<1>. QED
  BY <1>3, <1>5 DEF pg

\* What an allocator that is sound says of its pages.
LEMMA SoundFacts ==
  ASSUME PmmAssumption, NEW p, NEW H, NEW M, Sound(p, H, M)
  PROVE  /\ p \in PmType /\ Tiles(p.order, H, M) /\ Chains(p.next, p.order, H, M)
         /\ Taken(p) \subseteq H /\ Lists(p.lists, p.order, H \ Taken(p))
         /\ H \subseteq M /\ M \subseteq Pages /\ 0 \notin M
         /\ \A h \in H : h \in Nat /\ h \in Pages /\ h # 0 /\ p.order[h] \in Nat /\ p.order[h] \in Orders
                         /\ Pow2[p.order[h]] \in Nat /\ Pow2[p.order[h]] > 0
<1>1. /\ p \in PmType /\ Tiles(p.order, H, M) /\ Chains(p.next, p.order, H, M)
      /\ Taken(p) \subseteq H /\ Lists(p.lists, p.order, H \ Taken(p))
  BY DEF Sound
<1>. QED
  BY <1>1, TileFacts

-----------------------------------------------------------------------------
(* One split, one merge, one block more, one block less.                   *)

\* An update of struct page.
WithPages(p, order, next) == [p EXCEPT !.order = order, !.next = next]
LEMMA PagesUpdate ==
  ASSUME NEW p \in PmType, NEW order \in [Pages -> Orders], NEW next \in [Pages -> Pages],
         NEW q, q = WithPages(p, order, next)
  PROVE  /\ q \in PmType /\ q.order = order /\ q.next = next /\ q.lists = p.lists
         /\ q.allocated = p.allocated
  BY DEF WithPages, PmType

\* One round of split_to(): two halves instead of a block.
LEMMA SplitOnceSound ==
  ASSUME PmmAssumption, NEW p, NEW H, NEW M, Sound(p, H, M),
         NEW z \in Zones, NEW current \in Orders, current # 0, HasPages(p, z, current)
  PROVE  \E G : /\ Sound(SplitOnce(p, z, current), G, M) /\ Kept(p, SplitOnce(p, z, current))
                /\ HasPages(SplitOnce(p, z, current), z, current - 1)
<1>. DEFINE pg == Head(p.lists[z][current])
            k == current - 1
            buddy == pg + Pow2[k]
            r == Rem(p, z, current)
            o == [p.order EXCEPT ![pg] = k, ![buddy] = k]
            n == SplitNext(p, pg, buddy)
            q == WithPages(r, o, n)
            a == Put(q, z, k, pg)
            b == Put(a, z, k, buddy)
            T == Taken(p)
            F == H \ T
<1>1. SplitOnce(p, z, current) = b
  BY DEF SplitOnce, WithPages
<1>2. /\ p \in PmType /\ Tiles(p.order, H, M) /\ Chains(p.next, p.order, H, M)
      /\ T \subseteq H /\ Lists(p.lists, p.order, F) /\ H \subseteq M /\ M \subseteq Pages
      /\ p.order \in [Pages -> Orders] /\ p.next \in [Pages -> Pages]
  BY SoundFacts, TypeFacts
<1>3. /\ r \in PmType /\ r.next = p.next /\ r.order = p.order /\ r.allocated = p.allocated
      /\ Lists(r.lists, p.order, F \ {pg})
      /\ pg \in F /\ pg \in Pages /\ p.order[pg] = current /\ InZone(z, pg)
  <2>1. RemReady(p, p.order, F, z, current)
    BY <1>2 DEF RemReady
  <2>2. Relisted(r, p, p.order, F \ {pg}) /\ pg \in F /\ pg \in Pages /\ p.order[pg] = current /\ InZone(z, pg)
    BY <2>1, RemFacts
  <2>. QED
    BY <2>2 DEF Relisted
<1>4. k \in Nat /\ current = k + 1 /\ k \in Orders /\ current \in Nat
  BY ZoneFacts DEF Orders
<1>. HIDE DEF pg, k, r, F, T
<1>5. /\ buddy \in M /\ buddy \notin H /\ buddy # pg /\ buddy \in Pages /\ InZone(z, buddy) /\ pg \in H
  <2>1. pg \in H /\ p.order[pg] = k + 1
    BY <1>3, <1>4 DEF F
  <2>. QED
    BY <1>2, <1>3, <1>4, <2>1, UpperHalf
<1>. DEFINE bud == buddy
<1>6. bud = pg + Pow2[k] /\ bud = buddy
  OBVIOUS
<1>7. /\ o \in [Pages -> Orders] /\ o[pg] = k /\ o[buddy] = k
      /\ \A m \in Pages : m # pg /\ m # buddy => o[m] = p.order[m]
  <2>. HIDE DEF buddy
  <2>. QED
    BY <1>2, <1>3, <1>4, <1>5
<1>8. /\ n \in [Pages -> Pages] /\ n[pg] = buddy /\ n[buddy] = p.next[pg]
      /\ \A m \in Pages : m # pg /\ m # buddy => n[m] = p.next[m]
  <2>. HIDE DEF buddy
  <2>1. p.next[pg] \in Pages
    BY <1>2, <1>3
  <2>. QED
    BY <1>2, <1>3, <1>5, <2>1 DEF SplitNext
<1>. HIDE DEF o, n
<1>9. Tiles(o, H \cup {buddy}, M)
  BY <1>2, <1>3, <1>4, <1>5, <1>7, SplitTiles
<1>10. Chains(n, o, H \cup {buddy}, M)
  BY <1>2, <1>3, <1>4, <1>5, <1>7, <1>8, SplitChains
<1>. HIDE DEF buddy
<1>11. q \in PmType /\ q.order = o /\ q.next = n /\ q.lists = r.lists /\ q.allocated = p.allocated
  <2>. HIDE DEF q
  <2>. QED
    BY <1>3, <1>7, <1>8, PagesUpdate DEF q
<1>12. Lists(q.lists, o, F \ {pg})
  <2>1. \A m \in F \ {pg} : o[m] = p.order[m]
    BY <1>2, <1>5, <1>7 DEF F
  <2>. QED
    BY <1>3, <1>11, <2>1, ListsOrder
<1>. HIDE DEF q
<1>13. /\ a \in PmType /\ a.order = o /\ a.next = n /\ a.allocated = p.allocated
       /\ Lists(a.lists, o, (F \ {pg}) \cup {pg})
  <2>1. PutReady(q, o, F \ {pg}, z, k, pg)
    BY <1>3, <1>4, <1>7, <1>11, <1>12 DEF PutReady
  <2>2. Relisted(a, q, o, (F \ {pg}) \cup {pg})
    BY <2>1, PutFacts
  <2>. QED
    BY <1>11, <2>2 DEF Relisted
<1>14. (F \ {pg}) \cup {pg} = F /\ buddy \notin F /\ F \cup {buddy} = (H \cup {buddy}) \ T /\ buddy \notin T
  BY <1>2, <1>3, <1>5 DEF F
<1>15. Lists(a.lists, o, F)
  BY <1>13, <1>14
<1>. HIDE DEF a
<1>16. /\ b \in PmType /\ b.order = o /\ b.next = n /\ b.allocated = p.allocated
       /\ Lists(b.lists, o, F \cup {buddy}) /\ HasPages(b, z, k)
  <2>1. PutReady(a, o, F, z, k, buddy)
    BY <1>4, <1>5, <1>7, <1>13, <1>14, <1>15 DEF PutReady
  <2>2. Relisted(b, a, o, F \cup {buddy}) /\ HasPages(b, z, k)
    BY <2>1, PutFacts
  <2>. QED
    BY <1>13, <2>2 DEF Relisted
<1>. HIDE DEF b
<1>17. Taken(b) = T
  BY <1>16 DEF Taken, T
<1>18. Lists(b.lists, b.order, (H \cup {buddy}) \ Taken(b))
  BY <1>14, <1>16, <1>17
<1>19. Sound(b, H \cup {buddy}, M)
  BY <1>2, <1>9, <1>10, <1>16, <1>17, <1>18 DEF Sound
<1>20. Kept(p, b)
  <2>1. \A m \in T : m \in Pages /\ m # pg /\ m # buddy
    BY <1>2, <1>3, <1>14 DEF F
  <2>. QED
    BY <1>7, <1>16, <1>17, <2>1 DEF Kept, T
<1>21. HasPages(b, z, current - 1)
  BY <1>16 DEF k
<1>. QED
  BY <1>1, <1>19, <1>20, <1>21

\* The page behind a block is the head of another.
LEMMA BehindIsHead ==
  ASSUME PmmAssumption, NEW order, NEW H, NEW M, Tiles(order, H, M), NEW curr \in H,
         curr + Pow2[order[curr]] \in M
  PROVE  curr + Pow2[order[curr]] \in H
<1>. DEFINE e == curr + Pow2[order[curr]]
<1>1. PICK h \in H : h <= e /\ e < h + Pow2[order[h]]
  BY DEF Tiles
<1>2. /\ curr \in Nat /\ Pow2[order[curr]] \in Nat /\ Pow2[order[curr]] > 0 /\ h \in Nat
      /\ Pow2[order[h]] \in Nat /\ curr \in Pages
  BY TileFacts
<1>3. /\ h < curr => h + Pow2[order[h]] <= curr
      /\ curr < h => e <= h
  BY DEF Tiles
<1>4. e \in Nat /\ curr < e /\ e = curr + Pow2[order[curr]]
  BY <1>2
<1>5. ~(h < curr)
  <2>. HIDE DEF e
  <2>. QED BY <1>1, <1>2, <1>3, <1>4
<1>6. h # curr
  BY <1>1, <1>2
<1>7. h = e
  <2>. HIDE DEF e
  <2>. QED BY <1>1, <1>2, <1>3, <1>4, <1>5, <1>6
<1>. QED
  BY <1>7

\* Two pages leave a free list.
LEMMA LessTwo ==
  ASSUME PmmAssumption, NEW p \in PmType, NEW order, NEW F, Lists(p.lists, order, F),
         NEW z \in Zones, NEW k \in Orders, NEW a \in F, NEW b \in F, a # b,
         order[a] = k, order[b] = k, InZone(z, a), InZone(z, b)
  PROVE  Relisted(WithList(p, z, k, RemoveFirst(RemoveFirst(p.lists[z][k], a), b)), p, order, (F \ {a}) \ {b})
<1>. DEFINE s == p.lists[z][k]
            t == RemoveFirst(s, a)
            u == RemoveFirst(t, b)
            v == WithList(p, z, k, t)
            w == WithList(p, z, k, u)
<1>1. s \in Seq(Pages) /\ IsInjective(s) /\ a \in Range(s) /\ b \in Range(s) /\ a \in Pages /\ b \in Pages
  BY TypeFacts DEF Lists
<1>2. t \in Seq(Pages) /\ IsInjective(t) /\ Range(t) = Range(s) \ {a}
  <2>. HIDE DEF s
  <2>. QED BY <1>1, RemoveFirstList
<1>3. b \in Range(t)
  BY <1>1, <1>2
<1>4. u \in Seq(Pages) /\ IsInjective(u) /\ Range(u) = Range(t) \ {b}
  <2>. HIDE DEF t
  <2>. QED BY <1>2, <1>3, RemoveFirstList
<1>. HIDE DEF t, u
<1>5. LessReady(p, order, F, z, k, a, t)
  BY <1>1, <1>2 DEF LessReady
<1>6. Relisted(v, p, order, F \ {a}) /\ v.lists[z][k] = t
  BY <1>5, LessFacts
<1>7. v \in PmType /\ Lists(v.lists, order, F \ {a})
  BY <1>6 DEF Relisted
<1>8. \A y \in Zones, j \in Orders : y # z \/ j # k => v.lists[y][j] = p.lists[y][j]
  <2>1. v = WithList(p, z, k, t)
    OBVIOUS
  <2>. HIDE DEF v
  <2>. QED BY <1>2, <2>1, ListUpdate
<1>9. /\ w \in PmType /\ w.next = p.next /\ w.order = p.order /\ w.allocated = p.allocated
      /\ w.lists[z][k] = u
      /\ \A y \in Zones, j \in Orders : y # z \/ j # k => w.lists[y][j] = p.lists[y][j]
  <2>1. w = WithList(p, z, k, u)
    OBVIOUS
  <2>. HIDE DEF w
  <2>. QED BY <1>4, <2>1, ListUpdate
<1>. HIDE DEF v, w
<1>10. w.lists \in [Zones -> [Orders -> Seq(Pages)]]
  BY <1>9, TypeFacts
<1>11. Lists(w.lists, order, (F \ {a}) \ {b})
  <2>1. b \in Range(v.lists[z][k]) /\ IsInjective(w.lists[z][k]) /\ Range(w.lists[z][k]) = Range(v.lists[z][k]) \ {b}
    BY <1>3, <1>4, <1>6, <1>9
  <2>2. \A y \in Zones, j \in Orders : y # z \/ j # k => w.lists[y][j] = v.lists[y][j]
    BY <1>8, <1>9
  <2>. QED
    BY <1>1, <1>7, <1>10, <2>1, <2>2, ListsLess
<1>. QED
  BY <1>9, <1>11 DEF w, u, t, Relisted

\* What the test of coalesce_to() establishes.
LEMMA MergeableFacts ==
  ASSUME PmmAssumption, NEW p, NEW H, NEW M, Sound(p, H, M), NEW z \in Zones, NEW k \in Orders,
         NEW curr, curr \in Range(p.lists[z][k]), Mergeable(p, k, curr)
  PROVE  LET buddy == p.next[curr]
         IN  /\ curr \in H \ Taken(p) /\ buddy \in H \ Taken(p) /\ curr # buddy
             /\ p.order[curr] = k /\ p.order[buddy] = k /\ buddy = curr + Pow2[k]
             /\ InZone(z, curr) /\ InZone(z, buddy) /\ Aligned(curr, k + 1)
             /\ curr \in Pages /\ buddy \in Pages
<1>. DEFINE buddy == p.next[curr]
<1>1. /\ p \in PmType /\ Tiles(p.order, H, M) /\ Chains(p.next, p.order, H, M)
      /\ Lists(p.lists, p.order, H \ Taken(p)) /\ H \subseteq Pages
  BY SoundFacts
<1>2. curr \in H \ Taken(p) /\ p.order[curr] = k /\ InZone(z, curr) /\ curr \in Pages
  BY <1>1 DEF Lists
<1>3. buddy # 0 /\ Aligned(curr, k + 1) /\ ~p.allocated[buddy] /\ p.order[buddy] = k
  BY DEF Mergeable
<1>4. buddy = curr + Pow2[k] /\ buddy \in M /\ InZone(z, buddy)
  BY <1>1, <1>2, <1>3 DEF Chains
<1>5. buddy \in H
  <2>1. curr + Pow2[p.order[curr]] \in M
    BY <1>2, <1>4
  <2>2. curr + Pow2[p.order[curr]] \in H
    BY <1>1, <1>2, <2>1, BehindIsHead
  <2>. QED
    BY <1>2, <1>4, <2>2
<1>6. buddy \notin Taken(p)
  BY <1>3 DEF Taken
<1>7. curr # buddy
  <2>1. curr \in Nat /\ Pow2[p.order[curr]] \in Nat /\ Pow2[p.order[curr]] > 0
    BY <1>2, SoundFacts
  <2>. HIDE DEF buddy
  <2>. QED
    BY <1>2, <1>4, <2>1
<1>. QED
  BY <1>1, <1>2, <1>3, <1>4, <1>5, <1>6, <1>7

\* One round of coalesce_to(): a block instead of two halves, or nothing.
LEMMA MergeOnceSound ==
  ASSUME PmmAssumption, NEW p, NEW H, NEW M, Sound(p, H, M),
         NEW z \in Zones, NEW k \in Orders, k + 1 \in Orders
  PROVE  \E G : Sound(MergeOnce(p, z, k), G, M) /\ Kept(p, MergeOnce(p, z, k))
<1>. DEFINE list == p.lists[z][k]
            pairs == {i \in 1..Len(list) : Mergeable(p, k, list[i])}
            curr == list[Min(pairs)]
            buddy == p.next[curr]
            u == RemoveFirst(RemoveFirst(list, curr), buddy)
            w == WithList(p, z, k, u)
            o == [p.order EXCEPT ![curr] = k + 1]
            n == [p.next EXCEPT ![curr] = p.next[buddy]]
            q == WithPages(w, o, n)
            b == Put(q, z, k + 1, curr)
            T == Taken(p)
            F == H \ T
<1>1. CASE pairs = {}
  <2>1. MergeOnce(p, z, k) = p
    BY <1>1 DEF MergeOnce
  <2>2. Kept(p, p)
    BY DEF Kept
  <2>. QED
    BY <2>1, <2>2
<1>2. CASE pairs # {}
  <2>1. /\ p \in PmType /\ Tiles(p.order, H, M) /\ Chains(p.next, p.order, H, M)
        /\ T \subseteq H /\ Lists(p.lists, p.order, F) /\ H \subseteq M /\ M \subseteq Pages
        /\ p.order \in [Pages -> Orders] /\ p.next \in [Pages -> Pages] /\ list \in Seq(Pages)
    BY SoundFacts, TypeFacts
  <2>2. Min(pairs) \in pairs
    <3>1. pairs \subseteq Nat
      OBVIOUS
    <3>. HIDE DEF pairs
    <3>2. \E x \in pairs : \A y \in pairs : x <= y
      BY <1>2, <3>1, LeastNatural
    <3>. QED
      BY <3>2 DEF Min
  <2>3. curr \in Range(list) /\ Mergeable(p, k, curr)
    <3>1. Min(pairs) \in 1..Len(list) /\ Mergeable(p, k, curr)
      <4>. DEFINE x == Min(pairs)
      <4>1. x \in pairs
        BY <2>2
      <4>. HIDE DEF x
      <4>2. x \in 1..Len(list) /\ Mergeable(p, k, list[x])
        BY <4>1
      <4>. QED
        BY <4>2 DEF x
    <3>2. DOMAIN list = 1..Len(list)
      BY <2>1
    <3>. QED
      BY <3>1, <3>2 DEF Range
  <2>4. MergeOnce(p, z, k) = Put([p EXCEPT !.lists[z][k] = u, !.order[curr] = k + 1,
                                           !.next[curr] = p.next[buddy]], z, k + 1, curr)
    BY <1>2, <2>1 DEF MergeOnce
  <2>. HIDE DEF curr, pairs
  <2>5. /\ curr \in F /\ buddy \in F /\ curr # buddy
        /\ p.order[curr] = k /\ p.order[buddy] = k /\ buddy = curr + Pow2[k]
        /\ InZone(z, curr) /\ InZone(z, buddy) /\ Aligned(curr, k + 1)
        /\ curr \in Pages /\ buddy \in Pages
    BY <2>3, MergeableFacts
  <2>6. \A y \in Zones : InZone(y, curr) => InZone(y, buddy)
    BY <2>5, ZoneFacts
  <2>7. Relisted(w, p, p.order, (F \ {curr}) \ {buddy})
    <3>. HIDE DEF buddy, F
    <3>. QED
      BY <2>1, <2>5, LessTwo
  <2>8. [p EXCEPT !.lists[z][k] = u, !.order[curr] = k + 1, !.next[curr] = p.next[buddy]] = q
    <3>. HIDE DEF u, buddy
    <3>. QED
      BY <2>1 DEF WithPages, WithList, PmType
  <2>. HIDE DEF u, w
  <2>9. /\ o \in [Pages -> Orders] /\ o[curr] = k + 1
        /\ \A m \in Pages : m # curr => o[m] = p.order[m]
    BY <2>1, <2>5
  <2>10. /\ n \in [Pages -> Pages] /\ n[curr] = p.next[buddy]
         /\ \A m \in Pages : m # curr => n[m] = p.next[m]
    <3>1. p.next[buddy] \in Pages
      BY <2>1, <2>5
    <3>. HIDE DEF buddy
    <3>. QED
      BY <2>1, <2>5, <3>1
  <2>. HIDE DEF o, n, buddy
  <2>11. /\ curr \in H /\ buddy \in H /\ k \in Nat
         /\ w \in PmType /\ w.allocated = p.allocated /\ Lists(w.lists, p.order, (F \ {curr}) \ {buddy})
    BY <2>5, <2>7, ZoneFacts DEF Relisted, Orders
  <2>12. Tiles(o, H \ {buddy}, M)
    BY <2>1, <2>5, <2>6, <2>9, <2>11, MergeTiles
  <2>13. Chains(n, o, H \ {buddy}, M)
    BY <2>1, <2>5, <2>6, <2>9, <2>10, <2>11, MergeChains
  <2>14. q \in PmType /\ q.order = o /\ q.next = n /\ q.lists = w.lists /\ q.allocated = p.allocated
    <3>1. q = WithPages(w, o, n)
      OBVIOUS
    <3>. HIDE DEF q
    <3>2. q \in PmType /\ q.order = o /\ q.next = n /\ q.lists = w.lists /\ q.allocated = w.allocated
      BY <2>9, <2>10, <2>11, <3>1, PagesUpdate
    <3>. QED
      BY <2>11, <3>2
  <2>. HIDE DEF q
  <2>15. Lists(q.lists, o, (F \ {curr}) \ {buddy})
    <3>1. \A m \in (F \ {curr}) \ {buddy} : o[m] = p.order[m]
      BY <2>1, <2>9
    <3>. QED
      BY <2>11, <2>14, <3>1, ListsOrder
  <2>16. PutReady(q, o, (F \ {curr}) \ {buddy}, z, k + 1, curr)
    BY <2>5, <2>9, <2>14, <2>15 DEF PutReady
  <2>17. Relisted(b, q, o, ((F \ {curr}) \ {buddy}) \cup {curr})
    BY <2>16, PutFacts
  <2>18. ((F \ {curr}) \ {buddy}) \cup {curr} = (H \ {buddy}) \ T /\ T \subseteq H \ {buddy}
    BY <2>1, <2>5
  <2>19. /\ b \in PmType /\ b.order = o /\ b.next = n /\ b.allocated = p.allocated
         /\ Lists(b.lists, o, (H \ {buddy}) \ T)
    BY <2>14, <2>17, <2>18 DEF Relisted
  <2>20. MergeOnce(p, z, k) = b
    BY <2>4, <2>8
  <2>. HIDE DEF b
  <2>21. Taken(b) = T
    BY <2>19 DEF Taken
  <2>. HIDE DEF T, F
  <2>22. Lists(b.lists, b.order, (H \ {buddy}) \ Taken(b))
    BY <2>19, <2>21
  <2>23. Sound(b, H \ {buddy}, M)
    BY <2>12, <2>13, <2>18, <2>19, <2>21, <2>22 DEF Sound
  <2>24. Kept(p, b)
    <3>1. \A m \in T : m \in Pages /\ m # curr
      BY <2>1, <2>5 DEF F
    <3>. QED
      BY <2>9, <2>19, <2>21, <3>1 DEF Kept, T
  <2>. QED
    BY <2>20, <2>23, <2>24
<1>. QED
  BY <1>1, <1>2

\* add_range(): one block more.  order is a multiple of alignment that fits.
LEMMA BlockOrderFits ==
  ASSUME PmmAssumption, NEW base \in Nat, NEW size \in Nat \ {0}
  PROVE  /\ BlockOrder(base, size) \in Orders /\ Aligned(base, BlockOrder(base, size))
         /\ Pow2[BlockOrder(base, size)] <= size /\ Pow2[BlockOrder(base, size)] \in Nat
         /\ Pow2[BlockOrder(base, size)] > 0
<1>. DEFINE K == {k \in Orders : Aligned(base, k) /\ k <= PrevOrder(size)}
            m == BlockOrder(base, size)
<1>1. PrevOrder(size) \in Nat /\ Pow2[PrevOrder(size)] <= size
  BY PrevOrderFits
<1>2. MaxOrder \in Nat /\ Orders = 0..MaxOrder
  BY ZoneFacts DEF Orders
<1>3. 0 \in K /\ K \subseteq 0..MaxOrder
  BY <1>1, <1>2, PagesAligned
<1>4. m = Max(K)
  BY DEF BlockOrder
<1>5. Max(K) \in K
  <2>. HIDE DEF K
  <2>1. \E x \in K : \A y \in K : x >= y
    BY <1>2, <1>3, GreatestNatural
  <2>. QED
    BY <2>1 DEF Max
<1>. HIDE DEF m
<1>6. m \in K
  BY <1>4, <1>5
<1>7. m \in Orders /\ Aligned(base, m) /\ m \in 0..PrevOrder(size) /\ m \in Nat
  BY <1>1, <1>2, <1>6
<1>8. Pow2[m] <= Pow2[PrevOrder(size)] /\ Pow2[PrevOrder(size)] \in Nat /\ Pow2[m] \in Nat /\ Pow2[m] > 0
  BY <1>1, <1>7, PowMonotone, PowFacts
<1>. QED
  BY <1>1, <1>7, <1>8 DEF m

\* A block that is in no other.
AddReady(p, H, M, z, k, base) ==
  /\ Sound(p, H, M) /\ z \in Zones /\ k \in Orders /\ base \in Nat /\ Aligned(base, k)
  /\ ZoneStart(z) <= base /\ base + Pow2[k] <= ZoneEnd(z)
  /\ \A m \in M : m < base \/ base + Pow2[k] <= m

\* One round of allocator::add_range(): a new block behind what is there.
LEMMA AddSound ==
  ASSUME PmmAssumption, NEW p, NEW H, NEW M, NEW z, NEW k, NEW base, AddReady(p, H, M, z, k, base)
  PROVE  LET q == Put([p EXCEPT !.order[base] = k], z, k, base)
         IN  Sound(q, H \cup {base}, M \cup base..(base + Pow2[k] - 1)) /\ Kept(p, q)
<1>. DEFINE o == [p.order EXCEPT ![base] = k]
            c == [p EXCEPT !.order[base] = k]
            q == Put(c, z, k, base)
            N == M \cup base..(base + Pow2[k] - 1)
            T == Taken(p)
<1>1. /\ Sound(p, H, M) /\ z \in Zones /\ k \in Orders /\ base \in Nat /\ Aligned(base, k)
      /\ ZoneStart(z) <= base /\ base + Pow2[k] <= ZoneEnd(z)
      /\ \A m \in M : m < base \/ base + Pow2[k] <= m
  BY DEF AddReady
<1>2. /\ p \in PmType /\ Tiles(p.order, H, M) /\ Chains(p.next, p.order, H, M)
      /\ T \subseteq H /\ Lists(p.lists, p.order, H \ T) /\ H \subseteq M /\ M \subseteq Pages
      /\ p.order \in [Pages -> Orders]
  BY <1>1, SoundFacts, TypeFacts
<1>3. base \in Pages /\ base # 0 /\ base \notin M /\ InZone(z, base)
  BY <1>1, FreshBlock
<1>4. o \in [Pages -> Orders] /\ o[base] = k /\ \A m \in Pages : m # base => o[m] = p.order[m]
  BY <1>1, <1>2, <1>3
<1>5. c \in PmType /\ c.order = o /\ c.next = p.next /\ c.lists = p.lists /\ c.allocated = p.allocated
  BY <1>2, <1>4 DEF PmType
<1>. HIDE DEF o, c
<1>6. Tiles(o, H \cup {base}, N)
  BY <1>1, <1>2, <1>3, <1>4, AddTiles
<1>7. Chains(p.next, o, H \cup {base}, N)
  <2>1. M \subseteq N
    OBVIOUS
  <2>. HIDE DEF N
  <2>. QED
    BY <1>2, <1>3, <1>4, <2>1, AddChains
<1>8. Lists(c.lists, o, H \ T)
  <2>1. \A m \in H \ T : o[m] = p.order[m]
    BY <1>2, <1>3, <1>4
  <2>. QED
    BY <1>2, <1>5, <2>1, ListsOrder
<1>9. PutReady(c, o, H \ T, z, k, base)
  BY <1>1, <1>2, <1>3, <1>4, <1>5, <1>8 DEF PutReady
<1>10. Relisted(q, c, o, (H \ T) \cup {base})
  BY <1>9, PutFacts
<1>11. (H \ T) \cup {base} = (H \cup {base}) \ T
  BY <1>2, <1>3
<1>12. /\ q \in PmType /\ q.order = o /\ q.next = p.next /\ q.allocated = p.allocated
       /\ Lists(q.lists, o, (H \cup {base}) \ T)
  BY <1>5, <1>10, <1>11 DEF Relisted
<1>. HIDE DEF q
<1>13. Taken(q) = T
  BY <1>12 DEF Taken
<1>. HIDE DEF T, N
<1>14. Lists(q.lists, q.order, (H \cup {base}) \ Taken(q))
  BY <1>12, <1>13
<1>15. Sound(q, H \cup {base}, N)
  BY <1>2, <1>6, <1>7, <1>12, <1>13, <1>14 DEF Sound
<1>16. Kept(p, q)
  <2>1. \A m \in T : m \in Pages /\ m # base
    BY <1>2, <1>3
  <2>. QED
    BY <1>4, <1>12, <1>13, <2>1 DEF Kept, T
<1>. QED
  BY <1>15, <1>16 DEF q, c, N

\* alloc(): a block is marked.
LEMMA TakeSound ==
  ASSUME PmmAssumption, NEW p, NEW H, NEW M, Sound(p, H, M),
         NEW z \in Zones, NEW k \in Orders, HasPages(p, z, k)
  PROVE  LET ret == Head(p.lists[z][k])
             q == [Rem(p, z, k) EXCEPT !.allocated[ret] = TRUE]
         IN  /\ Sound(q, H, M) /\ Taken(q) = Taken(p) \cup {ret} /\ ret \in H /\ ret \notin Taken(p)
             /\ q.order = p.order /\ p.order[ret] = k
<1>. DEFINE ret == Head(p.lists[z][k])
            r == Rem(p, z, k)
            al == [p.allocated EXCEPT ![ret] = TRUE]
            q == [r EXCEPT !.allocated[ret] = TRUE]
            T == Taken(p)
<1>1. /\ p \in PmType /\ Tiles(p.order, H, M) /\ Chains(p.next, p.order, H, M)
      /\ T \subseteq H /\ Lists(p.lists, p.order, H \ T) /\ H \subseteq M /\ M \subseteq Pages
      /\ p.allocated \in [Pages -> BOOLEAN]
  BY SoundFacts, TypeFacts
<1>2. RemReady(p, p.order, H \ T, z, k)
  BY <1>1 DEF RemReady
<1>3. Relisted(r, p, p.order, (H \ T) \ {ret}) /\ ret \in H \ T /\ ret \in Pages /\ p.order[ret] = k
  <2>. HIDE DEF T
  <2>. DEFINE F == H \ T
  <2>1. RemReady(p, p.order, F, z, k)
    BY <1>2
  <2>. HIDE DEF F
  <2>2. Relisted(r, p, p.order, F \ {ret}) /\ ret \in F /\ ret \in Pages /\ p.order[ret] = k
    BY <2>1, RemFacts
  <2>. QED
    BY <2>2 DEF F
<1>4. /\ r \in PmType /\ r.next = p.next /\ r.order = p.order /\ r.allocated = p.allocated
      /\ Lists(r.lists, p.order, (H \ T) \ {ret})
  BY <1>3 DEF Relisted
<1>. HIDE DEF ret, r
<1>5. al \in [Pages -> BOOLEAN] /\ q = [r EXCEPT !.allocated = al]
  BY <1>1, <1>3, <1>4 DEF PmType
<1>6. {m \in Pages : al[m]} = T \cup {ret}
  <2>1. al[ret] = TRUE /\ \A m \in Pages : m # ret => al[m] = p.allocated[m]
    BY <1>1, <1>3
  <2>. HIDE DEF al
  <2>. QED
    BY <1>3, <2>1 DEF Taken
<1>. HIDE DEF al, q
<1>7. q \in PmType /\ q.order = p.order /\ q.next = p.next /\ q.lists = r.lists /\ q.allocated = al
  BY <1>4, <1>5 DEF PmType
<1>8. Taken(q) = T \cup {ret}
  BY <1>6, <1>7 DEF Taken
<1>9. (H \ T) \ {ret} = H \ Taken(q) /\ Taken(q) \subseteq H
  BY <1>1, <1>3, <1>8
<1>. HIDE DEF T
<1>10. Lists(q.lists, q.order, H \ Taken(q))
  BY <1>4, <1>7, <1>9
<1>11. Sound(q, H, M)
  BY <1>1, <1>7, <1>9, <1>10 DEF Sound
<1>. QED
  BY <1>3, <1>7, <1>8, <1>11 DEF q, r, ret, T

\* free(): a block is put back.
LEMMA GiveSound ==
  ASSUME PmmAssumption, NEW p, NEW H, NEW M, Sound(p, H, M),
         NEW z \in Zones, NEW k \in Orders, NEW pg \in Taken(p), p.order[pg] = k, InZone(z, pg)
  PROVE  LET q == Put([p EXCEPT !.allocated[pg] = FALSE], z, k, pg)
         IN  Sound(q, H, M) /\ Taken(q) = Taken(p) \ {pg} /\ q.order = p.order
<1>. DEFINE al == [p.allocated EXCEPT ![pg] = FALSE]
            c == [p EXCEPT !.allocated[pg] = FALSE]
            q == Put(c, z, k, pg)
            T == Taken(p)
<1>1. /\ p \in PmType /\ Tiles(p.order, H, M) /\ Chains(p.next, p.order, H, M)
      /\ T \subseteq H /\ Lists(p.lists, p.order, H \ T) /\ H \subseteq M /\ M \subseteq Pages
      /\ p.allocated \in [Pages -> BOOLEAN] /\ pg \in Pages
  BY SoundFacts, TypeFacts
<1>2. al \in [Pages -> BOOLEAN] /\ c = [p EXCEPT !.allocated = al]
  BY <1>1 DEF PmType
<1>3. {m \in Pages : al[m]} = T \ {pg}
  <2>1. al[pg] = FALSE /\ \A m \in Pages : m # pg => al[m] = p.allocated[m]
    BY <1>1
  <2>. HIDE DEF al
  <2>. QED
    BY <1>1, <2>1 DEF Taken
<1>. HIDE DEF al, c
<1>4. c \in PmType /\ c.order = p.order /\ c.next = p.next /\ c.lists = p.lists /\ c.allocated = al
  BY <1>1, <1>2 DEF PmType
<1>5. PutReady(c, p.order, H \ T, z, k, pg)
  BY <1>1, <1>4 DEF PutReady
<1>6. Relisted(q, c, p.order, (H \ T) \cup {pg})
  BY <1>5, PutFacts
<1>7. q \in PmType /\ q.order = p.order /\ q.next = p.next /\ q.allocated = al /\ Lists(q.lists, p.order, (H \ T) \cup {pg})
  BY <1>4, <1>6 DEF Relisted
<1>. HIDE DEF q
<1>8. Taken(q) = T \ {pg}
  BY <1>3, <1>7 DEF Taken
<1>9. (H \ T) \cup {pg} = H \ Taken(q) /\ Taken(q) \subseteq H
  BY <1>1, <1>8
<1>. HIDE DEF T
<1>10. Lists(q.lists, q.order, H \ Taken(q))
  BY <1>7, <1>9
<1>11. Sound(q, H, M)
  BY <1>1, <1>7, <1>9, <1>10 DEF Sound
<1>. QED
  BY <1>7, <1>8, <1>11 DEF q, c, T

-----------------------------------------------------------------------------
(* The loops.                                                              *)

Sane(p, M) == \E H : Sound(p, H, M)

\* What two steps leave alone both together leave alone.
LEMMA KeptTrans ==
  ASSUME NEW p, NEW q, NEW r, Kept(p, q), Kept(q, r)
  PROVE  Kept(p, r)
  BY DEF Kept

LEMMA SaneType ==
  ASSUME NEW p, NEW M, Sane(p, M)
  PROVE  p \in PmType
  BY DEF Sane, Sound

\* split_to().
LEMMA SplitDownSane ==
  ASSUME PmmAssumption, NEW p, NEW M, Sane(p, M), NEW z \in Zones,
         NEW top \in Orders, NEW target \in Orders, target < top, HasPages(p, z, top)
  PROVE  Sane(SplitDown(p, z, top, target), M) /\ Kept(p, SplitDown(p, z, top, target))
<1>. DEFINE n == top - target
<1>1. top \in Nat /\ target \in Nat /\ n \in Nat /\ MaxOrder \in Nat
  BY ZoneFacts DEF Orders
<1>2. PICK g : /\ DOMAIN g = 0..n /\ g[0] = p
               /\ \A i \in 1..n : g[i] = SplitOnce(g[i - 1], z, top - i + 1)
               /\ SplitDown(p, z, top, target) = g[n]
  <2>1. SplitArgs(p, z, top, target)
    BY <1>1, SaneType DEF SplitArgs
  <2>. QED
    BY <2>1, SplitDownSteps
<1>. DEFINE Good(i) == Sane(g[i], M) /\ Kept(p, g[i]) /\ HasPages(g[i], z, top - i)
            S == {i \in 0..n : Good(i)}
<1>3. 0 \in S
  <2>1. Kept(p, p) /\ top - 0 = top
    BY <1>1 DEF Kept
  <2>. QED
    BY <1>1, <1>2, <2>1
<1>4. ASSUME NEW i \in 1..n, i - 1 \in S
      PROVE  i \in S
  <2>. DEFINE c == top - i + 1
  <2>1. i \in Nat /\ c \in Nat /\ c \in Orders /\ c # 0 /\ top - (i - 1) = c /\ c - 1 = top - i
    BY <1>1 DEF Orders
  <2>2. Sane(g[i - 1], M) /\ Kept(p, g[i - 1]) /\ HasPages(g[i - 1], z, c)
    BY <1>4, <2>1
  <2>3. g[i] = SplitOnce(g[i - 1], z, c)
    BY <1>2
  <2>. HIDE DEF c
  <2>4. PICK H : Sound(g[i - 1], H, M)
    BY <2>2 DEF Sane
  <2>5. PICK G : Sound(g[i], G, M) /\ Kept(g[i - 1], g[i]) /\ HasPages(g[i], z, c - 1)
    BY <2>1, <2>2, <2>3, <2>4, SplitOnceSound
  <2>6. Kept(p, g[i])
    BY <2>2, <2>5, KeptTrans
  <2>7. Good(i)
    BY <2>1, <2>5, <2>6 DEF Sane
  <2>. QED
    BY <1>1, <2>7
<1>5. S = 0..n
  <2>1. S \subseteq 0..n
    OBVIOUS
  <2>. HIDE DEF S, n
  <2>. QED
    BY <1>1, <1>3, <1>4, <2>1, Inductive
<1>6. n \in S
  <2>. HIDE DEF S, n
  <2>. QED
    BY <1>1, <1>5
<1>. QED
  BY <1>2, <1>6

\* split_to(): the smallest larger block is taken apart.
LEMMA SplitToSane ==
  ASSUME PmmAssumption, NEW p, NEW M, Sane(p, M), NEW z \in Zones, NEW target \in Orders
  PROVE  Sane(SplitTo(p, z, target), M) /\ Kept(p, SplitTo(p, z, target))
<1>. DEFINE larger == {k \in Orders : k > target /\ HasPages(p, z, k)}
<1>1. CASE larger = {}
  <2>1. SplitTo(p, z, target) = p
    BY <1>1 DEF SplitTo
  <2>. QED
    BY <2>1 DEF Kept
<1>2. CASE larger # {}
  <2>1. larger \subseteq Nat
    BY ZoneFacts DEF Orders
  <2>2. Min(larger) \in larger
    <3>. HIDE DEF larger
    <3>1. \E x \in larger : \A y \in larger : x <= y
      BY <1>2, <2>1, LeastNatural
    <3>. QED
      BY <3>1 DEF Min
  <2>. DEFINE top == Min(larger)
  <2>3. SplitTo(p, z, target) = SplitDown(p, z, top, target)
    BY <1>2 DEF SplitTo
  <2>. HIDE DEF top
  <2>4. top \in larger
    BY <2>2 DEF top
  <2>5. top \in Orders /\ top > target /\ HasPages(p, z, top)
    BY <2>4
  <2>6. target < top
    BY <2>5, ZoneFacts DEF Orders
  <2>. QED
    BY <2>3, <2>5, <2>6, SplitDownSane
<1>. QED
  BY <1>1, <1>2

\* coalesce_to(), one order and all.
LEMMA CoalesceOrderSane ==
  ASSUME PmmAssumption, NEW p, NEW M, Sane(p, M), NEW z \in Zones, NEW k \in Orders, k + 1 \in Orders
  PROVE  Sane(CoalesceOrder(p, z, k), M) /\ Kept(p, CoalesceOrder(p, z, k))
<1>. DEFINE n == Len(p.lists[z][k])
<1>1. n \in Nat
  <2>1. p.lists[z][k] \in Seq(Pages)
    BY SaneType, TypeFacts
  <2>. QED
    BY <2>1
<1>2. PICK g : /\ DOMAIN g = 0..n /\ g[0] = p
               /\ \A i \in 1..n : g[i] = MergeOnce(g[i - 1], z, k)
               /\ CoalesceOrder(p, z, k) = g[n]
  <2>1. MergeArgs(p, z, k)
    BY <1>1, SaneType DEF MergeArgs
  <2>. QED
    BY <2>1, CoalesceOrderSteps
<1>. HIDE DEF n
<1>. DEFINE Good(i) == Sane(g[i], M) /\ Kept(p, g[i])
            S == {i \in 0..n : Good(i)}
<1>3. 0 \in S
  <2>1. Kept(p, p)
    BY DEF Kept
  <2>. QED
    BY <1>1, <1>2, <2>1
<1>4. ASSUME NEW i \in 1..n, i - 1 \in S
      PROVE  i \in S
  <2>2. Sane(g[i - 1], M) /\ Kept(p, g[i - 1])
    BY <1>4
  <2>3. g[i] = MergeOnce(g[i - 1], z, k)
    BY <1>2
  <2>4. PICK H : Sound(g[i - 1], H, M)
    BY <2>2 DEF Sane
  <2>5. PICK G : Sound(g[i], G, M) /\ Kept(g[i - 1], g[i])
    BY <2>2, <2>3, <2>4, MergeOnceSound
  <2>6. Kept(p, g[i])
    BY <2>2, <2>5, KeptTrans
  <2>7. Good(i)
    BY <2>5, <2>6 DEF Sane
  <2>. QED
    BY <1>1, <2>7
<1>5. S = 0..n
  <2>1. S \subseteq 0..n
    OBVIOUS
  <2>. HIDE DEF S
  <2>. QED
    BY <1>1, <1>3, <1>4, <2>1, Inductive
<1>6. n \in S
  <2>. HIDE DEF S
  <2>. QED
    BY <1>1, <1>5
<1>. QED
  BY <1>2, <1>6

\* coalesce_to(): order by order.
LEMMA CoalesceToSane ==
  ASSUME PmmAssumption, NEW p, NEW M, Sane(p, M), NEW z \in Zones, NEW target \in Orders
  PROVE  Sane(CoalesceTo(p, z, target), M) /\ Kept(p, CoalesceTo(p, z, target))
<1>1. target \in Nat /\ MaxOrder \in Nat /\ target <= MaxOrder
  BY ZoneFacts DEF Orders
<1>2. PICK g : /\ DOMAIN g = 0..target /\ g[0] = p
               /\ \A i \in 1..target : g[i] = CoalesceOrder(g[i - 1], z, i - 1)
               /\ CoalesceTo(p, z, target) = g[target]
  <2>1. CoalesceArgs(p, z, target)
    BY <1>1, SaneType DEF CoalesceArgs
  <2>. QED
    BY <2>1, CoalesceToSteps
<1>. DEFINE Good(i) == Sane(g[i], M) /\ Kept(p, g[i])
            S == {i \in 0..target : Good(i)}
<1>3. 0 \in S
  <2>1. Kept(p, p)
    BY DEF Kept
  <2>. QED
    BY <1>1, <1>2, <2>1
<1>4. ASSUME NEW i \in 1..target, i - 1 \in S
      PROVE  i \in S
  <2>1. i - 1 \in Orders /\ (i - 1) + 1 \in Orders
    BY <1>1 DEF Orders
  <2>2. Sane(g[i - 1], M) /\ Kept(p, g[i - 1])
    BY <1>4
  <2>3. g[i] = CoalesceOrder(g[i - 1], z, i - 1)
    BY <1>2
  <2>4. Sane(g[i], M) /\ Kept(g[i - 1], g[i])
    BY <2>1, <2>2, <2>3, CoalesceOrderSane
  <2>6. Kept(p, g[i])
    BY <2>2, <2>4, KeptTrans
  <2>7. Good(i)
    BY <2>4, <2>6
  <2>. QED
    BY <1>1, <2>7
<1>5. S = 0..target
  <2>1. S \subseteq 0..target
    OBVIOUS
  <2>. HIDE DEF S
  <2>. QED
    BY <1>1, <1>3, <1>4, <2>1, Inductive
<1>6. target \in S
  <2>. HIDE DEF S
  <2>. QED
    BY <1>1, <1>5
<1>. QED
  BY <1>2, <1>6

\* What alloc() did: it returned null, or took one free block of this order.
AllocFailed(p, r, M) == r.ret = 0 /\ Sane(r.pm, M) /\ Kept(p, r.pm)
AllocTook(p, r, order, M) ==
  /\ r.ret \in M /\ r.ret # 0 /\ r.ret \notin Taken(p) /\ order \in Orders
  /\ Sane(r.pm, M) /\ Taken(r.pm) = Taken(p) \cup {r.ret}
  /\ r.pm.order[r.ret] = order /\ \A m \in Taken(p) : r.pm.order[m] = p.order[m]

\* allocator::alloc() fails, or takes one free block of the order it wants.
LEMMA AllocInDone ==
  ASSUME PmmAssumption, NEW p, NEW M, Sane(p, M), NEW z \in Zones, NEW order \in Nat,
         NEW r, r = AllocIn(p, z, order)
  PROVE  AllocFailed(p, r, M) \/ AllocTook(p, r, order, M)
<1>. DEFINE split == IF order = MaxOrder THEN p ELSE SplitTo(p, z, order)
            q == IF HasPages(p, z, order) THEN p
                 ELSE IF HasPages(split, z, order) THEN split
                 ELSE CoalesceTo(split, z, order)
            ret == Head(q.lists[z][order])
            t == [Rem(q, z, order) EXCEPT !.allocated[ret] = TRUE]
<1>1. r = IF order > MaxOrder THEN [pm |-> p, ret |-> 0]
          ELSE IF ~HasPages(q, z, order) THEN [pm |-> q, ret |-> 0]
          ELSE [pm |-> t, ret |-> ret]
  BY DEF AllocIn, TakeBlock
<1>2. Kept(p, p) /\ MaxOrder \in Nat
  BY ZoneFacts DEF Kept
<1>3. CASE order > MaxOrder
  <2>1. r.ret = 0 /\ r.pm = p
    BY <1>1, <1>3
  <2>. QED
    BY <1>2, <2>1 DEF AllocFailed
<1>4. CASE ~(order > MaxOrder)
  <2>1. order \in Orders
    BY <1>2, <1>4 DEF Orders
  <2>2. Sane(split, M) /\ Kept(p, split)
    <3>1. CASE order = MaxOrder
      BY <1>2, <3>1
    <3>2. CASE order # MaxOrder
      BY <2>1, <3>2, SplitToSane
    <3>. QED
      BY <3>1, <3>2
  <2>. HIDE DEF split
  <2>3. Sane(q, M) /\ Kept(p, q)
    <3>1. CASE HasPages(p, z, order)
      BY <1>2, <3>1
    <3>2. CASE ~HasPages(p, z, order) /\ HasPages(split, z, order)
      BY <2>2, <3>2
    <3>3. CASE ~HasPages(p, z, order) /\ ~HasPages(split, z, order)
      <4>1. q = CoalesceTo(split, z, order)
        BY <3>3
      <4>2. Sane(q, M) /\ Kept(split, q)
        <5>. HIDE DEF q
        <5>. QED BY <2>1, <2>2, <4>1, CoalesceToSane
      <4>. QED
        BY <2>2, <4>2, KeptTrans
    <3>. QED
      BY <3>1, <3>2, <3>3
  <2>. HIDE DEF q
  <2>4. CASE ~HasPages(q, z, order)
    <3>1. r.ret = 0 /\ r.pm = q
      BY <1>1, <1>4, <2>4
    <3>. QED
      BY <2>3, <3>1 DEF AllocFailed
  <2>5. CASE HasPages(q, z, order)
    <3>1. r.ret = ret /\ r.pm = t
      BY <1>1, <1>4, <2>5
    <3>2. PICK H : Sound(q, H, M)
      BY <2>3 DEF Sane
    <3>3. /\ Sound(t, H, M) /\ Taken(t) = Taken(q) \cup {ret} /\ ret \in H /\ ret \notin Taken(q)
          /\ t.order = q.order /\ q.order[ret] = order
      BY <2>1, <2>5, <3>2, TakeSound
    <3>. HIDE DEF t, ret
    <3>4. ret \in M /\ ret # 0
      BY <3>2, <3>3, SoundFacts
    <3>5. Sane(t, M)
      BY <3>3 DEF Sane
    <3>6. /\ Taken(t) = Taken(p) \cup {ret} /\ ret \notin Taken(p) /\ t.order[ret] = order
          /\ \A m \in Taken(p) : t.order[m] = p.order[m]
      BY <2>3, <3>3 DEF Kept
    <3>. QED
      BY <2>1, <3>1, <3>4, <3>5, <3>6 DEF AllocTook
  <2>. QED
    BY <2>4, <2>5
<1>. QED
  BY <1>3, <1>4

-----------------------------------------------------------------------------
(* add_range().                                                            *)

\* A range of zone z that the allocators do not have.
RangeReady(p, M, z, base, end) ==
  /\ Sane(p, M) /\ z \in Zones /\ base \in Nat /\ end \in Nat /\ base <= end
  /\ ZoneStart(z) <= base /\ end <= ZoneEnd(z)
  /\ \A m \in M : m < base \/ end <= m

\* allocator::add_range() adds the whole range.
LEMMA AddBlocksSane ==
  ASSUME PmmAssumption, NEW p, NEW M, NEW z, NEW base, NEW end, RangeReady(p, M, z, base, end)
  PROVE  Sane(AddBlocks(p, z, base, end), M \cup base..(end - 1)) /\ Kept(p, AddBlocks(p, z, base, end))
<1>. DEFINE n == end - base
<1>1. /\ Sane(p, M) /\ z \in Zones /\ base \in Nat /\ end \in Nat /\ base <= end
      /\ ZoneStart(z) <= base /\ end <= ZoneEnd(z) /\ n \in Nat
      /\ \A m \in M : m < base \/ end <= m
  BY DEF RangeReady
<1>2. PICK g : /\ DOMAIN g = 0..n /\ g[0] = [pm |-> p, base |-> base]
               /\ \A i \in 1..n : g[i] = AddBlock(g[i - 1], z, end)
               /\ AddBlocks(p, z, base, end) = g[n].pm
  <2>1. AddArgs(p, z, base, end)
    BY <1>1, SaneType DEF AddArgs
  <2>. QED
    BY <2>1, AddBlocksSteps
<1>. DEFINE B(i) == g[i].base
            Good(i) == /\ B(i) \in base..end /\ (B(i) >= base + i \/ B(i) = end)
                       /\ Sane(g[i].pm, M \cup base..(B(i) - 1)) /\ Kept(p, g[i].pm)
            S == {i \in 0..n : Good(i)}
<1>3. 0 \in S
  <2>1. Kept(p, p) /\ g[0].pm = p /\ g[0].base = base
    BY <1>2 DEF Kept
  <2>2. base..(base - 1) = {} /\ M \cup {} = M /\ base \in base..end /\ base >= base + 0
    BY <1>1
  <2>3. Good(0)
    BY <1>1, <2>1, <2>2
  <2>. QED
    BY <1>1, <2>3
<1>4. ASSUME NEW i \in 1..n, i - 1 \in S
      PROVE  i \in S
  <2>. DEFINE b == B(i - 1)
              q == g[i - 1].pm
              N == M \cup base..(b - 1)
              k == BlockOrder(b, end - b)
  <2>1. /\ b \in base..end /\ (b >= base + (i - 1) \/ b = end) /\ b \in Nat /\ i \in Nat
        /\ Sane(q, N) /\ Kept(p, q)
    BY <1>1, <1>4
  <2>2. g[i] = AddBlock(g[i - 1], z, end)
    BY <1>2
  <2>3. CASE b = end
    <3>1. g[i] = g[i - 1]
      BY <2>2, <2>3 DEF AddBlock
    <3>2. B(i) = b /\ g[i].pm = q
      BY <3>1
    <3>3. Good(i)
      BY <2>1, <2>3, <3>2
    <3>. QED
      BY <1>1, <3>3
  <2>4. CASE b # end
    <3>. DEFINE a == Put([q EXCEPT !.order[b] = k], z, k, b)
                P == Pow2[k]
    <3>1. g[i].pm = a /\ g[i].base = b + P
      BY <2>2, <2>4 DEF AddBlock
    <3>2. end - b \in Nat \ {0}
      BY <1>1, <2>1, <2>4
    <3>3. k \in Orders /\ Aligned(b, k) /\ P <= end - b /\ P \in Nat /\ P > 0
      <4>. DEFINE size == end - b
      <4>1. size \in Nat \ {0}
        BY <3>2
      <4>. HIDE DEF b, size
      <4>. QED
        BY <2>1, <4>1, BlockOrderFits DEF size
    <3>. HIDE DEF b, q, k
    <3>4. \A m \in N : m < b \/ b + P <= m
      <4>. SUFFICES ASSUME NEW m \in N PROVE m < b \/ b + P <= m
        OBVIOUS
      <4>1. CASE m \in base..(b - 1)
        BY <1>1, <2>1, <4>1
      <4>2. CASE m \in M
        <5>1. m \in Nat
          <6>0. m \in N
            OBVIOUS
          <6>. HIDE DEF N
          <6>1. PICK H : Sound(q, H, N)
            BY <2>1 DEF Sane
          <6>2. m \in Pages
            BY <6>0, <6>1, SoundFacts
          <6>. QED
            BY <6>2, ZoneFacts DEF Pages
        <5>2. m < base \/ end <= m
          BY <1>1, <4>2
        <5>. HIDE DEF P
        <5>. QED
          BY <1>1, <2>1, <3>3, <5>1, <5>2
      <4>. QED
        BY <4>1, <4>2
    <3>5. ZoneStart(z) <= b /\ b + P <= ZoneEnd(z) /\ b + P <= end
      <4>1. ZoneStart(z) \in Nat /\ ZoneEnd(z) \in Nat
        BY <1>1, ZoneFacts
      <4>. HIDE DEF P
      <4>. QED
        BY <1>1, <2>1, <3>3, <4>1
    <3>. HIDE DEF N
    <3>6. PICK H : Sound(q, H, N)
      BY <2>1 DEF Sane
    <3>7. AddReady(q, H, N, z, k, b)
      BY <1>1, <2>1, <3>3, <3>4, <3>5, <3>6 DEF AddReady
    <3>8. Sound(a, H \cup {b}, N \cup b..(b + P - 1)) /\ Kept(q, a)
      BY <3>7, AddSound
    <3>. HIDE DEF a, P
    <3>9. Sane(a, N \cup b..(b + P - 1)) /\ Kept(p, a)
      BY <2>1, <3>8, KeptTrans DEF Sane
    <3>10. N \cup b..(b + P - 1) = M \cup base..(b + P - 1)
      <4>1. base..(b - 1) \cup b..(b + P - 1) = base..(b + P - 1)
        BY <1>1, <2>1, <3>3
      <4>. QED
        BY <4>1 DEF N
    <3>11. b + P \in base..end /\ b + P >= base + i
      BY <1>1, <2>1, <2>4, <3>3, <3>5
    <3>12. Good(i)
      <4>. DEFINE X == N \cup b..(b + P - 1)
                  Y == M \cup base..(b + P - 1)
      <4>1. Sane(a, X)
        BY <3>9, Zenon
      <4>2. X = Y
        BY <3>10
      <4>3. Sane(a, Y)
        <5>. HIDE DEF X, Y
        <5>. QED
          BY <4>1, <4>2
      <4>4. Y = M \cup base..(B(i) - 1)
        BY <1>1, <2>1, <3>1, <3>3
      <4>. HIDE DEF Y
      <4>. QED
        BY <3>1, <3>9, <3>11, <4>3, <4>4
    <3>. QED
      BY <1>1, <3>12
  <2>. QED
    BY <2>3, <2>4
<1>5. S = 0..n
  <2>1. S \subseteq 0..n
    OBVIOUS
  <2>. HIDE DEF S, n
  <2>. QED
    BY <1>1, <1>3, <1>4, <2>1, Inductive
<1>6. n \in S
  <2>. HIDE DEF S, n
  <2>. QED
    BY <1>1, <1>5
<1>7. Good(n)
  BY <1>6
<1>8. B(n) = end
  BY <1>1, <1>7
<1>. QED
  BY <1>2, <1>7, <1>8

\* The pages of a range in a zone.
Within(z, base, end) == {m \in base..(end - 1) : InZone(z, m)}
ZoneReady(p, M, z, base, end) ==
  /\ Sane(p, M) /\ z \in Zones /\ base \in Nat /\ end \in Nat
  /\ \A m \in M : m \notin Within(z, base, end)

LEMMA AddToZoneSane ==
  ASSUME PmmAssumption, NEW p, NEW M, NEW z, NEW base, NEW end, ZoneReady(p, M, z, base, end)
  PROVE  Sane(AddToZone(p, z, base, end), M \cup Within(z, base, end)) /\ Kept(p, AddToZone(p, z, base, end))
<1>. DEFINE s == Larger(base, ZoneStart(z))
            e == Smaller(end, ZoneEnd(z))
<1>1. /\ Sane(p, M) /\ z \in Zones /\ base \in Nat /\ end \in Nat
      /\ \A m \in M : m \notin Within(z, base, end)
  BY DEF ZoneReady
<1>2. ZoneStart(z) \in Nat /\ ZoneEnd(z) \in Nat
  BY <1>1, ZoneFacts
<1>3. s \in Nat /\ e \in Nat /\ ZoneStart(z) <= s /\ e <= ZoneEnd(z)
  BY <1>1, <1>2 DEF Larger, Smaller
<1>4. s..(e - 1) = Within(z, base, end)
  BY <1>1, <1>2 DEF Larger, Smaller, Within, InZone
<1>5. AddToZone(p, z, base, end) = IF s < e THEN AddBlocks(p, z, s, e) ELSE p
  BY DEF AddToZone
<1>. HIDE DEF s, e
<1>6. CASE s < e
  <2>1. \A m \in M : m < s \/ e <= m
    <3>. SUFFICES ASSUME NEW m \in M PROVE m < s \/ e <= m
      OBVIOUS
    <3>1. m \in Nat
      <4>1. m \in Pages
        BY <1>1, SoundFacts DEF Sane
      <4>. QED
        BY <4>1, ZoneFacts DEF Pages
    <3>2. m \notin s..(e - 1)
      BY <1>1, <1>4
    <3>. QED
      BY <1>3, <3>1, <3>2
  <2>2. RangeReady(p, M, z, s, e)
    BY <1>1, <1>3, <1>6, <2>1 DEF RangeReady
  <2>3. Sane(AddBlocks(p, z, s, e), M \cup s..(e - 1)) /\ Kept(p, AddBlocks(p, z, s, e))
    BY <2>2, AddBlocksSane
  <2>. QED
    BY <1>4, <1>5, <1>6, <2>3
<1>7. CASE ~(s < e)
  <2>1. s..(e - 1) = {} /\ M \cup {} = M
    BY <1>3, <1>7
  <2>2. Kept(p, p)
    BY DEF Kept
  <2>. QED
    BY <1>1, <1>4, <1>5, <1>7, <2>1, <2>2
<1>. QED
  BY <1>6, <1>7

AllReady(p, M, base, end) ==
  /\ Sane(p, M) /\ base \in Nat \ {0} /\ end \in Nat /\ end <= Top
  /\ \A m \in M : m < base \/ end <= m

\* The three zones together take the whole range.
LEMMA AddToZonesSane ==
  ASSUME PmmAssumption, NEW p, NEW M, NEW base, NEW end, AllReady(p, M, base, end)
  PROVE  Sane(AddToZones(p, base, end), M \cup base..(end - 1)) /\ Kept(p, AddToZones(p, base, end))
<1>. DEFINE W(z) == Within(z, base, end)
            a == AddToZone(p, "sub1mib", base, end)
            b == AddToZone(a, "sub4gib", base, end)
            c == AddToZone(b, "normal", base, end)
            A == M \cup W("sub1mib")
            B == A \cup W("sub4gib")
            C == B \cup W("normal")
<1>1. /\ Sane(p, M) /\ base \in Nat \ {0} /\ end \in Nat /\ end <= Top
      /\ \A m \in M : m < base \/ end <= m
  BY DEF AllReady
<1>2. "sub1mib" \in Zones /\ "sub4gib" \in Zones /\ "normal" \in Zones
  BY DEF Zones
<1>3. \A z \in Zones : \A m \in M : m \notin W(z)
  <2>. SUFFICES ASSUME NEW m \in M, m \in base..(end - 1) PROVE FALSE
    BY DEF Within
  <2>. QED
    BY <1>1
<1>4. \A m \in base..(end - 1) : m \in Pages \ {0}
  BY <1>1, ZoneFacts DEF Pages
<1>5. \A y, z \in Zones : y # z => \A m \in W(y) : m \notin W(z)
  BY <1>4, ZoneFacts DEF Within
<1>6. C = M \cup base..(end - 1)
  <2>1. \A m \in base..(end - 1) : \E z \in Zones : m \in W(z)
    BY <1>4, ZoneFacts DEF Within
  <2>2. \A m \in base..(end - 1) : m \in W("sub1mib") \/ m \in W("sub4gib") \/ m \in W("normal")
    BY <2>1 DEF Zones
  <2>3. \A z \in Zones : W(z) \subseteq base..(end - 1)
    BY DEF Within
  <2>. HIDE DEF W
  <2>. QED
    BY <1>2, <2>2, <2>3
<1>. HIDE DEF W
<1>7. Sane(a, A) /\ Kept(p, a)
  <2>1. ZoneReady(p, M, "sub1mib", base, end)
    BY <1>1, <1>2, <1>3 DEF ZoneReady, W
  <2>. QED
    BY <2>1, AddToZoneSane DEF W
<1>8. Sane(b, B) /\ Kept(a, b)
  <2>1. \A m \in A : m \notin W("sub4gib")
    BY <1>2, <1>3, <1>5
  <2>. HIDE DEF a, A
  <2>2. ZoneReady(a, A, "sub4gib", base, end)
    BY <1>1, <1>2, <1>7, <2>1 DEF ZoneReady, W
  <2>. QED
    BY <2>2, AddToZoneSane DEF W
<1>9. Sane(c, C) /\ Kept(b, c)
  <2>1. \A m \in B : m \notin W("normal")
    BY <1>2, <1>3, <1>5
  <2>. HIDE DEF b, B
  <2>2. ZoneReady(b, B, "normal", base, end)
    BY <1>1, <1>2, <1>8, <2>1 DEF ZoneReady, W
  <2>. QED
    BY <2>2, AddToZoneSane DEF W
<1>10. AddToZones(p, base, end) = c
  BY DEF AddToZones
<1>. HIDE DEF a, b, c, A, B, C
<1>11. Kept(p, c)
  BY <1>7, <1>8, <1>9, KeptTrans
<1>. QED
  BY <1>6, <1>9, <1>10, <1>11

StType ==
  [pm : PmType, used : Int, usable : Nat, len : Int, pfndb : SUBSET Pages, ok : BOOLEAN]

\* pmm::add_range of a range that the allocators do not have.
AddRangeReady(st, M, base, size) ==
  /\ st \in StType /\ Sane(st.pm, M) /\ base \in Nat /\ size \in Nat /\ base + size <= Top
  /\ \A m \in M : m < base \/ base + size <= m
AddRangeDone(q, st, M, base, size, freeing) ==
  /\ q \in StType /\ q.len = st.len /\ q.pfndb = st.pfndb /\ q.ok = st.ok
  /\ Sane(q.pm, M \cup (base..(base + size - 1) \ {0})) /\ Kept(st.pm, q.pm)
  /\ q.used >= IF freeing THEN st.used - size ELSE st.used

LEMMA StFacts ==
  ASSUME NEW st \in StType
  PROVE  /\ st.pm \in PmType /\ st.used \in Int /\ st.usable \in Nat /\ st.len \in Int
         /\ st.pfndb \subseteq Pages /\ st.ok \in BOOLEAN
  BY DEF StType

\* pmm::add_range() adds the range without page 0 and counts it.
LEMMA AddRangeSane ==
  ASSUME PmmAssumption, NEW st, NEW M, NEW base, NEW size, AddRangeReady(st, M, base, size),
         NEW freeing \in BOOLEAN
  PROVE  AddRangeDone(AddRange(st, base, size, freeing), st, M, base, size, freeing)
<1>. DEFINE counted == IF freeing THEN st ELSE [st EXCEPT !.usable = @ + size]
            first == IF base = 0 THEN 1 ELSE base
            left == IF base = 0 THEN size - 1 ELSE size
            a == AddToZones(counted.pm, first, first + left)
            u == IF freeing THEN counted.used - left ELSE counted.used + (size - left)
            q == AddRange(st, base, size, freeing)
            N == M \cup (base..(base + size - 1) \ {0})
<1>1. /\ st \in StType /\ Sane(st.pm, M) /\ base \in Nat /\ size \in Nat /\ base + size <= Top
      /\ (\A m \in M : m < base \/ base + size <= m) /\ Top \in Nat
  BY ZoneFacts DEF AddRangeReady
<1>2. /\ st.pm \in PmType /\ st.used \in Int /\ st.usable \in Nat /\ st.len \in Int
      /\ st.pfndb \subseteq Pages /\ st.ok \in BOOLEAN
  BY <1>1, StFacts
<1>3. /\ counted \in StType /\ counted.pm = st.pm /\ counted.used = st.used /\ counted.len = st.len
      /\ counted.pfndb = st.pfndb /\ counted.ok = st.ok
  <2>1. CASE freeing
    BY <1>1, <2>1
  <2>2. CASE ~freeing
    <3>1. counted = [st EXCEPT !.usable = st.usable + size]
      BY <2>2
    <3>2. st.usable + size \in Nat
      BY <1>1, <1>2
    <3>. HIDE DEF counted
    <3>. QED
      BY <1>1, <3>1, <3>2 DEF StType
  <2>. QED
    BY <2>1, <2>2
<1>4. q = IF size = 0 THEN st
          ELSE IF base = 0 /\ size < 2 THEN counted
          ELSE [counted EXCEPT !.pm = a, !.used = u]
  BY DEF AddRange
<1>5. 0 \notin M /\ Kept(st.pm, st.pm)
  <2>1. 0 \notin M
    BY <1>1, SoundFacts DEF Sane
  <2>. QED
    BY <2>1 DEF Kept
<1>. HIDE DEF counted
<1>6. CASE size = 0 \/ (base = 0 /\ size < 2)
  <2>1. \A m \in base..(base + size - 1) : m = 0
    BY <1>1, <1>6
  <2>2. N = M
    BY <2>1
  <2>3. q = st \/ q = counted
    BY <1>4, <1>6
  <2>4. q.used = st.used /\ q.pm = st.pm /\ q \in StType /\ q.len = st.len /\ q.pfndb = st.pfndb /\ q.ok = st.ok
    BY <1>1, <1>3, <2>3
  <2>5. q.used >= IF freeing THEN st.used - size ELSE st.used
    <3>. HIDE DEF q
    <3>. QED
      BY <1>1, <1>2, <2>4
  <2>. HIDE DEF N, q
  <2>6. Sane(q.pm, N) /\ Kept(st.pm, q.pm)
    BY <1>1, <1>5, <2>2, <2>4
  <2>. QED
    BY <2>4, <2>5, <2>6 DEF AddRangeDone, N, q
<1>7. CASE ~(size = 0 \/ (base = 0 /\ size < 2))
  <2>1. q = [counted EXCEPT !.pm = a, !.used = u]
    BY <1>4, <1>7
  <2>2. first \in Nat \ {0} /\ left \in Nat /\ left <= size /\ first + left = base + size /\ first >= base
    BY <1>1, <1>7
  <2>3. first..(first + left - 1) = base..(base + size - 1) \ {0}
    <3>1. CASE base = 0
      BY <1>1, <1>7, <3>1
    <3>2. CASE base # 0
      BY <1>1, <3>2
    <3>. QED
      BY <3>1, <3>2
  <2>. HIDE DEF first, left
  <2>4. AllReady(st.pm, M, first, first + left)
    <3>1. \A m \in M : m < first \/ first + left <= m
      <4>. SUFFICES ASSUME NEW m \in M PROVE m < first \/ first + left <= m
        OBVIOUS
      <4>1. m \in Nat
        <5>1. m \in Pages
          BY <1>1, SoundFacts DEF Sane
        <5>. QED
          BY <5>1, ZoneFacts DEF Pages
      <4>. QED
        BY <1>1, <2>2, <4>1
    <3>2. first + left \in Nat /\ first + left <= Top
      BY <1>1, <2>2
    <3>. QED
      BY <1>1, <2>2, <3>1, <3>2 DEF AllReady
  <2>5. PICK e : e = first + left
    OBVIOUS
  <2>6. a = AddToZones(st.pm, first, e) /\ AllReady(st.pm, M, first, e)
    BY <1>3, <2>4, <2>5
  <2>. DEFINE X == M \cup first..(e - 1)
  <2>7. X = N
    BY <1>1, <2>2, <2>3, <2>5
  <2>. HIDE DEF a, N
  <2>8. Sane(a, X) /\ Kept(st.pm, a)
    BY <2>6, AddToZonesSane
  <2>9. Sane(a, N)
    <3>. HIDE DEF X
    <3>. QED
      BY <2>7, <2>8
  <2>10. u \in Int /\ u >= IF freeing THEN st.used - size ELSE st.used
    BY <1>1, <1>2, <1>3, <2>2
  <2>. HIDE DEF u, q
  <2>11. /\ q \in StType /\ q.pm = a /\ q.used = u /\ q.len = st.len /\ q.pfndb = st.pfndb /\ q.ok = st.ok
    <3>1. a \in PmType
      BY <2>9, SaneType
    <3>. QED
      BY <1>3, <2>1, <2>10, <3>1 DEF StType
  <2>. QED
    BY <2>8, <2>9, <2>10, <2>11 DEF AddRangeDone, N, q
<1>. QED
  BY <1>6, <1>7

-----------------------------------------------------------------------------
(* The memory map.                                                         *)

Unit == 1..Len(MemMap)
Loader == {j \in Unit : MemMap[j].type = "bootloader"}
Span(J) == {m \in Pages : \E j \in J : m \in Entry(j)}

\* Entries lie one behind the other, and one of them is the bootstrap entry.
LEMMA MapFacts ==
  ASSUME PmmAssumption
  PROVE  /\ Len(MemMap) \in Nat /\ PfndbPages \in Nat
         /\ \A i \in Unit : /\ i \in Nat /\ MemMap[i].base \in Nat /\ MemMap[i].length \in Nat
                            /\ MemMap[i].base + MemMap[i].length <= Top
                            /\ \A m \in Entry(i) : m \in Pages
         /\ \A i, j \in Unit : i # j => \A m \in Entry(j) :
              m < MemMap[i].base \/ MemMap[i].base + MemMap[i].length <= m
         /\ Bootstrap \in Usable /\ Usable \subseteq Unit /\ Usable \cap Loader = {}
<1>1. /\ MemMap \in Seq([base : Nat, length : Nat, type : Types]) /\ PfndbPages \in Nat /\ Top \in Nat
      /\ \A i \in Unit : MemMap[i].base + MemMap[i].length <= Top
      /\ \A i, j \in Unit : i < j => MemMap[i].base + MemMap[i].length <= MemMap[j].base
      /\ \E i \in Unit : MemMap[i].type = "usable"
  BY DEF PmmAssumption, Unit
<1>2. Len(MemMap) \in Nat /\ \A i \in Unit : MemMap[i] \in [base : Nat, length : Nat, type : Types]
  <2>. DEFINE T == [base : Nat, length : Nat, type : Types]
  <2>1. MemMap \in Seq(T)
    BY <1>1
  <2>. HIDE DEF T
  <2>2. Len(MemMap) \in Nat /\ \A i \in Unit : MemMap[i] \in T
    BY <2>1 DEF Unit
  <2>. QED
    BY <2>2 DEF T
<1>3. ASSUME NEW i \in Unit
      PROVE  /\ i \in Nat /\ MemMap[i].base \in Nat /\ MemMap[i].length \in Nat
             /\ MemMap[i].base + MemMap[i].length <= Top
             /\ \A m \in Entry(i) : m \in Pages
  <2>1. MemMap[i].base \in Nat /\ MemMap[i].length \in Nat /\ MemMap[i].base + MemMap[i].length <= Top
    BY <1>1, <1>2
  <2>2. i \in Nat
    BY <1>2 DEF Unit
  <2>3. ASSUME NEW m \in Entry(i) PROVE m \in Pages
    <3>1. m \in MemMap[i].base..(MemMap[i].base + MemMap[i].length - 1)
      BY DEF Entry
    <3>. QED
      BY <1>1, <2>1, <3>1 DEF Pages
  <2>. QED
    BY <2>1, <2>2, <2>3
<1>4. ASSUME NEW i \in Unit, NEW j \in Unit, i # j, NEW m \in Entry(j)
      PROVE  m < MemMap[i].base \/ MemMap[i].base + MemMap[i].length <= m
  <2>1. /\ i \in Nat /\ j \in Nat /\ MemMap[i].base \in Nat /\ MemMap[i].length \in Nat
        /\ MemMap[j].base \in Nat /\ MemMap[j].length \in Nat
    BY <1>3
  <2>2. m \in Int /\ MemMap[j].base <= m /\ m < MemMap[j].base + MemMap[j].length
    BY <2>1 DEF Entry
  <2>3. CASE i < j
    <3>1. MemMap[i].base + MemMap[i].length <= MemMap[j].base
      BY <1>1, <2>3
    <3>. QED
      BY <2>1, <2>2, <3>1
  <2>4. CASE j < i
    <3>1. MemMap[j].base + MemMap[j].length <= MemMap[i].base
      BY <1>1, <2>4
    <3>. QED
      BY <2>1, <2>2, <3>1
  <2>5. i < j \/ j < i
    BY <1>4, <2>1
  <2>. QED
    BY <2>3, <2>4, <2>5
<1>5. Usable \subseteq Unit /\ Usable # {} /\ Usable \cap Loader = {}
  BY <1>1 DEF Usable, Unit, Loader
<1>6. Bootstrap \in Usable
  <2>. DEFINE L == {MemMap[i].length : i \in Usable}
  <2>1. L \subseteq 0..Top /\ L # {}
    <3>1. \A i \in Usable : MemMap[i].length \in 0..Top
      <4>. SUFFICES ASSUME NEW i \in Usable PROVE MemMap[i].length \in 0..Top
        OBVIOUS
      <4>1. MemMap[i].base \in Nat /\ MemMap[i].length \in Nat /\ MemMap[i].base + MemMap[i].length <= Top
        BY <1>3, <1>5
      <4>. QED
        BY <1>1, <4>1
    <3>. QED
      BY <1>5, <3>1
  <2>2. PICK l \in L : \A y \in L : l >= y
    <3>. HIDE DEF L
    <3>. QED
      BY <1>1, <2>1, GreatestNatural
  <2>. DEFINE I == {i \in Usable : MemMap[i].length = l}
  <2>3. I \subseteq Nat /\ I # {}
    BY <1>3, <1>5, <2>2
  <2>4. PICK i \in I : \A y \in I : i <= y
    <3>. HIDE DEF I
    <3>. QED
      BY <2>3, LeastNatural
  <2>5. \A j \in Usable : \/ MemMap[i].length > MemMap[j].length
                          \/ MemMap[i].length = MemMap[j].length /\ i <= j
    <3>. SUFFICES ASSUME NEW j \in Usable
                  PROVE  \/ MemMap[i].length > MemMap[j].length
                         \/ MemMap[i].length = MemMap[j].length /\ i <= j
      OBVIOUS
    <3>1. MemMap[i].length = l /\ MemMap[j].length \in Nat /\ l \in Nat /\ l >= MemMap[j].length
      BY <1>3, <1>5, <2>2
    <3>2. MemMap[j].length = l => i <= j
      BY <2>4
    <3>. QED
      BY <3>1, <3>2
  <2>. QED
    BY <2>4, <2>5 DEF Bootstrap
<1>. QED
  BY <1>1, <1>2, <1>3, <1>4, <1>5, <1>6

\* Numbers of pages.
LEMMA PagesFinite ==
  ASSUME PmmAssumption, NEW A, A \subseteq Pages
  PROVE  IsFiniteSet(A) /\ Cardinality(A) \in Nat
<1>1. IsFiniteSet(Pages)
  BY ZoneFacts, FS_Interval DEF Pages
<1>. QED
  BY <1>1, FS_Subset, FS_CardinalityType

LEMMA RunCardinality ==
  ASSUME NEW base \in Nat, NEW n \in Nat
  PROVE  Cardinality(base..(base + n - 1)) = n
<1>1. base \in Int /\ base + n - 1 \in Int
  OBVIOUS
<1>2. Cardinality(base..(base + n - 1)) = IF base > base + n - 1 THEN 0 ELSE (base + n - 1) - base + 1
  BY <1>1, FS_Interval
<1>. QED
  BY <1>2

\* Counting pages added and pages taken away.
LEMMA CountMore ==
  ASSUME PmmAssumption, NEW A, A \subseteq Pages, NEW B, B \subseteq Pages
  PROVE  Cardinality(A \cup B) <= Cardinality(A) + Cardinality(B)
<1>1. IsFiniteSet(A) /\ IsFiniteSet(B) /\ Cardinality(A) \in Nat /\ Cardinality(B) \in Nat
  BY PagesFinite
<1>2. Cardinality(A \cup B) = Cardinality(A) + Cardinality(B) - Cardinality(A \cap B)
  BY <1>1, FS_Union
<1>3. Cardinality(A \cap B) \in Nat
  <2>1. A \cap B \subseteq Pages
    OBVIOUS
  <2>. QED
    BY <2>1, PagesFinite
<1>. QED
  BY <1>1, <1>2, <1>3

LEMMA CountLess ==
  ASSUME PmmAssumption, NEW A, A \subseteq Pages, NEW B, B \subseteq Pages, NEW C, C \cup B \subseteq A, C \cap B = {}
  PROVE  Cardinality(C) + Cardinality(B) <= Cardinality(A)
<1>1. IsFiniteSet(A) /\ IsFiniteSet(B) /\ IsFiniteSet(C) /\ IsFiniteSet(C \cup B)
      /\ Cardinality(A) \in Nat /\ Cardinality(B) \in Nat /\ Cardinality(C) \in Nat
  <2>1. C \subseteq Pages /\ C \cup B \subseteq Pages
    OBVIOUS
  <2>. QED
    BY <2>1, PagesFinite
<1>2. Cardinality(C \cup B) = Cardinality(C) + Cardinality(B) - Cardinality(C \cap B)
  BY <1>1, FS_Union
<1>3. Cardinality(C \cap B) = 0
  BY FS_EmptySet
<1>4. Cardinality(C \cup B) <= Cardinality(A)
  BY <1>1, FS_Subset
<1>. QED
  BY <1>1, <1>2, <1>3, <1>4

\* One entry more.
LEMMA SpanMore ==
  ASSUME PmmAssumption, NEW J, J \subseteq Unit, NEW i \in Unit, i \notin J
  PROVE  /\ Span(J \cup {i}) = Span(J) \cup Entry(i) /\ Span(J) \cap Entry(i) = {}
         /\ Entry(i) \subseteq Pages /\ Span(J) \subseteq Pages
         /\ Cardinality(Entry(i)) = MemMap[i].length
         /\ \A m \in Span(J) : m < MemMap[i].base \/ MemMap[i].base + MemMap[i].length <= m
<1>1. Entry(i) \subseteq Pages /\ MemMap[i].base \in Nat /\ MemMap[i].length \in Nat
  BY MapFacts
<1>2. Span(J \cup {i}) = Span(J) \cup Entry(i)
  BY <1>1 DEF Span
<1>3. ASSUME NEW m \in Span(J)
      PROVE  m < MemMap[i].base \/ MemMap[i].base + MemMap[i].length <= m
  <2>1. PICK j \in J : m \in Entry(j)
    BY DEF Span
  <2>2. j # i /\ j \in Unit
    OBVIOUS
  <2>. QED
    BY <2>1, <2>2, MapFacts
<1>4. Span(J) \cap Entry(i) = {}
  <2>. SUFFICES ASSUME NEW m \in Span(J), m \in Entry(i) PROVE FALSE
    OBVIOUS
  <2>1. m < MemMap[i].base \/ MemMap[i].base + MemMap[i].length <= m
    BY <1>3
  <2>. QED
    BY <1>1, <2>1 DEF Entry
<1>5. Cardinality(Entry(i)) = MemMap[i].length
  BY <1>1, RunCardinality DEF Entry
<1>6. Span(J) \subseteq Pages
  BY DEF Span
<1>. QED
  BY <1>1, <1>2, <1>3, <1>4, <1>5, <1>6

-----------------------------------------------------------------------------
(* init() and reclaim_bootloader_memory().                                 *)

Rest == Usable \ {Bootstrap}
Before(J, i) == {j \in J : j <= i}

LEMMA BeforeFacts ==
  ASSUME PmmAssumption, NEW J, J \subseteq Unit
  PROVE  /\ Before(J, 0) = {} /\ Before(J, Len(MemMap)) = J
         /\ \A i : Before(J, i) \subseteq Unit
         /\ \A i \in Unit : /\ i \notin Before(J, i - 1)
                            /\ i \in J => Before(J, i) = Before(J, i - 1) \cup {i}
                            /\ i \notin J => Before(J, i) = Before(J, i - 1)
<1>1. Len(MemMap) \in Nat /\ Unit = 1..Len(MemMap)
  BY MapFacts DEF Unit
<1>2. \A j \in J : j \in 1..Len(MemMap)
  BY <1>1
<1>3. Before(J, 0) = {} /\ Before(J, Len(MemMap)) = J /\ \A i : Before(J, i) \subseteq Unit
  <2>1. \A j \in J : ~(j <= 0) /\ j <= Len(MemMap)
    BY <1>1, <1>2
  <2>. QED
    BY <2>1 DEF Before
<1>4. ASSUME NEW i \in Unit
      PROVE  /\ i \notin Before(J, i - 1)
             /\ i \in J => Before(J, i) = Before(J, i - 1) \cup {i}
             /\ i \notin J => Before(J, i) = Before(J, i - 1)
  <2>1. \A j \in J : j <= i <=> (j <= i - 1 \/ j = i)
    BY <1>1, <1>2
  <2>2. ~(i <= i - 1)
    BY <1>1
  <2>. QED
    BY <2>1, <2>2 DEF Before
<1>. QED
  BY <1>3, <1>4

\* The first loops of init(): what the first i entries came to.
EntriesDone(q, st, i) ==
  /\ q \in StType /\ q.len = st.len /\ q.pfndb = st.pfndb /\ q.ok = st.ok
  /\ Sane(q.pm, Span(Before(Rest, i)) \ {0}) /\ Taken(q.pm) = {}
  /\ Cardinality(Span(Before(Loader, i))) <= q.used

\* One round of the second loop of init().
LEMMA AddEntryDone ==
  ASSUME PmmAssumption, NEW q, NEW st, NEW i \in Unit, EntriesDone(q, st, i - 1)
  PROVE  EntriesDone(AddEntry(q, i), st, i)
<1>. DEFINE e == MemMap[i]
            R == Before(Rest, i - 1)
            L == Before(Loader, i - 1)
            M == Span(R) \ {0}
            r == AddEntry(q, i)
<1>1. /\ q \in StType /\ q.len = st.len /\ q.pfndb = st.pfndb /\ q.ok = st.ok
      /\ Sane(q.pm, M) /\ Taken(q.pm) = {} /\ Cardinality(Span(L)) <= q.used
  BY DEF EntriesDone
<1>2. q.used \in Int /\ q.usable \in Nat
  BY <1>1, StFacts
<1>3. Rest \subseteq Unit /\ Loader \subseteq Unit /\ Rest \cap Loader = {} /\ Bootstrap \notin Loader
  BY MapFacts DEF Rest, Loader
<1>4. e.base \in Nat /\ e.length \in Nat /\ e.base + e.length <= Top
  BY MapFacts
<1>5. R \subseteq Unit /\ L \subseteq Unit /\ i \notin R /\ i \notin L
  BY <1>3, BeforeFacts
<1>6. i \in Rest <=> i # Bootstrap /\ e.type = "usable"
  BY DEF Rest, Usable, Unit
<1>7. i \in Loader <=> e.type = "bootloader"
  BY DEF Loader
<1>8. Span(L) \subseteq Pages /\ Cardinality(Span(L)) \in Nat
  <2>1. Span(L) \subseteq Pages
    BY DEF Span
  <2>. QED
    BY <2>1, PagesFinite
<1>9. CASE i = Bootstrap
  <2>1. r = q
    BY <1>9 DEF AddEntry
  <2>2. Before(Rest, i) = R /\ Before(Loader, i) = L
    BY <1>3, <1>6, <1>9, BeforeFacts
  <2>. HIDE DEF R, L, r
  <2>. QED
    BY <1>1, <2>1, <2>2 DEF EntriesDone, r
<1>10. CASE i # Bootstrap /\ e.type = "usable"
  <2>1. r = AddRange(q, e.base, e.length, FALSE)
    BY <1>10 DEF AddEntry
  <2>2. Before(Rest, i) = R \cup {i} /\ Before(Loader, i) = L
    BY <1>3, <1>6, <1>7, <1>10, BeforeFacts
  <2>. HIDE DEF R, L, r, e
  <2>3. /\ Span(R \cup {i}) = Span(R) \cup Entry(i)
        /\ \A m \in Span(R) : m < e.base \/ e.base + e.length <= m
    BY <1>5, SpanMore DEF e
  <2>4. \A m \in M : m < e.base \/ e.base + e.length <= m
    BY <2>3
  <2>. HIDE DEF M
  <2>5. AddRangeReady(q, M, e.base, e.length)
    BY <1>1, <1>4, <2>4 DEF AddRangeReady
  <2>6. AddRangeDone(r, q, M, e.base, e.length, FALSE)
    BY <2>1, <2>5, AddRangeSane
  <2>. DEFINE N == M \cup (e.base..(e.base + e.length - 1) \ {0})
  <2>7. /\ r \in StType /\ r.len = q.len /\ r.pfndb = q.pfndb /\ r.ok = q.ok
        /\ Sane(r.pm, N) /\ Kept(q.pm, r.pm) /\ r.used >= q.used
    BY <2>6 DEF AddRangeDone
  <2>8. Entry(i) = e.base..(e.base + e.length - 1)
    BY DEF Entry, e
  <2>9. N = Span(Before(Rest, i)) \ {0}
    <3>. DEFINE X == e.base..(e.base + e.length - 1)
    <3>1. N = M \cup (X \ {0}) /\ Entry(i) = X
      BY <2>8
    <3>. HIDE DEF N, X
    <3>. QED
      BY <2>2, <2>3, <3>1 DEF M
  <2>10. Cardinality(Span(L)) <= r.used
    <3>1. r.used \in Int
      BY <2>7, StFacts
    <3>. QED
      BY <1>1, <1>2, <1>8, <2>7, <3>1
  <2>. HIDE DEF N
  <2>11. Taken(r.pm) = {}
    BY <1>1, <2>7 DEF Kept
  <2>12. Sane(r.pm, Span(Before(Rest, i)) \ {0})
    BY <2>7, <2>9
  <2>13. Cardinality(Span(Before(Loader, i))) <= r.used
    BY <2>2, <2>10
  <2>. QED
    BY <1>1, <2>7, <2>11, <2>12, <2>13 DEF EntriesDone, r
<1>11. CASE i # Bootstrap /\ e.type # "usable"
  <2>. DEFINE u == q.used + e.length
              v == q.usable + e.length
  <2>1. r = [q EXCEPT !.used = u, !.usable = v]
    BY <1>11 DEF AddEntry
  <2>2. u \in Int /\ v \in Nat /\ u = q.used + e.length
    BY <1>2, <1>4
  <2>. HIDE DEF u, v, r
  <2>3. r \in StType /\ r.pm = q.pm /\ r.len = q.len /\ r.pfndb = q.pfndb /\ r.ok = q.ok /\ r.used = u
    BY <1>1, <2>1, <2>2 DEF StType
  <2>4. Before(Rest, i) = R
    BY <1>3, <1>6, <1>11, BeforeFacts
  <2>5. Cardinality(Span(Before(Loader, i))) <= u
    <3>1. CASE i \in Loader
      <4>1. Before(Loader, i) = L \cup {i}
        BY <1>3, <3>1, BeforeFacts
      <4>. HIDE DEF L
      <4>2. /\ Span(L \cup {i}) = Span(L) \cup Entry(i) /\ Entry(i) \subseteq Pages
            /\ Cardinality(Entry(i)) = e.length
        BY <1>5, SpanMore
      <4>3. Cardinality(Span(L) \cup Entry(i)) <= Cardinality(Span(L)) + Cardinality(Entry(i))
        BY <1>8, <4>2, CountMore
      <4>4. Cardinality(Span(L) \cup Entry(i)) \in Nat
        <5>. DEFINE X == Span(L) \cup Entry(i)
        <5>1. X \subseteq Pages
          BY <1>8, <4>2
        <5>. HIDE DEF X
        <5>2. Cardinality(X) \in Nat
          BY <5>1, PagesFinite
        <5>. QED
          BY <5>2 DEF X
      <4>5. Cardinality(Span(Before(Loader, i))) = Cardinality(Span(L) \cup Entry(i))
        BY <4>1, <4>2
      <4>. QED
        BY <1>1, <1>2, <1>4, <1>8, <2>2, <4>2, <4>3, <4>4, <4>5
    <3>2. CASE i \notin Loader
      <4>1. Before(Loader, i) = L
        BY <1>3, <3>2, BeforeFacts
      <4>. HIDE DEF L
      <4>. QED
        BY <1>1, <1>2, <1>4, <1>8, <2>2, <4>1
    <3>. QED
      BY <3>1, <3>2
  <2>. HIDE DEF R
  <2>. QED
    BY <1>1, <2>3, <2>4, <2>5 DEF EntriesDone, r
<1>. QED
  BY <1>9, <1>10, <1>11

\* The second loop of init(): all usable entries but the bootstrap entry.
LEMMA WithEntriesDone ==
  ASSUME PmmAssumption, NEW st, EntriesDone(st, st, 0)
  PROVE  EntriesDone(WithEntries(st), st, Len(MemMap))
<1>. DEFINE n == Len(MemMap)
<1>1. n \in Nat /\ Unit = 1..n
  BY MapFacts DEF Unit
<1>2. PICK g : /\ DOMAIN g = 0..n /\ g[0] = st
               /\ \A i \in 1..n : g[i] = AddEntry(g[i - 1], i)
               /\ WithEntries(st) = g[n]
  <2>1. MapArgs(st)
    BY MapFacts, StFacts DEF MapArgs, EntriesDone
  <2>. QED
    BY <2>1, WithEntriesSteps
<1>. HIDE DEF n
<1>. DEFINE S == {i \in 0..n : EntriesDone(g[i], st, i)}
<1>3. 0 \in S
  BY <1>1, <1>2
<1>4. ASSUME NEW i \in 1..n, i - 1 \in S PROVE i \in S
  <2>1. EntriesDone(g[i - 1], st, i - 1) /\ i \in Unit /\ g[i] = AddEntry(g[i - 1], i)
    BY <1>1, <1>2, <1>4
  <2>2. EntriesDone(g[i], st, i)
    BY <2>1, AddEntryDone
  <2>. QED
    BY <1>1, <2>2
<1>5. S = 0..n
  <2>1. S \subseteq 0..n
    OBVIOUS
  <2>. HIDE DEF S
  <2>. QED
    BY <1>1, <1>3, <1>4, <2>1, Inductive
<1>6. n \in S
  <2>. HIDE DEF S
  <2>. QED
    BY <1>1, <1>5
<1>. QED
  BY <1>2, <1>6 DEF n

\* The pfndb of the bootstrap entry: what its first pages came to.
PfndbDone(q, st, M) ==
  /\ q \in StType /\ Sane(q.pm, M) /\ q.used >= st.used
  /\ Taken(q.pm) = q.pfndb /\ q.pfndb \subseteq M /\ \A m \in q.pfndb : q.pm.order[m] = 0
  /\ q.ok => st.ok /\ q.len >= 0 /\ q.len <= st.len

\* One page for the pfndb of the bootstrap entry.
LEMMA PfndbAllocDone ==
  ASSUME PmmAssumption, NEW q, NEW st \in StType, NEW M, PfndbDone(q, st, M)
  PROVE  PfndbDone(PfndbAlloc(q), st, M)
<1>. DEFINE r == AllocIn(q.pm, "normal", 0)
            t == PfndbAlloc(q)
<1>1. /\ q \in StType /\ Sane(q.pm, M) /\ q.used >= st.used
      /\ Taken(q.pm) = q.pfndb /\ q.pfndb \subseteq M /\ (\A m \in q.pfndb : q.pm.order[m] = 0)
      /\ q.ok => st.ok /\ q.len >= 0 /\ q.len <= st.len
  BY DEF PfndbDone
<1>2. /\ q.used \in Int /\ q.len \in Int /\ q.pfndb \subseteq Pages /\ st.used \in Int /\ st.len \in Int
      /\ M \subseteq Pages
  <2>1. M \subseteq Pages
    BY <1>1, SoundFacts DEF Sane
  <2>. QED
    BY <1>1, <2>1, StFacts
<1>3. AllocFailed(q.pm, r, M) \/ AllocTook(q.pm, r, 0, M)
  <2>1. r = AllocIn(q.pm, "normal", 0) /\ "normal" \in Zones
    BY DEF Zones
  <2>. HIDE DEF r
  <2>. QED
    BY <1>1, <2>1, AllocInDone
<1>4. t = IF ~q.ok \/ q.len < Reserve \/ (r.ret = 0 /\ ~Serves(q.len)) THEN [q EXCEPT !.ok = FALSE]
          ELSE IF r.ret = 0 THEN [q EXCEPT !.pm = r.pm, !.used = q.used + 1, !.len = q.len - 1]
          ELSE [q EXCEPT !.pm = r.pm, !.used = q.used + 1, !.pfndb = q.pfndb \cup {r.ret}]
  BY DEF PfndbAlloc, PfndbTake
<1>. HIDE DEF r, t
<1>5. CASE ~q.ok \/ q.len < Reserve \/ (r.ret = 0 /\ ~Serves(q.len))
  <2>1. t = [q EXCEPT !.ok = FALSE]
    BY <1>4, <1>5
  <2>2. t \in StType /\ t.pm = q.pm /\ t.used = q.used /\ t.pfndb = q.pfndb /\ t.ok = FALSE
    BY <1>1, <2>1 DEF StType
  <2>. QED
    BY <1>1, <2>2 DEF PfndbDone, t
<1>6. CASE ~(~q.ok \/ q.len < Reserve \/ (r.ret = 0 /\ ~Serves(q.len))) /\ r.ret = 0
  <2>. DEFINE u == q.used + 1
              l == q.len - 1
  <2>1. t = [q EXCEPT !.pm = r.pm, !.used = u, !.len = l]
    BY <1>4, <1>6
  <2>2. Sane(r.pm, M) /\ Kept(q.pm, r.pm)
    BY <1>3, <1>6 DEF AllocFailed, AllocTook
  <2>3. r.pm \in PmType
    BY <2>2, SaneType
  <2>4. u \in Int /\ l \in Int /\ u >= st.used
    BY <1>1, <1>2
  <2>5. q.ok /\ q.len > 0
    BY <1>6 DEF Serves
  <2>6. st.ok /\ l >= 0 /\ l <= st.len
    BY <1>1, <1>2, <2>5
  <2>. HIDE DEF u, l
  <2>7. t \in StType /\ t.pm = r.pm /\ t.used = u /\ t.pfndb = q.pfndb /\ t.ok = q.ok /\ t.len = l
    BY <1>1, <2>1, <2>3, <2>4 DEF StType
  <2>8. Taken(t.pm) = t.pfndb /\ \A m \in t.pfndb : t.pm.order[m] = 0
    BY <1>1, <2>2, <2>7 DEF Kept
  <2>. QED
    BY <1>1, <2>2, <2>4, <2>6, <2>7, <2>8 DEF PfndbDone, t
<1>7. CASE ~(~q.ok \/ q.len < Reserve \/ (r.ret = 0 /\ ~Serves(q.len))) /\ r.ret # 0
  <2>. DEFINE u == q.used + 1
              f == q.pfndb \cup {r.ret}
  <2>1. t = [q EXCEPT !.pm = r.pm, !.used = u, !.pfndb = f]
    BY <1>4, <1>7
  <2>2. /\ Sane(r.pm, M) /\ r.ret \in M /\ Taken(r.pm) = Taken(q.pm) \cup {r.ret}
        /\ r.pm.order[r.ret] = 0 /\ \A m \in Taken(q.pm) : r.pm.order[m] = q.pm.order[m]
    BY <1>3, <1>7 DEF AllocFailed, AllocTook
  <2>3. r.pm \in PmType
    BY <2>2, SaneType
  <2>4. u \in Int /\ u >= st.used /\ f \subseteq M /\ f \subseteq Pages
    BY <1>1, <1>2, <2>2
  <2>5. Taken(r.pm) = f /\ \A m \in f : r.pm.order[m] = 0
    BY <1>1, <2>2
  <2>6. st.ok /\ q.len >= 0 /\ q.len <= st.len /\ q.ok
    BY <1>1, <1>7
  <2>. HIDE DEF u, f
  <2>7. t \in StType /\ t.pm = r.pm /\ t.used = u /\ t.pfndb = f /\ t.ok = q.ok /\ t.len = q.len
    BY <1>1, <2>1, <2>3, <2>4 DEF StType
  <2>. QED
    BY <2>2, <2>4, <2>5, <2>6, <2>7 DEF PfndbDone, t
<1>. QED
  BY <1>5, <1>6, <1>7

\* All of them.
LEMMA WithPfndbDone ==
  ASSUME PmmAssumption, NEW st \in StType, NEW M, PfndbDone(st, st, M)
  PROVE  PfndbDone(WithPfndb(st), st, M)
<1>. DEFINE n == PfndbPages
<1>1. n \in Nat
  BY MapFacts
<1>2. PICK g : /\ DOMAIN g = 0..n /\ g[0] = st
               /\ \A i \in 1..n : g[i] = PfndbAlloc(g[i - 1])
               /\ WithPfndb(st) = g[n]
  <2>1. MapArgs(st)
    BY MapFacts, StFacts DEF MapArgs
  <2>. QED
    BY <2>1, WithPfndbSteps
<1>. HIDE DEF n
<1>. DEFINE S == {i \in 0..n : PfndbDone(g[i], st, M)}
<1>3. 0 \in S
  BY <1>1, <1>2
<1>4. ASSUME NEW i \in 1..n, i - 1 \in S PROVE i \in S
  <2>1. PfndbDone(g[i - 1], st, M) /\ g[i] = PfndbAlloc(g[i - 1])
    BY <1>1, <1>2, <1>4
  <2>2. PfndbDone(g[i], st, M)
    BY <2>1, PfndbAllocDone
  <2>. QED
    BY <1>1, <2>2
<1>5. S = 0..n
  <2>1. S \subseteq 0..n
    OBVIOUS
  <2>. HIDE DEF S
  <2>. QED
    BY <1>1, <1>3, <1>4, <2>1, Inductive
<1>6. n \in S
  <2>. HIDE DEF S
  <2>. QED
    BY <1>1, <1>5
<1>. QED
  BY <1>2, <1>6 DEF n

\* What the allocators have: the entries in J and l pages of the bootstrap entry.
Mem(J, l) == (Span(J) \cup BootBase..(BootBase + l - 1)) \ {0}

\* Allocators that have nothing.
LEMMA EmptySane ==
  ASSUME PmmAssumption
  PROVE  Sane(EmptyPm, {}) /\ Taken(EmptyPm) = {} /\ EmptyPm \in PmType
<1>1. 0 \in Orders /\ 0 \in Pages /\ Top \in Nat
  BY ZoneFacts DEF Orders, Pages, PmmAssumption
<1>. DEFINE ls == [z \in Zones |-> [k \in Orders |-> <<>>]]
            o == [p \in Pages |-> 0]
            al == [p \in Pages |-> FALSE]
<1>2. EmptyPm = [lists |-> ls, next |-> o, order |-> o, allocated |-> al]
  BY DEF EmptyPm
<1>3. ls \in [Zones -> [Orders -> Seq(Pages)]] /\ \A z \in Zones, k \in Orders : ls[z][k] = <<>>
  OBVIOUS
<1>4. o \in [Pages -> Orders] /\ o \in [Pages -> Pages] /\ \A m \in Pages : o[m] = 0
  BY <1>1
<1>5. al \in [Pages -> BOOLEAN] /\ \A m \in Pages : ~al[m]
  OBVIOUS
<1>. HIDE DEF ls, o, al
<1>6. EmptyPm \in PmType /\ EmptyPm.lists = ls /\ EmptyPm.order = o /\ EmptyPm.next = o /\ EmptyPm.allocated = al
  BY <1>2, <1>3, <1>4, <1>5 DEF PmType
<1>. HIDE DEF EmptyPm
<1>7. Taken(EmptyPm) = {}
  BY <1>5, <1>6 DEF Taken
<1>8. Tiles(o, {}, {})
  BY <1>4 DEF Tiles
<1>9. Chains(o, o, {}, {})
  BY <1>4 DEF Chains
<1>10. Lists(ls, o, {})
  <2>1. IsInjective(<<>>) /\ Range(<<>>) = {}
    BY DEF IsInjective, Range
  <2>. QED
    BY <1>3, <2>1 DEF Lists
<1>11. Sound(EmptyPm, {}, {})
  <2>1. {} \ Taken(EmptyPm) = {}
    OBVIOUS
  <2>. QED
    BY <1>6, <1>7, <1>8, <1>9, <1>10, <2>1 DEF Sound
<1>. QED
  BY <1>6, <1>7, <1>11 DEF Sane

InitReady(st) ==
  /\ st \in StType /\ st.pm = EmptyPm /\ st.used >= 0 /\ st.pfndb = {}
  /\ st.len >= 0 /\ st.len <= MemMap[Bootstrap].length
InitDone(q) ==
  /\ q \in StType /\ q.len >= 0 /\ q.len <= MemMap[Bootstrap].length
  /\ Sane(q.pm, Mem(Rest, q.len)) /\ Taken(q.pm) = q.pfndb /\ \A m \in q.pfndb : q.pm.order[m] = 0
  /\ Cardinality(Span(Loader)) <= q.used

\* init(), unless it panics.
LEMMA InitialisedDone ==
  ASSUME PmmAssumption, NEW st, InitReady(st), Initialised(st).ok
  PROVE  InitDone(Initialised(st))
<1>. DEFINE backed == {i \in 1..Len(MemMap) :
                         i # Bootstrap /\ MemMap[i].type \in {"usable", "bootloader"}}
            pages == PfndbPages * Cardinality(backed)
            ok == pages > 0 => Serves(st.len - pages + 1)
            u == st.used + pages
            l == st.len - pages
            start == [st EXCEPT !.used = u, !.len = l, !.ok = ok]
            entries == WithEntries(start)
            done == WithPfndb(entries)
            q == Initialised(st)
            n == Len(MemMap)
            M == Span(Rest) \ {0}
<1>1. /\ st \in StType /\ st.pm = EmptyPm /\ st.used >= 0 /\ st.pfndb = {}
      /\ st.len >= 0 /\ st.len <= MemMap[Bootstrap].length
      /\ st.used \in Int /\ st.len \in Int
  BY StFacts DEF InitReady
<1>2. pages \in Nat
  <2>1. n \in Nat /\ PfndbPages \in Nat
    BY MapFacts
  <2>2. backed \subseteq 1..n
    OBVIOUS
  <2>. HIDE DEF backed
  <2>3. IsFiniteSet(1..n)
    BY <2>1, FS_Interval
  <2>4. Cardinality(backed) \in Nat
    BY <2>2, <2>3, FS_Subset, FS_CardinalityType
  <2>. QED
    BY <2>1, <2>4
<1>3. q = IF done.ok THEN AddRange(done, BootBase, done.len, FALSE) ELSE done
  BY DEF Initialised, WithBootstrap
<1>. HIDE DEF pages
<1>4. ok \in BOOLEAN /\ (ok => l >= 0) /\ l <= st.len /\ l \in Int /\ u \in Int /\ u >= 0
  <2>1. ok => l >= 0
    BY <1>1, <1>2 DEF Serves
  <2>. QED
    BY <1>1, <1>2, <2>1
<1>. HIDE DEF ok, l, u
<1>5. /\ start \in StType /\ start.pm = EmptyPm /\ start.used = u /\ start.len = l /\ start.ok = ok
      /\ start.pfndb = {}
  BY <1>1, <1>4 DEF StType
<1>. HIDE DEF start
<1>6. Rest \subseteq Unit /\ Loader \subseteq Unit /\ Bootstrap \in Unit /\ Bootstrap \notin Rest
  BY MapFacts DEF Rest, Loader
<1>7. EntriesDone(start, start, 0)
  <2>1. Before(Rest, 0) = {} /\ Before(Loader, 0) = {}
    BY <1>6, BeforeFacts
  <2>2. Span({}) = {} /\ {} \ {0} = {}
    BY DEF Span
  <2>3. Cardinality(Span(Before(Loader, 0))) = 0 /\ Span(Before(Rest, 0)) \ {0} = {}
    BY <2>1, <2>2, FS_EmptySet
  <2>4. Sane(start.pm, Span(Before(Rest, 0)) \ {0}) /\ Taken(start.pm) = {}
    BY <1>5, <2>3, EmptySane
  <2>. QED
    BY <1>4, <1>5, <2>3, <2>4 DEF EntriesDone
<1>8. EntriesDone(entries, start, n)
  BY <1>7, WithEntriesDone
<1>. HIDE DEF entries
<1>9. /\ entries \in StType /\ entries.len = l /\ entries.pfndb = {} /\ entries.ok = ok
      /\ Sane(entries.pm, M) /\ Taken(entries.pm) = {}
      /\ Cardinality(Span(Loader)) <= entries.used
  <2>1. Before(Rest, n) = Rest /\ Before(Loader, n) = Loader
    BY <1>6, BeforeFacts
  <2>. QED
    BY <1>5, <1>8, <2>1 DEF EntriesDone
<1>. HIDE DEF M
<1>10. PfndbDone(entries, entries, M)
  BY <1>4, <1>9, StFacts DEF PfndbDone
<1>11. PfndbDone(done, entries, M)
  BY <1>9, <1>10, WithPfndbDone
<1>. HIDE DEF done
<1>12. /\ done \in StType /\ Sane(done.pm, M) /\ done.used >= entries.used
       /\ Taken(done.pm) = done.pfndb /\ (\A m \in done.pfndb : done.pm.order[m] = 0)
       /\ done.ok => ok /\ done.len >= 0 /\ done.len <= l
       /\ done.len \in Int /\ done.used \in Int /\ entries.used \in Int /\ done.pfndb \subseteq M
  BY <1>9, <1>11, StFacts DEF PfndbDone
<1>13. done.ok
  BY <1>3
<1>14. q = AddRange(done, BootBase, done.len, FALSE)
  BY <1>3, <1>13
<1>15. /\ BootBase \in Nat /\ MemMap[Bootstrap].length \in Nat
       /\ BootBase + MemMap[Bootstrap].length <= Top
       /\ \A m \in Span(Rest) : m < BootBase \/ BootBase + MemMap[Bootstrap].length <= m
  <2>1. \A m \in Span(Rest) : m < MemMap[Bootstrap].base \/ MemMap[Bootstrap].base + MemMap[Bootstrap].length <= m
    BY <1>6, SpanMore
  <2>. QED
    BY <1>6, <2>1, MapFacts DEF BootBase
<1>16. done.len \in Nat /\ done.len <= MemMap[Bootstrap].length
  BY <1>1, <1>4, <1>12, <1>13, <1>15
<1>17. AddRangeReady(done, M, BootBase, done.len)
  <2>0. Top \in Nat
    BY ZoneFacts
  <2>1. ASSUME NEW m \in M PROVE m < BootBase \/ BootBase + done.len <= m
    <3>1. m \in Nat
      <4>1. m \in Pages
        BY <1>12, SoundFacts DEF Sane
      <4>. QED
        BY <4>1, ZoneFacts DEF Pages
    <3>2. m < BootBase \/ BootBase + MemMap[Bootstrap].length <= m
      BY <1>15 DEF M
    <3>. QED
      BY <1>15, <1>16, <3>1, <3>2
  <2>2. BootBase + done.len <= Top
    BY <1>15, <1>16, <2>0
  <2>. QED
    BY <1>12, <1>15, <1>16, <2>1, <2>2 DEF AddRangeReady
<1>18. AddRangeDone(q, done, M, BootBase, done.len, FALSE)
  BY <1>14, <1>17, AddRangeSane
<1>. HIDE DEF q
<1>. DEFINE X == BootBase..(BootBase + done.len - 1)
<1>19. /\ q \in StType /\ q.len = done.len /\ q.pfndb = done.pfndb
       /\ Sane(q.pm, M \cup (X \ {0})) /\ Kept(done.pm, q.pm) /\ q.used >= done.used
  BY <1>18 DEF AddRangeDone
<1>20. Mem(Rest, q.len) = (Span(Rest) \cup X) \ {0}
  BY <1>15, <1>16, <1>19 DEF Mem
<1>. HIDE DEF X
<1>21. M \cup (X \ {0}) = Mem(Rest, q.len)
  BY <1>20 DEF M
<1>22. Sane(q.pm, Mem(Rest, q.len))
  BY <1>19, <1>21
<1>23. Taken(q.pm) = q.pfndb /\ \A m \in q.pfndb : q.pm.order[m] = 0
  BY <1>12, <1>19 DEF Kept
<1>24. Cardinality(Span(Loader)) <= q.used
  <2>1. Cardinality(Span(Loader)) \in Nat
    <3>1. Span(Loader) \subseteq Pages
      BY DEF Span
    <3>. QED
      BY <3>1, PagesFinite
  <2>2. q.used \in Int
    BY <1>19, StFacts
  <2>. QED
    BY <1>9, <1>12, <1>19, <2>1, <2>2
<1>. QED
  BY <1>16, <1>19, <1>22, <1>23, <1>24 DEF InitDone, q

\* reclaim_bootloader_memory(): the first i entries are given to the allocators;
\* mem.used still counts the others and the pages A in use.
ApartFromLoader(M) ==
  \A i \in Loader : \A m \in M : m < MemMap[i].base \/ MemMap[i].base + MemMap[i].length <= m
ReclaimDone(q, st, M, A, i) ==
  /\ q \in StType /\ Sane(q.pm, M \cup (Span(Before(Loader, i)) \ {0})) /\ Kept(st.pm, q.pm)
  /\ Cardinality(A \cup Span(Loader \ Before(Loader, i))) <= q.used

\* One entry of the boot loader.
LEMMA ReclaimEntryDone ==
  ASSUME PmmAssumption, NEW q, NEW st, NEW M, ApartFromLoader(M), NEW A, A \subseteq M,
         NEW i \in Unit, ReclaimDone(q, st, M, A, i - 1)
  PROVE  ReclaimDone(ReclaimEntry(q, i), st, M, A, i)
<1>. DEFINE e == MemMap[i]
            L == Before(Loader, i - 1)
            N == M \cup (Span(L) \ {0})
            r == ReclaimEntry(q, i)
            U == A \cup Span(Loader \ L)
            V == A \cup Span(Loader \ Before(Loader, i))
<1>1. q \in StType /\ Sane(q.pm, N) /\ Kept(st.pm, q.pm) /\ Cardinality(U) <= q.used
  BY DEF ReclaimDone
<1>2. Loader \subseteq Unit /\ (i \in Loader <=> e.type = "bootloader")
  BY DEF Loader
<1>3. CASE i \notin Loader
  <2>1. r = q
    BY <1>2, <1>3 DEF ReclaimEntry
  <2>2. Before(Loader, i) = L
    BY <1>2, <1>3, BeforeFacts
  <2>. HIDE DEF L, r
  <2>. QED
    BY <1>1, <2>1, <2>2 DEF ReclaimDone, r
<1>4. CASE i \in Loader
  <2>1. r = AddRange(q, e.base, e.length, TRUE)
    BY <1>2, <1>4 DEF ReclaimEntry
  <2>2. Before(Loader, i) = L \cup {i} /\ i \notin L /\ L \subseteq Unit
    BY <1>2, <1>4, BeforeFacts
  <2>. HIDE DEF L, r, e
  <2>3. e.base \in Nat /\ e.length \in Nat /\ e.base + e.length <= Top
    BY MapFacts DEF e
  <2>4. /\ Span(L \cup {i}) = Span(L) \cup Entry(i) /\ Entry(i) \subseteq Pages
        /\ Cardinality(Entry(i)) = e.length
        /\ \A m \in Span(L) : m < e.base \/ e.base + e.length <= m
    BY <2>2, SpanMore DEF e
  <2>5. \A m \in N : m < e.base \/ e.base + e.length <= m
    BY <1>4, <2>4 DEF ApartFromLoader, e
  <2>6. N \subseteq Pages
    <3>. HIDE DEF N
    <3>. QED
      BY <1>1, SoundFacts DEF Sane
  <2>7. Sane(q.pm, N)
    BY <1>1
  <2>. DEFINE K == N
  <2>8. AddRangeReady(q, K, e.base, e.length)
    <3>1. Sane(q.pm, K) /\ \A m \in K : m < e.base \/ e.base + e.length <= m
      BY <2>5, <2>7
    <3>. HIDE DEF K
    <3>. QED
      BY <1>1, <2>3, <3>1 DEF AddRangeReady
  <2>9. AddRangeDone(r, q, K, e.base, e.length, TRUE)
    <3>. HIDE DEF K
    <3>. QED
      BY <2>1, <2>8, AddRangeSane
  <2>. DEFINE X == e.base..(e.base + e.length - 1)
              Y == K \cup (X \ {0})
  <2>10. r \in StType /\ Sane(r.pm, Y) /\ Kept(q.pm, r.pm) /\ r.used >= q.used - e.length
    <3>. HIDE DEF K
    <3>. QED
      BY <2>9 DEF AddRangeDone
  <2>11. Y = M \cup (Span(Before(Loader, i)) \ {0})
    <3>1. X = Entry(i)
      BY DEF Entry, e
    <3>. HIDE DEF X
    <3>. QED
      BY <2>2, <2>4, <3>1
  <2>. HIDE DEF Y
  <2>12. Sane(r.pm, M \cup (Span(Before(Loader, i)) \ {0}))
    BY <2>10, <2>11
  <2>13. Kept(st.pm, r.pm)
    BY <1>1, <2>10, KeptTrans
  <2>14. Cardinality(V) <= r.used
    <3>. DEFINE W == Loader \ Before(Loader, i)
    <3>1. Loader \ L = W \cup {i} /\ i \notin W /\ W \subseteq Unit
      BY <1>2, <1>4, <2>2
    <3>. HIDE DEF W
    <3>2. Span(W \cup {i}) = Span(W) \cup Entry(i) /\ Span(W) \cap Entry(i) = {} /\ Span(W) \subseteq Pages
      BY <3>1, SpanMore
    <3>3. A \cap Entry(i) = {} /\ A \subseteq Pages
      <4>1. A \subseteq N
        OBVIOUS
      <4>2. ASSUME NEW m \in A, m \in Entry(i) PROVE FALSE
        <5>1. m < e.base \/ e.base + e.length <= m
          BY <2>5, <4>1
        <5>2. m \in e.base..(e.base + e.length - 1)
          BY <4>2 DEF Entry, e
        <5>. QED
          BY <2>3, <5>1, <5>2
      <4>. QED
        BY <2>6, <4>1, <4>2
    <3>4. U = (A \cup Span(W)) \cup Entry(i) /\ V = A \cup Span(W)
      <4>1. Span(Loader \ L) = Span(W) \cup Entry(i)
        BY <3>1, <3>2
      <4>. QED
        BY <4>1 DEF W
    <3>5. V \cap Entry(i) = {} /\ V \cup Entry(i) = U /\ U \subseteq Pages /\ V \subseteq Pages
      BY <2>4, <3>2, <3>3, <3>4
    <3>. HIDE DEF U, V
    <3>6. Cardinality(V) + Cardinality(Entry(i)) <= Cardinality(U)
      BY <2>4, <3>5, CountLess
    <3>7. Cardinality(U) \in Nat /\ Cardinality(V) \in Nat
      BY <3>5, PagesFinite
    <3>8. r.used \in Int /\ q.used \in Int
      BY <1>1, <2>10, StFacts
    <3>. QED
      BY <1>1, <2>3, <2>4, <2>10, <3>6, <3>7, <3>8
  <2>. QED
    BY <2>10, <2>12, <2>13, <2>14 DEF ReclaimDone, r
<1>. QED
  BY <1>3, <1>4

\* reclaim_bootloader_memory().
LEMMA ReclaimedDone ==
  ASSUME PmmAssumption, NEW st, NEW M, ApartFromLoader(M), NEW A, A \subseteq M,
         st \in StType, Sane(st.pm, M), Cardinality(A \cup Span(Loader)) <= st.used
  PROVE  /\ Reclaimed(st) \in StType /\ Sane(Reclaimed(st).pm, M \cup (Span(Loader) \ {0}))
         /\ Kept(st.pm, Reclaimed(st).pm) /\ Cardinality(A) <= Reclaimed(st).used
<1>. DEFINE n == Len(MemMap)
<1>1. n \in Nat /\ Unit = 1..n
  BY MapFacts DEF Unit
<1>2. PICK g : /\ DOMAIN g = 0..n /\ g[0] = st
               /\ \A i \in 1..n : g[i] = ReclaimEntry(g[i - 1], i)
               /\ Reclaimed(st) = g[n]
  <2>1. MapArgs(st)
    BY MapFacts, StFacts DEF MapArgs
  <2>. QED
    BY <2>1, ReclaimedSteps
<1>3. /\ Before(Loader, 0) = {} /\ Before(Loader, n) = Loader
      /\ Span({}) = {}
  <2>1. Loader \subseteq Unit
    BY DEF Loader
  <2>2. Span({}) = {}
    BY DEF Span
  <2>. QED
    BY <2>1, <2>2, BeforeFacts
<1>. HIDE DEF n
<1>. DEFINE S == {i \in 0..n : ReclaimDone(g[i], st, M, A, i)}
<1>4. ReclaimDone(st, st, M, A, 0)
  <2>1. M \cup (Span(Before(Loader, 0)) \ {0}) = M /\ Loader \ Before(Loader, 0) = Loader
    BY <1>3
  <2>2. Kept(st.pm, st.pm)
    BY DEF Kept
  <2>3. Sane(st.pm, M \cup (Span(Before(Loader, 0)) \ {0}))
    BY <2>1
  <2>4. Cardinality(A \cup Span(Loader \ Before(Loader, 0))) <= st.used
    BY <2>1
  <2>. QED
    BY <2>2, <2>3, <2>4 DEF ReclaimDone
<1>5. 0 \in S
  BY <1>1, <1>2, <1>4
<1>6. ASSUME NEW i \in 1..n, i - 1 \in S PROVE i \in S
  <2>1. ReclaimDone(g[i - 1], st, M, A, i - 1) /\ g[i] = ReclaimEntry(g[i - 1], i) /\ i \in Unit
    BY <1>1, <1>2, <1>6
  <2>2. ReclaimDone(g[i], st, M, A, i)
    BY <2>1, ReclaimEntryDone
  <2>. QED
    BY <1>1, <2>2
<1>7. S = 0..n
  <2>1. S \subseteq 0..n
    OBVIOUS
  <2>. HIDE DEF S
  <2>. QED
    BY <1>1, <1>5, <1>6, <2>1, Inductive
<1>8. n \in S
  <2>. HIDE DEF S
  <2>. QED
    BY <1>1, <1>7
<1>9. ReclaimDone(g[n], st, M, A, n)
  BY <1>8
<1>10. Loader \ Before(Loader, n) = {} /\ A \cup Span({}) = A
  BY <1>3
<1>. QED
  BY <1>2, <1>3, <1>9, <1>10 DEF ReclaimDone

-----------------------------------------------------------------------------
(* The allocators and what they handed out.                                *)

InUse(lv) == {m \in Pages : \E b \in lv : b.page <= m /\ m < b.page + b.npages}

\* Blocks are marked allocated exactly while they are in use.
Books(p, M, lv, db) ==
  /\ Sane(p, M) /\ lv \subseteq [page : Pages, npages : Sizes]
  /\ Taken(p) = {b.page : b \in lv} \cup db
  /\ \A b \in lv : p.order[b.page] = NextOrder(b.npages) /\ b.page \notin db
  /\ \A b, c \in lv : b.page = c.page => b = c
  /\ \A m \in db : p.order[m] = 0

\* Blocks in use lie in the memory of the allocators, apart from each other.
LEMMA BooksFacts ==
  ASSUME PmmAssumption, NEW p, NEW M, NEW lv, NEW db, Books(p, M, lv, db)
  PROVE  /\ p \in PmType /\ M \subseteq Pages
         /\ \A b \in lv : /\ b.page \in Nat /\ b.page \in Pages \ {0} /\ b.npages \in Nat \ {0} /\ b.npages \in Sizes
                          /\ b.page \in Taken(p) /\ NextOrder(b.npages) \in Orders
                          /\ Pow2[NextOrder(b.npages)] \in Nat
                          /\ b.npages <= Pow2[NextOrder(b.npages)]
         /\ InUse(lv) \subseteq M
         /\ \A b \in lv : b.page..(b.page + b.npages - 1) \subseteq InUse(lv)
         /\ \A b, c \in lv : b # c =>
              \A m \in c.page..(c.page + c.npages - 1) : m < b.page \/ b.page + b.npages <= m
<1>1. PICK H : Sound(p, H, M)
  BY DEF Books, Sane
<1>2. /\ p \in PmType /\ Tiles(p.order, H, M) /\ Taken(p) \subseteq H /\ H \subseteq M /\ M \subseteq Pages
      /\ \A h \in H : h \in Nat /\ h \in Pages /\ h # 0 /\ p.order[h] \in Nat /\ p.order[h] \in Orders
                      /\ Pow2[p.order[h]] \in Nat /\ Pow2[p.order[h]] > 0
  BY <1>1, SoundFacts
<1>3. Sizes \subseteq Nat \ {0} /\ \A m \in Pages : m \in Nat
  BY ZoneFacts DEF PmmAssumption, Pages
<1>4. ASSUME NEW b \in lv
      PROVE  /\ b.page \in Nat /\ b.page \in Pages \ {0} /\ b.npages \in Nat \ {0} /\ b.npages \in Sizes
             /\ b.page \in Taken(p) /\ b.page \in H /\ NextOrder(b.npages) \in Orders
             /\ Pow2[NextOrder(b.npages)] \in Nat
             /\ b.npages <= Pow2[NextOrder(b.npages)] /\ p.order[b.page] = NextOrder(b.npages)
  <2>1. b.npages \in Sizes /\ b.page \in Taken(p) /\ p.order[b.page] = NextOrder(b.npages)
    BY DEF Books
  <2>2. b.npages \in Nat \ {0} /\ b.page \in H
    BY <1>2, <1>3, <2>1
  <2>3. b.npages <= Pow2[NextOrder(b.npages)]
    <3>1. Pow2[NextOrder(b.npages)] >= b.npages /\ Pow2[NextOrder(b.npages)] \in Nat
      BY <1>2, <2>1, <2>2, NextOrderFits
    <3>. QED
      BY <2>2, <3>1
  <2>. QED
    BY <1>2, <2>1, <2>2, <2>3
<1>5. ASSUME NEW b \in lv, NEW m \in b.page..(b.page + b.npages - 1)
      PROVE  m \in M /\ m \in b.page..(b.page + Pow2[p.order[b.page]] - 1) /\ m \in InUse(lv)
  <2>1. m \in b.page..(b.page + Pow2[p.order[b.page]] - 1)
    BY <1>4
  <2>2. m \in M
    BY <1>2, <1>4, <2>1 DEF Tiles
  <2>3. m \in Pages /\ b.page <= m /\ m < b.page + b.npages
    BY <1>2, <1>4, <2>2
  <2>. QED
    BY <2>1, <2>2, <2>3 DEF InUse
<1>6. InUse(lv) \subseteq M
  <2>. SUFFICES ASSUME NEW m \in InUse(lv) PROVE m \in M
    OBVIOUS
  <2>1. PICK b \in lv : b.page <= m /\ m < b.page + b.npages
    BY DEF InUse
  <2>2. m \in Nat
    BY <1>3 DEF InUse
  <2>3. m \in b.page..(b.page + b.npages - 1)
    BY <1>4, <2>1, <2>2
  <2>. QED
    BY <1>5, <2>3
<1>7. ASSUME NEW b \in lv, NEW c \in lv, b # c, NEW m \in c.page..(c.page + c.npages - 1)
      PROVE  m < b.page \/ b.page + b.npages <= m
  <2>1. b.page # c.page
    BY <1>7 DEF Books
  <2>2. /\ b.page < c.page => b.page + Pow2[p.order[b.page]] <= c.page
        /\ c.page < b.page => c.page + Pow2[p.order[c.page]] <= b.page
    BY <1>2, <1>4 DEF Tiles
  <2>3. /\ b.page \in Nat /\ c.page \in Nat /\ b.npages \in Nat /\ c.npages \in Nat
        /\ b.npages <= Pow2[p.order[b.page]] /\ c.npages <= Pow2[p.order[c.page]]
        /\ Pow2[p.order[b.page]] \in Nat /\ Pow2[p.order[c.page]] \in Nat
    BY <1>2, <1>4
  <2>. QED
    BY <2>1, <2>2, <2>3
<1>. QED
  BY <1>2, <1>4, <1>5, <1>6, <1>7

\* Nothing changed hands.
LEMMA BooksKept ==
  ASSUME PmmAssumption, NEW p, NEW M, NEW lv, NEW db, Books(p, M, lv, db),
         NEW q, NEW N, Sane(q, N), Kept(p, q)
  PROVE  Books(q, N, lv, db)
<1>1. \A b \in lv : b.page \in Taken(p)
  BY DEF Books
<1>2. \A m \in db : m \in Taken(p)
  BY DEF Books
<1>. QED
  BY <1>1, <1>2 DEF Books, Kept

\* pmm::alloc.
LEMMA AllocTypeDone ==
  ASSUME PmmAssumption, NEW p, NEW M, Sane(p, M), NEW tp \in Zones, NEW order \in Nat,
         NEW r, r = AllocType(p, tp, order)
  PROVE  AllocFailed(p, r, M) \/ AllocTook(p, r, order, M)
<1>. DEFINE first == AllocIn(p, tp, order)
            second == AllocIn(first.pm, "sub4gib", order)
<1>1. r = IF first.ret = 0 /\ tp = "normal" THEN second ELSE first
  BY DEF AllocType
<1>2. AllocFailed(p, first, M) \/ AllocTook(p, first, order, M)
  <2>1. first = AllocIn(p, tp, order)
    OBVIOUS
  <2>. HIDE DEF first
  <2>. QED
    BY <2>1, AllocInDone
<1>. HIDE DEF first
<1>3. CASE ~(first.ret = 0 /\ tp = "normal")
  BY <1>1, <1>2, <1>3
<1>4. CASE first.ret = 0 /\ tp = "normal"
  <2>1. r = second
    BY <1>1, <1>4
  <2>2. Sane(first.pm, M) /\ Kept(p, first.pm)
    BY <1>2, <1>4 DEF AllocFailed, AllocTook
  <2>3. AllocFailed(first.pm, r, M) \/ AllocTook(first.pm, r, order, M)
    <3>1. r = AllocIn(first.pm, "sub4gib", order) /\ "sub4gib" \in Zones
      BY <2>1 DEF Zones
    <3>. QED
      BY <2>2, <3>1, AllocInDone
  <2>4. CASE AllocFailed(first.pm, r, M)
    <3>1. r.ret = 0 /\ Sane(r.pm, M) /\ Kept(first.pm, r.pm)
      BY <2>4 DEF AllocFailed
    <3>2. Kept(p, r.pm)
      BY <2>2, <3>1, KeptTrans
    <3>. QED
      BY <3>1, <3>2 DEF AllocFailed
  <2>5. CASE AllocTook(first.pm, r, order, M)
    BY <2>2, <2>5 DEF AllocTook, Kept
  <2>. QED
    BY <2>3, <2>4, <2>5
<1>. QED
  BY <1>3, <1>4

\* A block was handed out.
LEMMA BooksTook ==
  ASSUME PmmAssumption, NEW p, NEW M, NEW lv, NEW db, Books(p, M, lv, db), NEW n \in Sizes,
         NEW r, AllocTook(p, r, NextOrder(n), M), NEW C, C \subseteq Pages
  PROVE  LET new == [page |-> r.ret, npages |-> n]
         IN  /\ Books(r.pm, M, lv \cup {new}, db)
             /\ Cardinality(InUse(lv \cup {new}) \cup C) <= Cardinality(InUse(lv) \cup C) + Pow2[NextOrder(n)]
<1>. DEFINE new == [page |-> r.ret, npages |-> n]
<1>1. /\ r.ret \in M /\ r.ret # 0 /\ r.ret \notin Taken(p) /\ NextOrder(n) \in Orders
      /\ Sane(r.pm, M) /\ Taken(r.pm) = Taken(p) \cup {r.ret}
      /\ r.pm.order[r.ret] = NextOrder(n) /\ \A m \in Taken(p) : r.pm.order[m] = p.order[m]
  BY DEF AllocTook
<1>2. new.page = r.ret /\ new.npages = n /\ r.ret \in Pages /\ new \in [page : Pages, npages : Sizes]
  BY <1>1, BooksFacts
<1>3. /\ lv \subseteq [page : Pages, npages : Sizes] /\ Taken(p) = {b.page : b \in lv} \cup db
      /\ (\A b \in lv : p.order[b.page] = NextOrder(b.npages) /\ b.page \notin db)
      /\ (\A b, c \in lv : b.page = c.page => b = c) /\ (\A m \in db : p.order[m] = 0)
  BY DEF Books
<1>. HIDE DEF new
<1>4. \A b \in lv : b.page \in Taken(p) /\ b.page # r.ret
  BY <1>1, <1>3
<1>5. \A m \in db : m \in Taken(p) /\ m # r.ret
  BY <1>1, <1>3
<1>6. Taken(r.pm) = {b.page : b \in lv \cup {new}} \cup db
  <2>1. {b.page : b \in lv \cup {new}} = {b.page : b \in lv} \cup {r.ret}
    BY <1>2
  <2>. QED
    BY <1>1, <1>3, <2>1
<1>7. \A b \in lv \cup {new} : r.pm.order[b.page] = NextOrder(b.npages) /\ b.page \notin db
  BY <1>1, <1>2, <1>3, <1>4, <1>5
<1>8. \A b, c \in lv \cup {new} : b.page = c.page => b = c
  BY <1>2, <1>3, <1>4
<1>9. Books(r.pm, M, lv \cup {new}, db)
  BY <1>1, <1>2, <1>3, <1>5, <1>6, <1>7, <1>8 DEF Books
<1>10. Cardinality(InUse(lv \cup {new}) \cup C) <= Cardinality(InUse(lv) \cup C) + Pow2[NextOrder(n)]
  <2>. DEFINE X == r.ret..(r.ret + n - 1)
              U == InUse(lv) \cup C
  <2>1. /\ new \in lv \cup {new} /\ n \in Nat /\ r.ret \in Nat /\ X \subseteq InUse(lv \cup {new})
        /\ n <= Pow2[NextOrder(n)] /\ Pow2[NextOrder(n)] \in Nat
    BY <1>2, <1>9, BooksFacts
  <2>2. X \subseteq Pages /\ U \subseteq Pages
    BY <2>1 DEF InUse
  <2>3. InUse(lv \cup {new}) \cup C = U \cup X
    <3>1. ASSUME NEW m \in Pages
          PROVE  m \in InUse(lv \cup {new}) <=> m \in InUse(lv) \/ m \in X
      <4>1. m \in Nat
        BY ZoneFacts DEF Pages
      <4>2. m \in X <=> r.ret <= m /\ m < r.ret + n
        BY <2>1, <4>1
      <4>. HIDE DEF X
      <4>. QED
        BY <1>2, <4>2 DEF InUse
    <3>2. \A m \in InUse(lv \cup {new}) : m \in Pages
      BY DEF InUse
    <3>. HIDE DEF X
    <3>. QED
      BY <2>2, <3>1, <3>2
  <2>4. Cardinality(X) = n
    BY <2>1, RunCardinality
  <2>. HIDE DEF X, U
  <2>5. Cardinality(U \cup X) <= Cardinality(U) + n
    BY <2>2, <2>4, CountMore
  <2>6. Cardinality(U) \in Nat
    BY <2>2, PagesFinite
  <2>7. Cardinality(U \cup X) \in Nat
    <3>. DEFINE V == U \cup X
    <3>1. V \subseteq Pages
      BY <2>2
    <3>. HIDE DEF V
    <3>2. Cardinality(V) \in Nat
      BY <3>1, PagesFinite
    <3>. QED
      BY <3>2 DEF V
  <2>8. Cardinality(InUse(lv \cup {new}) \cup C) = Cardinality(U \cup X)
    BY <2>3
  <2>. QED
    BY <2>1, <2>5, <2>6, <2>7, <2>8 DEF U
<1>. QED
  BY <1>9, <1>10 DEF new

\* A block was given back.
LEMMA BooksFree ==
  ASSUME PmmAssumption, NEW p, NEW M, NEW lv, NEW db, Books(p, M, lv, db), NEW x \in lv,
         NEW C, C \subseteq Pages, C \cap M = {}
  PROVE  /\ Books(Put([p EXCEPT !.allocated[x.page] = FALSE],
                      ZoneOf(x.page), FreeOrder(x.npages), x.page), M, lv \ {x}, db)
         /\ Cardinality(InUse(lv \ {x}) \cup C) + FreedSize(x.npages) <= Cardinality(InUse(lv) \cup C)
<1>. DEFINE z == ZoneOf(x.page)
            k == FreeOrder(x.npages)
            q == Put([p EXCEPT !.allocated[x.page] = FALSE], z, k, x.page)
<1>1. /\ x.page \in Nat /\ x.page \in Pages \ {0} /\ x.npages \in Nat \ {0} /\ x.page \in Taken(p)
      /\ NextOrder(x.npages) \in Orders
  BY BooksFacts
<1>2. z \in Zones /\ InZone(z, x.page)
  <2>1. \E y \in Zones : ZoneStart(y) <= x.page /\ x.page < ZoneEnd(y)
    BY <1>1, ZoneFacts DEF InZone
  <2>. QED
    BY <2>1 DEF ZoneOf, InZone
<1>3. k \in Orders /\ p.order[x.page] = k
  BY <1>1 DEF FreeOrder, Books
<1>4. PICK H : Sound(p, H, M)
  BY DEF Books, Sane
<1>. HIDE DEF z, k
<1>5. Sound(q, H, M) /\ Taken(q) = Taken(p) \ {x.page} /\ q.order = p.order
  BY <1>1, <1>2, <1>3, <1>4, GiveSound
<1>. HIDE DEF q
<1>6. /\ lv \subseteq [page : Pages, npages : Sizes] /\ Taken(p) = {b.page : b \in lv} \cup db
      /\ (\A b \in lv : p.order[b.page] = NextOrder(b.npages) /\ b.page \notin db)
      /\ (\A b, c \in lv : b.page = c.page => b = c) /\ (\A m \in db : p.order[m] = 0)
  BY DEF Books
<1>7. Taken(q) = {b.page : b \in lv \ {x}} \cup db
  <2>1. \A b \in lv \ {x} : b.page # x.page
    BY <1>6
  <2>2. {b.page : b \in lv \ {x}} = {b.page : b \in lv} \ {x.page}
    BY <2>1
  <2>3. x.page \notin db
    BY <1>6
  <2>. QED
    BY <1>5, <1>6, <2>2, <2>3
<1>8. Books(q, M, lv \ {x}, db)
  <2>1. Sane(q, M)
    BY <1>5 DEF Sane
  <2>. QED
    BY <1>5, <1>6, <1>7, <2>1 DEF Books
<1>9. Cardinality(InUse(lv \ {x}) \cup C) + x.npages <= Cardinality(InUse(lv) \cup C)
  <2>. DEFINE X == x.page..(x.page + x.npages - 1)
              U == InUse(lv) \cup C
              V == InUse(lv \ {x}) \cup C
  <2>1. /\ X \subseteq InUse(lv) /\ InUse(lv) \subseteq M /\ M \subseteq Pages
        /\ \A b \in lv : b # x =>
             \A m \in X : m < b.page \/ b.page + b.npages <= m
    BY BooksFacts
  <2>2. InUse(lv \ {x}) \subseteq InUse(lv)
    BY DEF InUse
  <2>3. InUse(lv \ {x}) \cap X = {}
    <3>. SUFFICES ASSUME NEW m \in X, m \in InUse(lv \ {x}) PROVE FALSE
      OBVIOUS
    <3>1. PICK b \in lv \ {x} : b.page <= m /\ m < b.page + b.npages
      BY DEF InUse
    <3>2. m < b.page \/ b.page + b.npages <= m
      BY <2>1, <3>1
    <3>3. b.page \in Nat /\ b.npages \in Nat /\ m \in Int
      BY <1>1, BooksFacts
    <3>. QED
      BY <3>1, <3>2, <3>3
  <2>4. Cardinality(X) = x.npages
    BY <1>1, RunCardinality
  <2>. HIDE DEF X
  <2>5. V \cup X \subseteq U /\ V \cap X = {} /\ U \subseteq Pages /\ X \subseteq Pages
    BY <2>1, <2>2, <2>3
  <2>. HIDE DEF U, V
  <2>6. Cardinality(V) + Cardinality(X) <= Cardinality(U)
    BY <2>5, CountLess
  <2>. QED
    BY <2>4, <2>6 DEF U, V
<1>. QED
  BY <1>8, <1>9 DEF q, z, k, FreedSize

-----------------------------------------------------------------------------
(* The invariant.                                                          *)

Up == phase \in {"up", "panicked"}
Owned(rec) == Rest \cup (IF rec THEN Loader ELSE {})
Have == IF Up THEN Mem(Owned(reclaimed), bootLen) ELSE {}
StillUsed == IF Up /\ ~reclaimed THEN Loader ELSE {}

Inv ==
  /\ used \in Nat /\ usable \in Nat /\ phase \in {"boot", "up", "panicked", "failed"}
  /\ bootLen \in 0..MemMap[Bootstrap].length /\ reclaimed \in BOOLEAN
  /\ reclaiming \in BOOLEAN /\ (reclaiming => ~reclaimed)
  /\ Books(pm, Have, live, pfndb)
  /\ Cardinality(InUse(live) \cup Span(StillUsed)) <= used
  /\ ~Up => pm = EmptyPm /\ live = {} /\ pfndb = {} /\ reclaimed = FALSE

\* The memory of the allocators is what the property says it is, apart from
\* the memory of the boot loader until that is reclaimed.
LEMMA ManagedIs ==
  ASSUME PmmAssumption, bootLen \in 0..MemMap[Bootstrap].length, reclaimed \in BOOLEAN
  PROVE  Managed = Mem(Owned(reclaimed), bootLen)
<1>. DEFINE J == {j \in 1..Len(MemMap) : \/ j \in Usable \ {Bootstrap}
                                         \/ MemMap[j].type = "bootloader" /\ reclaimed}
            X == BootBase..(BootBase + bootLen - 1)
<1>1. J = Owned(reclaimed)
  BY MapFacts DEF Owned, Rest, Loader, Unit
<1>2. J \subseteq Unit
  BY DEF Unit
<1>3. Managed = (Covered(J) \cup X) \ {0}
  BY DEF Managed
<1>4. Mem(J, bootLen) = (Span(J) \cup X) \ {0}
  BY DEF Mem
<1>. HIDE DEF J, X
<1>5. Covered(J) = Span(J)
  <2>1. \A m : m \in UNION {Entry(i) : i \in J} <=> \E i \in J : m \in Entry(i)
    OBVIOUS
  <2>2. \A m : m \in Span(J) <=> \E i \in J : m \in Entry(i)
    BY <1>2, MapFacts DEF Span
  <2>. QED
    BY <2>1, <2>2 DEF Covered
<1>6. Managed = Mem(J, bootLen)
  BY <1>3, <1>4, <1>5
<1>. QED
  BY <1>1, <1>6

\* The memory of the boot loader is apart from what the allocators have.
LEMMA MemApart ==
  ASSUME PmmAssumption, NEW l \in 0..MemMap[Bootstrap].length
  PROVE  /\ ApartFromLoader(Mem(Rest, l)) /\ Span(Loader) \cap Mem(Rest, l) = {}
         /\ Mem(Rest, l) \cup (Span(Loader) \ {0}) = Mem(Rest \cup Loader, l)
<1>. DEFINE X == BootBase..(BootBase + l - 1)
<1>0. /\ Bootstrap \in Unit /\ MemMap[Bootstrap].length \in Nat /\ BootBase \in Nat
      /\ Rest \subseteq Unit /\ Loader \subseteq Unit /\ Rest \cap Loader = {} /\ Bootstrap \notin Loader
  BY MapFacts DEF Rest, BootBase, Loader
<1>1. \A m \in X : m \in Entry(Bootstrap)
  BY <1>0 DEF Entry, BootBase
<1>2. ASSUME NEW i \in Loader, NEW m \in Mem(Rest, l)
      PROVE  m < MemMap[i].base \/ MemMap[i].base + MemMap[i].length <= m
  <2>1. \E j \in Unit : j # i /\ m \in Entry(j)
    <3>1. m \in Span(Rest) \/ m \in X
      BY DEF Mem
    <3>2. CASE m \in Span(Rest)
      BY <1>0, <3>2 DEF Span
    <3>3. CASE m \in X
      BY <1>0, <1>1, <3>3
    <3>. QED
      BY <3>1, <3>2, <3>3
  <2>. QED
    BY <1>0, <2>1, MapFacts
<1>3. ASSUME NEW m \in Span(Loader), m \in Mem(Rest, l) PROVE FALSE
  <2>1. PICK i \in Loader : m \in Entry(i)
    BY DEF Span
  <2>2. m < MemMap[i].base \/ MemMap[i].base + MemMap[i].length <= m
    BY <1>2, <1>3
  <2>3. MemMap[i].base \in Nat /\ MemMap[i].length \in Nat
    BY <1>0, MapFacts
  <2>. QED
    BY <2>1, <2>2, <2>3 DEF Entry
<1>4. Mem(Rest, l) \cup (Span(Loader) \ {0}) = Mem(Rest \cup Loader, l)
  <2>1. Span(Rest \cup Loader) = Span(Rest) \cup Span(Loader)
    BY DEF Span
  <2>2. Mem(Rest, l) = (Span(Rest) \cup X) \ {0} /\ Mem(Rest \cup Loader, l) = (Span(Rest \cup Loader) \cup X) \ {0}
    BY DEF Mem
  <2>. HIDE DEF X
  <2>. QED
    BY <2>1, <2>2
<1>. QED
  BY <1>2, <1>3, <1>4 DEF ApartFromLoader

\* The boot loader's memory is not the allocators' until it is reclaimed.
LEMMA StillApart ==
  ASSUME PmmAssumption, Inv
  PROVE  Span(StillUsed) \subseteq Pages /\ Span(StillUsed) \cap Have = {}
<1>1. \A J : Span(J) \subseteq Pages
  BY DEF Span
<1>2. CASE Up /\ ~reclaimed
  <2>1. Owned(reclaimed) = Rest /\ StillUsed = Loader /\ Have = Mem(Rest, bootLen)
    BY <1>2 DEF Owned, StillUsed, Have
  <2>2. bootLen \in 0..MemMap[Bootstrap].length
    BY DEF Inv
  <2>. QED
    BY <1>1, <2>1, <2>2, MemApart
<1>3. CASE ~(Up /\ ~reclaimed)
  <2>1. StillUsed = {} /\ Span({}) = {}
    BY <1>3 DEF StillUsed, Span
  <2>. QED
    BY <2>1
<1>. QED
  BY <1>2, <1>3

LEMMA StateType ==
  ASSUME PmmAssumption, Inv
  PROVE  /\ State \in StType /\ State.pm = pm /\ State.used = used /\ State.len = bootLen
         /\ State.pfndb = pfndb /\ State.usable = usable
         /\ pm \in PmType /\ pfndb \subseteq Pages
<1>1. used \in Nat /\ usable \in Nat /\ bootLen \in Int
  <2>1. MemMap[Bootstrap].length \in Nat
    BY MapFacts
  <2>. QED
    BY <2>1 DEF Inv
<1>2. pm \in PmType /\ pfndb \subseteq Pages
  <2>1. Books(pm, Have, live, pfndb)
    BY DEF Inv
  <2>2. pm \in PmType /\ Taken(pm) \subseteq Pages /\ pfndb \subseteq Taken(pm)
    <3>1. pm \in PmType
      BY <2>1, BooksFacts
    <3>2. pfndb \subseteq Taken(pm)
      BY <2>1 DEF Books
    <3>3. Taken(pm) \subseteq Pages
      BY DEF Taken
    <3>. QED
      BY <3>1, <3>2, <3>3
  <2>. QED
    BY <2>2
<1>. QED
  BY <1>1, <1>2 DEF State, StType

\* The invariant holds before the first call.
LEMMA InvInit ==
  ASSUME PmmAssumption, Init
  PROVE  Inv
<1>1. /\ pm = EmptyPm /\ used = 0 /\ usable = 0 /\ phase = "boot" /\ bootLen = MemMap[Bootstrap].length
      /\ reclaimed = FALSE /\ live = {} /\ pfndb = {} /\ reclaiming = FALSE
  BY DEF Init
<1>2. ~Up /\ Have = {} /\ StillUsed = {}
  BY <1>1 DEF Up, Have, StillUsed
<1>3. Books(pm, Have, live, pfndb)
  BY <1>1, <1>2, EmptySane DEF Books
<1>4. InUse(live) \cup Span(StillUsed) = {}
  BY <1>1, <1>2 DEF InUse, Span
<1>5. Cardinality(InUse(live) \cup Span(StillUsed)) = 0
  BY <1>4, FS_EmptySet
<1>6. MemMap[Bootstrap].length \in Nat
  BY MapFacts
<1>7. Cardinality(InUse(live) \cup Span(StillUsed)) <= used
  BY <1>1, <1>5
<1>8. used \in Nat /\ usable \in Nat /\ phase \in {"boot", "up", "panicked", "failed"}
  BY <1>1
<1>9. bootLen \in 0..MemMap[Bootstrap].length
  <2>. DEFINE len == MemMap[Bootstrap].length
  <2>1. bootLen = len /\ len \in Nat
    BY <1>1, <1>6
  <2>. HIDE DEF len
  <2>2. bootLen \in 0..len
    BY <2>1
  <2>. QED
    BY <2>2 DEF len
<1>10. reclaimed \in BOOLEAN
  BY <1>1
<1>. QED
  BY <1>1, <1>3, <1>7, <1>8, <1>9, <1>10 DEF Inv

-----------------------------------------------------------------------------
(* Every action keeps the invariant.                                       *)

\* Before init() is done the allocators have nothing.
LEMMA NotUp ==
  ASSUME Inv, ~Up, ~Up', pm' = pm, live' = live, pfndb' = pfndb, reclaimed' = reclaimed,
         reclaiming' = reclaiming,
         used' \in Nat, usable' = usable, phase' \in {"boot", "up", "panicked", "failed"},
         bootLen' \in 0..MemMap[Bootstrap].length
  PROVE  Inv'
<1>1. Have = {} /\ Have' = {} /\ StillUsed = {} /\ StillUsed' = {}
  BY DEF Have, StillUsed
<1>2. /\ pm = EmptyPm /\ live = {} /\ pfndb = {} /\ reclaimed = FALSE /\ usable \in Nat
      /\ Books(pm, Have, live, pfndb)
  BY DEF Inv
<1>3. Books(pm', Have', live', pfndb')
  BY <1>1, <1>2
<1>4. InUse(live') \cup Span(StillUsed') = {}
  BY <1>1, <1>2 DEF InUse, Span
<1>5. Cardinality(InUse(live') \cup Span(StillUsed')) = 0
  BY <1>4, FS_EmptySet
<1>6. Cardinality(InUse(live') \cup Span(StillUsed')) <= used'
  BY <1>5
<1>7. used' \in Nat /\ usable' \in Nat /\ reclaimed' \in BOOLEAN
  BY <1>2
<1>8. pm' = EmptyPm /\ live' = {} /\ pfndb' = {} /\ reclaimed' = FALSE
  BY <1>2
<1>9. reclaiming' \in BOOLEAN /\ (reclaiming' => ~reclaimed')
  BY DEF Inv
<1>. QED
  BY <1>3, <1>6, <1>7, <1>8, <1>9 DEF Inv

LEMMA BootstrapAllocStep ==
  ASSUME PmmAssumption, Inv, BootstrapAlloc
  PROVE  Inv'
<1>1. /\ phase = "boot" /\ phase' = phase /\ pm' = pm /\ live' = live /\ pfndb' = pfndb
      /\ reclaimed' = reclaimed /\ usable' = usable /\ used' = used + 1 /\ bootLen' = bootLen - 1
      /\ reclaiming' = reclaiming
      /\ bootLen > 0
  BY DEF BootstrapAlloc, Serves
<1>2. ~Up /\ ~Up'
  BY <1>1 DEF Up
<1>3. used \in Nat /\ bootLen \in 0..MemMap[Bootstrap].length /\ MemMap[Bootstrap].length \in Nat
  BY MapFacts DEF Inv
<1>4. used' \in Nat /\ bootLen' \in 0..MemMap[Bootstrap].length
  BY <1>1, <1>3
<1>. QED
  BY <1>1, <1>2, <1>4, NotUp

LEMMA BootPanicStep ==
  ASSUME PmmAssumption, Inv, BootPanic
  PROVE  Inv'
<1>1. /\ phase = "boot" /\ phase' = "failed" /\ pm' = pm /\ live' = live /\ pfndb' = pfndb
      /\ reclaimed' = reclaimed /\ usable' = usable /\ used' = used /\ bootLen' = bootLen
      /\ reclaiming' = reclaiming
  BY DEF BootPanic
<1>2. ~Up /\ ~Up'
  BY <1>1 DEF Up
<1>3. used \in Nat /\ bootLen \in 0..MemMap[Bootstrap].length
  BY DEF Inv
<1>. QED
  BY <1>1, <1>2, <1>3, NotUp

LEMMA InitPmmStep ==
  ASSUME PmmAssumption, Inv, InitPmm
  PROVE  Inv'
<1>. DEFINE done == Initialised(State)
<1>1. /\ phase = "boot" /\ done.ok /\ pm' = done.pm /\ used' = done.used /\ usable' = done.usable
      /\ bootLen' = done.len /\ pfndb' = done.pfndb /\ phase' = "up" /\ reclaimed' = reclaimed /\ live' = live
      /\ reclaiming' = reclaiming
  BY DEF InitPmm
<1>2. ~Up /\ Up' /\ pm = EmptyPm /\ live = {} /\ pfndb = {} /\ reclaimed = FALSE /\ used \in Nat
  BY <1>1 DEF Up, Inv
<1>3. InitReady(State)
  <2>1. bootLen \in 0..MemMap[Bootstrap].length /\ MemMap[Bootstrap].length \in Nat
    BY MapFacts DEF Inv
  <2>2. bootLen >= 0 /\ bootLen <= MemMap[Bootstrap].length
    BY <2>1
  <2>. QED
    BY <1>2, <2>2, StateType DEF InitReady
<1>4. InitDone(done)
  BY <1>1, <1>3, InitialisedDone
<1>. HIDE DEF done
<1>5. /\ done \in StType /\ done.len >= 0 /\ done.len <= MemMap[Bootstrap].length
      /\ Sane(done.pm, Mem(Rest, done.len)) /\ Taken(done.pm) = done.pfndb
      /\ (\A m \in done.pfndb : done.pm.order[m] = 0)
      /\ Cardinality(Span(Loader)) <= done.used
      /\ done.used \in Int /\ done.usable \in Nat /\ done.len \in Int
  BY <1>4, StFacts DEF InitDone
<1>6. reclaimed' = FALSE /\ live' = {}
  BY <1>1, <1>2
<1>7. Have' = Mem(Rest, bootLen') /\ StillUsed' = Loader
  BY <1>2, <1>6 DEF Have, StillUsed, Owned
<1>8. Books(pm', Have', live', pfndb')
  BY <1>1, <1>5, <1>6, <1>7 DEF Books
<1>9. InUse(live') \cup Span(StillUsed') = Span(Loader)
  BY <1>6, <1>7 DEF InUse
<1>10. Cardinality(Span(Loader)) \in Nat
  <2>1. Span(Loader) \subseteq Pages
    BY DEF Span
  <2>. QED
    BY <2>1, PagesFinite
<1>11. Cardinality(InUse(live') \cup Span(StillUsed')) <= used'
  BY <1>1, <1>5, <1>9
<1>12. used' \in Nat
  BY <1>1, <1>5, <1>10
<1>13. bootLen' \in 0..MemMap[Bootstrap].length
  <2>1. MemMap[Bootstrap].length \in Nat
    BY MapFacts
  <2>. QED
    BY <1>1, <1>5, <2>1
<1>14. /\ usable' \in Nat /\ phase' \in {"boot", "up", "panicked", "failed"} /\ reclaimed' \in BOOLEAN
       /\ reclaiming' \in BOOLEAN /\ ~reclaimed'
  BY <1>1, <1>5, <1>6 DEF Inv
<1>. QED
  BY <1>2, <1>8, <1>11, <1>12, <1>13, <1>14 DEF Inv

LEMMA AllocStep ==
  ASSUME PmmAssumption, Inv, NEW n \in Sizes, NEW tp \in Zones, Alloc(n, tp)
  PROVE  Inv'
<1>. DEFINE order == NextOrder(n)
            r == AllocType(pm, tp, order)
            new == [page |-> r.ret, npages |-> n]
<1>1. /\ phase = "up" /\ pm' = r.pm
      /\ \/ r.ret = 0 /\ phase' = "panicked" /\ used' = used /\ live' = live
         \/ r.ret # 0 /\ used' = used + Pow2[order] /\ live' = live \cup {new} /\ phase' = phase
      /\ usable' = usable /\ bootLen' = bootLen /\ reclaimed' = reclaimed /\ pfndb' = pfndb
      /\ reclaiming' = FALSE
  BY DEF Alloc, Inv
<1>2. n \in Nat \ {0}
  BY DEF PmmAssumption
<1>3. order \in Nat /\ Pow2[order] \in Nat
  <2>1. order \in Nat
    BY <1>2, NextOrderFits
  <2>. HIDE DEF order
  <2>. QED
    BY <2>1, PowFacts
<1>4. /\ Books(pm, Have, live, pfndb) /\ Cardinality(InUse(live) \cup Span(StillUsed)) <= used
      /\ used \in Nat /\ usable \in Nat /\ bootLen \in 0..MemMap[Bootstrap].length /\ reclaimed \in BOOLEAN
  BY DEF Inv
<1>5. AllocFailed(pm, r, Have) \/ AllocTook(pm, r, order, Have)
  <2>1. r = AllocType(pm, tp, order) /\ Sane(pm, Have)
    BY <1>4 DEF Books
  <2>. HIDE DEF r, order
  <2>. QED
    BY <1>3, <2>1, AllocTypeDone
<1>6. phase' \in {"up", "panicked"} /\ Up /\ Up'
  BY <1>1 DEF Up
<1>7. Have' = Have /\ StillUsed' = StillUsed
  BY <1>1, <1>6 DEF Have, StillUsed
<1>. HIDE DEF r, order
<1>8. Books(pm', Have', live', pfndb') /\ Cardinality(InUse(live') \cup Span(StillUsed')) <= used' /\ used' \in Nat
  <2>1. CASE AllocFailed(pm, r, Have)
    <3>1. r.ret = 0 /\ Sane(r.pm, Have) /\ Kept(pm, r.pm)
      BY <2>1 DEF AllocFailed
    <3>2. used' = used /\ live' = live
      BY <1>1, <3>1
    <3>3. Books(r.pm, Have, live, pfndb)
      BY <1>4, <3>1, BooksKept
    <3>. QED
      BY <1>1, <1>4, <1>7, <3>2, <3>3
  <2>2. CASE AllocTook(pm, r, order, Have)
    <3>1. r.ret # 0
      BY <2>2 DEF AllocTook
    <3>2. used' = used + Pow2[order] /\ live' = live \cup {new}
      BY <1>1, <3>1
    <3>3. PICK C : C = Span(StillUsed)
      OBVIOUS
    <3>4. C \subseteq Pages
      BY <3>3, StillApart
    <3>5. /\ Books(r.pm, Have, live \cup {new}, pfndb)
          /\ Cardinality(InUse(live \cup {new}) \cup C) <= Cardinality(InUse(live) \cup C) + Pow2[order]
      BY <1>4, <2>2, <3>4, BooksTook DEF order
    <3>. HIDE DEF new
    <3>6. Cardinality(InUse(live) \cup C) \in Nat /\ Cardinality(InUse(live \cup {new}) \cup C) \in Nat
      <4>1. \A lv : InUse(lv) \subseteq Pages
        BY DEF InUse
      <4>2. InUse(live) \cup C \subseteq Pages /\ InUse(live \cup {new}) \cup C \subseteq Pages
        BY <3>4, <4>1
      <4>. QED
        BY <4>2, PagesFinite
    <3>7. Cardinality(InUse(live) \cup C) <= used
      BY <1>4, <3>3
    <3>8. Cardinality(InUse(live \cup {new}) \cup C) <= used + Pow2[order]
      BY <1>3, <1>4, <3>5, <3>6, <3>7
    <3>9. used' \in Nat
      BY <1>3, <1>4, <3>2
    <3>10. Cardinality(InUse(live') \cup Span(StillUsed')) <= used'
      BY <1>7, <3>2, <3>3, <3>8
    <3>. QED
      BY <1>1, <1>7, <3>2, <3>5, <3>9, <3>10
  <2>. QED
    BY <1>5, <2>1, <2>2
<1>. QED
  BY <1>1, <1>4, <1>6, <1>8 DEF Inv

LEMMA FreeStep ==
  ASSUME PmmAssumption, Inv, NEW b \in live, Free(b)
  PROVE  Inv'
<1>. DEFINE q == Put([pm EXCEPT !.allocated[b.page] = FALSE],
                     ZoneOf(b.page), FreeOrder(b.npages), b.page)
<1>1. /\ phase = "up" /\ pm' = q /\ used' = used - FreedSize(b.npages) /\ live' = live \ {b}
      /\ phase' = phase /\ usable' = usable /\ bootLen' = bootLen /\ reclaimed' = reclaimed /\ pfndb' = pfndb
      /\ reclaiming' = FALSE
  BY DEF Free, Inv
<1>2. /\ Books(pm, Have, live, pfndb) /\ Cardinality(InUse(live) \cup Span(StillUsed)) <= used
      /\ used \in Nat /\ usable \in Nat /\ bootLen \in 0..MemMap[Bootstrap].length /\ reclaimed \in BOOLEAN
  BY DEF Inv
<1>3. Up /\ Up'
  BY <1>1 DEF Up
<1>4. Have' = Have /\ StillUsed' = StillUsed
  BY <1>1, <1>3 DEF Have, StillUsed
<1>5. PICK C : C = Span(StillUsed)
  OBVIOUS
<1>6. C \subseteq Pages /\ C \cap Have = {}
  BY <1>5, StillApart
<1>7. /\ Books(q, Have, live \ {b}, pfndb)
      /\ Cardinality(InUse(live \ {b}) \cup C) + FreedSize(b.npages) <= Cardinality(InUse(live) \cup C)
  BY <1>2, <1>6, BooksFree
<1>. HIDE DEF q
<1>8. FreedSize(b.npages) \in Nat
  BY <1>2, BooksFacts DEF FreedSize
<1>9. Cardinality(InUse(live) \cup C) \in Nat /\ Cardinality(InUse(live \ {b}) \cup C) \in Nat
  <2>1. \A lv : InUse(lv) \subseteq Pages
    BY DEF InUse
  <2>2. InUse(live) \cup C \subseteq Pages /\ InUse(live \ {b}) \cup C \subseteq Pages
    BY <1>6, <2>1
  <2>. QED
    BY <2>2, PagesFinite
<1>10. Cardinality(InUse(live) \cup C) <= used
  BY <1>2, <1>5
<1>11. used' \in Nat /\ Cardinality(InUse(live \ {b}) \cup C) <= used'
  BY <1>1, <1>2, <1>7, <1>8, <1>9, <1>10
<1>12. Cardinality(InUse(live') \cup Span(StillUsed')) <= used'
  BY <1>1, <1>4, <1>5, <1>11
<1>13. Books(pm', Have', live', pfndb')
  BY <1>1, <1>4, <1>7
<1>. QED
  BY <1>1, <1>2, <1>3, <1>11, <1>12, <1>13 DEF Inv

LEMMA ReclaimBeginStep ==
  ASSUME Inv, ReclaimBegin
  PROVE  Inv'
  BY DEF ReclaimBegin, Inv, Have, StillUsed, Up

LEMMA ReclaimEndStep ==
  ASSUME PmmAssumption, Inv, ReclaimEnd
  PROVE  Inv'
<1>. DEFINE done == Reclaimed(State)
            M == Mem(Rest, bootLen)
            A == InUse(live)
<1>1. /\ phase = "up" /\ ~reclaimed /\ pm' = done.pm /\ used' = done.used /\ usable' = done.usable
      /\ reclaimed' = TRUE /\ phase' = phase /\ bootLen' = bootLen /\ live' = live /\ pfndb' = pfndb
      /\ reclaiming' = FALSE
  BY DEF ReclaimEnd, Inv
<1>2. /\ Books(pm, Have, live, pfndb) /\ Cardinality(InUse(live) \cup Span(StillUsed)) <= used
      /\ bootLen \in 0..MemMap[Bootstrap].length
  BY DEF Inv
<1>3. Up /\ Up'
  BY <1>1 DEF Up
<1>4. Have = M /\ StillUsed = Loader /\ Have' = Mem(Rest \cup Loader, bootLen) /\ StillUsed' = {}
  BY <1>1, <1>3 DEF Have, StillUsed, Owned
<1>. HIDE DEF M
<1>5. ApartFromLoader(M) /\ M \cup (Span(Loader) \ {0}) = Mem(Rest \cup Loader, bootLen)
  BY <1>2, MemApart DEF M
<1>6. /\ State \in StType /\ State.pm = pm /\ State.used = used
  BY StateType
<1>7. A \subseteq M /\ Sane(pm, M)
  <2>1. Books(pm, M, live, pfndb)
    BY <1>2, <1>4
  <2>. QED
    <3>1. InUse(live) \subseteq M
      BY <2>1, BooksFacts
    <3>2. Sane(pm, M)
      BY <2>1 DEF Books
    <3>. QED
      BY <3>1, <3>2
<1>. HIDE DEF A
<1>8. Cardinality(A \cup Span(Loader)) <= State.used
  BY <1>2, <1>4, <1>6 DEF A
<1>9. /\ done \in StType /\ Sane(done.pm, M \cup (Span(Loader) \ {0}))
      /\ Kept(State.pm, done.pm) /\ Cardinality(A) <= done.used
  <2>1. Sane(State.pm, M)
    BY <1>6, <1>7
  <2>. QED
    BY <1>5, <1>6, <1>7, <1>8, <2>1, ReclaimedDone
<1>. HIDE DEF done
<1>10. Books(done.pm, Have', live, pfndb)
  <2>1. Sane(done.pm, Mem(Rest \cup Loader, bootLen)) /\ Kept(pm, done.pm)
    BY <1>5, <1>6, <1>9
  <2>2. Books(done.pm, Mem(Rest \cup Loader, bootLen), live, pfndb)
    BY <1>2, <2>1, BooksKept
  <2>. QED
    BY <1>4, <2>2
<1>11. Books(pm', Have', live', pfndb')
  BY <1>1, <1>10
<1>12. Cardinality(InUse(live') \cup Span(StillUsed')) = Cardinality(A)
  <2>1. Span({}) = {}
    BY DEF Span
  <2>2. InUse(live') \cup Span(StillUsed') = InUse(live)
    BY <1>1, <1>4, <2>1
  <2>. QED
    BY <2>2 DEF A
<1>13. Cardinality(A) \in Nat
  <2>1. A \subseteq Pages
    BY DEF A, InUse
  <2>. QED
    BY <2>1, PagesFinite
<1>14. used' \in Nat /\ Cardinality(InUse(live') \cup Span(StillUsed')) <= used' /\ usable' \in Nat
  <2>1. done.used \in Int /\ done.usable \in Nat
    BY <1>9, StFacts
  <2>. QED
    BY <1>1, <1>9, <1>12, <1>13, <2>1
<1>15. phase' \in {"boot", "up", "panicked", "failed"} /\ reclaimed' \in BOOLEAN
  BY <1>1
<1>. QED
  BY <1>1, <1>2, <1>3, <1>11, <1>14, <1>15 DEF Inv

\* Every step keeps the invariant, but for the race that ends all knowledge.
LEMMA InvNext ==
  ASSUME PmmAssumption, Inv, [Next]_vars
  PROVE  Inv' \/ phase' = "raced"
<1>1. CASE BootstrapAlloc
  BY <1>1, BootstrapAllocStep
<1>2. CASE InitPmm
  BY <1>2, InitPmmStep
<1>3. CASE BootPanic
  BY <1>3, BootPanicStep
<1>4. ASSUME NEW n \in Sizes, NEW tp \in Zones, Alloc(n, tp) PROVE Inv'
  BY <1>4, AllocStep
<1>5. ASSUME NEW b \in live, Free(b) PROVE Inv'
  BY <1>5, FreeStep
<1>6. CASE ReclaimBegin \/ ReclaimEnd
  BY <1>6, ReclaimBeginStep, ReclaimEndStep
<1>7. CASE UNCHANGED vars
  BY <1>7 DEF vars, Inv, Have, StillUsed, Up
<1>8. CASE Overlap
  BY <1>8 DEF Overlap
<1>. QED
  BY <1>1, <1>2, <1>3, <1>4, <1>5, <1>6, <1>7, <1>8 DEF Next

\* Nothing runs on after the race.
LEMMA RacedStays ==
  ASSUME phase = "raced", [Next]_vars
  PROVE  phase' = "raced"
  BY DEF Next, vars, BootstrapAlloc, InitPmm, BootPanic, Alloc, Free, ReclaimBegin, ReclaimEnd, Overlap

-----------------------------------------------------------------------------
(* The invariant implies the property.                                     *)

\* The blocks on the free lists.
LEMMA FreeBlockFacts ==
  ASSUME NEW p
  PROVE  \A x : x \in FreeBlocks(p) <=>
           \E z \in Zones, k \in Orders : \E pg \in Range(p.lists[z][k]) : x = <<pg, z, k>>
<1>. TAKE x
<1>. DEFINE On(zk) == {<<pg, zk[1], zk[2]>> : pg \in Range(p.lists[zk[1]][zk[2]])}
<1>1. x \in FreeBlocks(p) <=> \E zk \in Zones \X Orders : x \in On(zk)
  BY DEF FreeBlocks
<1>2. ASSUME NEW zk \in Zones \X Orders, x \in On(zk)
      PROVE  \E z \in Zones, k \in Orders : \E pg \in Range(p.lists[z][k]) : x = <<pg, z, k>>
  BY <1>2
<1>3. ASSUME NEW z \in Zones, NEW k \in Orders, NEW pg \in Range(p.lists[z][k]), x = <<pg, z, k>>
      PROVE  \E zk \in Zones \X Orders : x \in On(zk)
  <2>1. <<z, k>> \in Zones \X Orders /\ x \in On(<<z, k>>)
    BY <1>3
  <2>. QED
    BY <2>1
<1>. QED
  BY <1>1, <1>2, <1>3

\* Every block of the property is the block of one head, and the other way round.
HeadsAre(H) ==
  /\ \A x \in AllBlocks : x[1] \in H /\ x[3] = pm.order[x[1]]
  /\ \A x, y \in AllBlocks : x[1] = y[1] => x = y
  /\ \A h \in H : \E x \in AllBlocks : x[1] = h

\* The books say so.
LEMMA HeadsHold ==
  ASSUME PmmAssumption, NEW H, NEW M, Sound(pm, H, M), Books(pm, M, live, pfndb)
  PROVE  HeadsAre(H)
<1>. DEFINE T == Taken(pm)
            Free1(x) == \E z \in Zones, k \in Orders, pg \in H \ T :
                          x = <<pg, z, k>> /\ pm.order[pg] = k /\ InZone(z, pg)
            Live1(x) == \E b \in live : x = <<b.page, "live", NextOrder(b.npages)>>
            Db1(x) == \E pg \in pfndb : x = <<pg, "pfndb", 0>>
<1>1. /\ Taken(pm) \subseteq H /\ Lists(pm.lists, pm.order, H \ T)
      /\ \A h \in H : h \in Pages /\ h # 0 /\ pm.order[h] \in Orders
  BY SoundFacts
<1>2. /\ T = {b.page : b \in live} \cup pfndb
      /\ (\A b \in live : pm.order[b.page] = NextOrder(b.npages) /\ b.page \notin pfndb)
      /\ (\A b, c \in live : b.page = c.page => b = c) /\ (\A m \in pfndb : pm.order[m] = 0)
  BY DEF Books
<1>. HIDE DEF T
<1>3. \A z \in Zones, k \in Orders :
        \A m : m \in Range(pm.lists[z][k]) <=> m \in H \ T /\ pm.order[m] = k /\ InZone(z, m)
  BY <1>1 DEF Lists
<1>4. \A x : x \in FreeBlocks(pm) <=> Free1(x)
  BY <1>3, FreeBlockFacts
<1>5. \A x : x \in AllBlocks <=> Free1(x) \/ Live1(x) \/ Db1(x)
  BY <1>4 DEF AllBlocks
<1>6. /\ \A b \in live : b.page \in T /\ b.page \in H /\ pm.order[b.page] = NextOrder(b.npages)
      /\ \A m \in pfndb : m \in T /\ m \in H /\ pm.order[m] = 0
  BY <1>1, <1>2 DEF T
<1>7. \A x : Free1(x) => x[1] \in H /\ x[1] \notin T /\ x[3] = pm.order[x[1]]
  OBVIOUS
<1>8. \A x : Live1(x) => x[1] \in H /\ x[1] \in T /\ x[1] \notin pfndb /\ x[3] = pm.order[x[1]]
  BY <1>2, <1>6
<1>9. \A x : Db1(x) => x[1] \in H /\ x[1] \in T /\ x[1] \in pfndb /\ x[3] = pm.order[x[1]]
  BY <1>6
<1>10. ASSUME NEW x, NEW y, Free1(x), Free1(y), x[1] = y[1] PROVE x = y
  <2>1. PICK z \in Zones, k \in Orders, pg \in H \ T : x = <<pg, z, k>> /\ pm.order[pg] = k /\ InZone(z, pg)
    BY <1>10
  <2>2. PICK w \in Zones, j \in Orders, m \in H \ T : y = <<m, w, j>> /\ pm.order[m] = j /\ InZone(w, m)
    BY <1>10
  <2>3. m = pg /\ j = k
    BY <1>10, <2>1, <2>2
  <2>4. w = z
    BY <1>1, <2>1, <2>2, <2>3, ZoneFacts
  <2>. QED
    BY <2>1, <2>2, <2>3, <2>4
<1>11. ASSUME NEW x, NEW y, Live1(x), Live1(y), x[1] = y[1] PROVE x = y
  <2>1. PICK b \in live : x = <<b.page, "live", NextOrder(b.npages)>>
    BY <1>11
  <2>2. PICK c \in live : y = <<c.page, "live", NextOrder(c.npages)>>
    BY <1>11
  <2>3. b = c
    BY <1>2, <1>11, <2>1, <2>2
  <2>. QED
    BY <2>1, <2>2, <2>3
<1>12. ASSUME NEW x, NEW y, Db1(x), Db1(y), x[1] = y[1] PROVE x = y
  BY <1>12
<1>13. ASSUME NEW h \in H PROVE \E x : (Free1(x) \/ Live1(x) \/ Db1(x)) /\ x[1] = h
  <2>1. CASE h \notin T
    <3>1. PICK z \in Zones : InZone(z, h)
      BY <1>1, ZoneFacts
    <3>2. Free1(<<h, z, pm.order[h]>>) /\ <<h, z, pm.order[h]>>[1] = h
      BY <1>1, <2>1, <3>1
    <3>. QED
      BY <3>2
  <2>2. CASE h \in pfndb
    <3>1. Db1(<<h, "pfndb", 0>>) /\ <<h, "pfndb", 0>>[1] = h
      BY <2>2
    <3>. QED
      BY <3>1
  <2>3. CASE h \in T /\ h \notin pfndb
    <3>1. PICK b \in live : h = b.page
      BY <1>2, <2>3
    <3>2. Live1(<<h, "live", NextOrder(b.npages)>>) /\ <<h, "live", NextOrder(b.npages)>>[1] = h
      BY <3>1
    <3>. QED
      BY <3>2
  <2>. QED
    BY <2>1, <2>2, <2>3
<1>. HIDE DEF Free1, Live1, Db1
<1>14. \A x \in AllBlocks : x[1] \in H /\ x[3] = pm.order[x[1]]
  BY <1>5, <1>7, <1>8, <1>9
<1>15. \A x, y \in AllBlocks : x[1] = y[1] => x = y
  BY <1>5, <1>7, <1>8, <1>9, <1>10, <1>11, <1>12
<1>16. \A h \in H : \E x \in AllBlocks : x[1] = h
  BY <1>5, <1>13
<1>. QED
  BY <1>14, <1>15, <1>16 DEF HeadsAre

\* Blocks with these heads cover the memory once.
LEMMA CoverHolds ==
  ASSUME PmmAssumption, NEW H, NEW M, Tiles(pm.order, H, M), HeadsAre(H)
  PROVE  /\ UNION {Block(b[1], b[3]) : b \in AllBlocks} = M
         /\ \A b, c \in AllBlocks : b # c => Block(b[1], b[3]) \cap Block(c[1], c[3]) = {}
<1>1. /\ M \subseteq Pages /\ \A m \in Pages : m \in Nat
      /\ \A h \in H : h \in Nat /\ h \in Pages /\ Pow2[pm.order[h]] \in Nat
  BY TileFacts
<1>2. ASSUME NEW h \in H, NEW m PROVE m \in Block(h, pm.order[h]) <=> m \in Int /\ h <= m /\ m < h + Pow2[pm.order[h]]
  BY <1>1 DEF Block
<1>3. \A x \in AllBlocks : x[1] \in H /\ x[3] = pm.order[x[1]]
  BY DEF HeadsAre
<1>4. ASSUME NEW x \in AllBlocks, NEW m \in Block(x[1], x[3]) PROVE m \in M
  BY <1>3 DEF Tiles, Block
<1>5. ASSUME NEW m \in M PROVE \E x \in AllBlocks : m \in Block(x[1], x[3])
  <2>1. PICK h \in H : h <= m /\ m < h + Pow2[pm.order[h]]
    BY DEF Tiles
  <2>2. PICK x \in AllBlocks : x[1] = h
    BY DEF HeadsAre
  <2>3. m \in Int
    BY <1>1
  <2>. QED
    BY <1>2, <1>3, <2>1, <2>2, <2>3
<1>6. ASSUME NEW b \in AllBlocks, NEW c \in AllBlocks, b # c
      PROVE  Block(b[1], b[3]) \cap Block(c[1], c[3]) = {}
  <2>1. PICK g \in H : g = b[1] /\ b[3] = pm.order[g]
    BY <1>3
  <2>2. PICK h \in H : h = c[1] /\ c[3] = pm.order[h]
    BY <1>3
  <2>3. g # h
    BY <1>6, <2>1, <2>2 DEF HeadsAre
  <2>4. /\ g < h => g + Pow2[pm.order[g]] <= h
        /\ h < g => h + Pow2[pm.order[h]] <= g
    BY DEF Tiles
  <2>5. ASSUME NEW m, m \in Block(g, pm.order[g]), m \in Block(h, pm.order[h]) PROVE FALSE
    <3>1. /\ m \in Int /\ g <= m /\ m < g + Pow2[pm.order[g]]
          /\ h <= m /\ m < h + Pow2[pm.order[h]]
      BY <1>2, <2>5
    <3>2. g \in Nat /\ h \in Nat /\ Pow2[pm.order[g]] \in Nat /\ Pow2[pm.order[h]] \in Nat
      BY <1>1
    <3>. QED
      BY <2>3, <2>4, <3>1, <3>2
  <2>. QED
    BY <2>1, <2>2, <2>5
<1>7. \A m : m \in UNION {Block(b[1], b[3]) : b \in AllBlocks} <=> \E b \in AllBlocks : m \in Block(b[1], b[3])
  OBVIOUS
<1>8. UNION {Block(b[1], b[3]) : b \in AllBlocks} = M
  BY <1>4, <1>5, <1>7
<1>. QED
  BY <1>6, <1>8

\* The invariant is stronger than the property.
LEMMA InvImplies ==
  ASSUME PmmAssumption, Inv
  PROVE  MemoryAccounted
<1>0. /\ used \in Nat /\ usable \in Nat /\ phase \in {"boot", "up", "panicked", "failed"}
      /\ bootLen \in 0..MemMap[Bootstrap].length /\ reclaimed \in BOOLEAN /\ reclaiming \in BOOLEAN
      /\ Books(pm, Have, live, pfndb)
  BY DEF Inv
<1>1. PICK H : Sound(pm, H, Have)
  BY <1>0 DEF Books, Sane
<1>2. /\ pm \in PmType /\ Tiles(pm.order, H, Have)
      /\ Taken(pm) \subseteq H /\ Lists(pm.lists, pm.order, H \ Taken(pm)) /\ H \subseteq Pages
  BY <1>1, SoundFacts
<1>3. HeadsAre(H)
  BY <1>0, <1>1, HeadsHold
<1>4. \A z \in Zones, k \in Orders :
        /\ IsInjective(pm.lists[z][k])
        /\ \A m : m \in Range(pm.lists[z][k]) <=> m \in H \ Taken(pm) /\ pm.order[m] = k /\ InZone(z, m)
  BY <1>2 DEF Lists
<1>5. TypeOK
  <2>1. \A z \in Zones, k \in Orders : Range(pm.lists[z][k]) \subseteq Pages
    BY <1>2, <1>4
  <2>2. pm.next \in [Pages -> Pages] /\ pm.order \in [Pages -> Orders] /\ pm.allocated \in [Pages -> BOOLEAN]
    BY <1>2, TypeFacts
  <2>3. live \subseteq [page : Pages, npages : Sizes]
    BY <1>0 DEF Books
  <2>4. pfndb \subseteq Pages
    BY StateType
  <2>. QED
    BY <1>0, <2>1, <2>2, <2>3, <2>4 DEF TypeOK
<1>6. EveryPageOnce
  <2>. SUFFICES ASSUME phase \in {"up", "panicked"}
                PROVE  /\ UNION {Block(b[1], b[3]) : b \in AllBlocks} = Managed
                       /\ \A b, c \in AllBlocks : b # c => Block(b[1], b[3]) \cap Block(c[1], c[3]) = {}
                       /\ \A z \in Zones, k \in Orders : IsInjective(pm.lists[z][k])
                       /\ \A b, c \in live : b # c => b.page # c.page
    BY DEF EveryPageOnce
  <2>1. Have = Managed
    BY <1>0, ManagedIs DEF Have, Up
  <2>2. /\ UNION {Block(b[1], b[3]) : b \in AllBlocks} = Have
        /\ \A b, c \in AllBlocks : b # c => Block(b[1], b[3]) \cap Block(c[1], c[3]) = {}
    BY <1>2, <1>3, CoverHolds
  <2>3. \A b, c \in live : b # c => b.page # c.page
    BY <1>0 DEF Books
  <2>. QED
    BY <1>4, <2>1, <2>2, <2>3
<1>7. MetadataTrue
  <2>1. ASSUME NEW x \in FreeBlocks(pm)
        PROVE  ~pm.allocated[x[1]] /\ pm.order[x[1]] = x[3] /\ Aligned(x[1], x[3])
    <3>1. PICK z \in Zones, k \in Orders : \E pg \in Range(pm.lists[z][k]) : x = <<pg, z, k>>
      BY FreeBlockFacts
    <3>5. PICK pg \in Range(pm.lists[z][k]) : x = <<pg, z, k>>
      BY <3>1
    <3>2. pg \in H /\ pg \notin Taken(pm) /\ pm.order[pg] = k
      BY <1>4
    <3>3. ~pm.allocated[pg]
      BY <1>2, <3>2 DEF Taken
    <3>4. Aligned(pg, pm.order[pg])
      BY <1>2, <3>2 DEF Tiles
    <3>. QED
      BY <3>5, <3>2, <3>3, <3>4
  <2>2. ASSUME NEW b \in live PROVE pm.allocated[b.page] /\ pm.order[b.page] = NextOrder(b.npages)
    <3>1. b.page \in Taken(pm) /\ pm.order[b.page] = NextOrder(b.npages)
      BY <1>0 DEF Books
    <3>. QED
      BY <3>1 DEF Taken
  <2>. QED
    BY <2>1, <2>2 DEF MetadataTrue
<1>. QED
  BY <1>5, <1>6, <1>7 DEF MemoryAccounted

\* No page is lost or in two blocks, and struct page tells the truth about
\* every block, whatever the memory map and through every split, merge, boot
\* allocation, free and reclaim; only an alloc() or free() that meets
\* reclaim_bootloader_memory(), which takes no lock, is excepted.
THEOREM MemoryAccountedInvariant ==
  ASSUME PmmAssumption
  PROVE  Spec => []MemoryAccounted
<1>. DEFINE I == Inv \/ phase = "raced"
<1>1. Init => I
  BY InvInit
<1>2. I /\ [Next]_vars => I'
  BY InvNext, RacedStays
<1>3. I => MemoryAccounted
  BY InvImplies DEF MemoryAccounted
<1>. QED
  BY <1>1, <1>2, <1>3, PTL DEF Spec
=============================================================================
