-------------------------- MODULE FileSystemProofs --------------------------
(***************************************************************************)
(* What is proved of the file system for every set of names, every width   *)
(* of size_t, every process and every bound:                               *)
(*   ContentsSoundInvariant  holes read as zero, reads stay in the buffer  *)
(*   DescriptorsKeptHolds    a descriptor keeps its file                   *)
(*   TreeSoundInvariant      the tree and its link counts                  *)
(*                                                                         *)
(* The first two rest on FilesInv, which types every file and descriptor   *)
(* and says of each inode that its memory behind the end is zero.  The     *)
(* third rests on Space, which says of every dentry which tree it is in,   *)
(* and of every mount that it covers a path of an earlier one: with it a   *)
(* walk of resolve() and reduce() stays on paths that exist, frame by      *)
(* frame, and a name that does not resolve in a directory that does is not *)
(* in it (Vacancy, two walks side by side).                                *)
(***************************************************************************)
EXTENDS FileSystem, FiniteSetTheorems, SequenceTheorems, WellFoundedInduction, TLAPS

-----------------------------------------------------------------------------
(* Numbers, and what a loop computes.                                      *)

\* A set of natural numbers has a least element.
LEMMA LeastNatural ==
  ASSUME NEW T, T \subseteq Nat, T # {}
  PROVE  \E x \in T : \A y \in T : x <= y
<1>. DEFINE R == OpToRel(<, Nat)
<1>1. IsWellFoundedOn(R, Nat)
  BY NatLessThanWellFounded
<1>2. \E x \in T : \A y \in T : ~ (<<y, x>> \in R)
  <2>. HIDE DEF R
  <2>. QED BY <1>1, WFMin
<1>3. \A x, y \in Nat : y < x => <<y, x>> \in R
  BY DEF OpToRel
<1>. HIDE DEF R
<1>4. PICK x \in T : \A y \in T : ~ (<<y, x>> \in R)
  BY <1>2
<1>5. ASSUME NEW y \in T PROVE x <= y
  <2>1. x \in Nat /\ y \in Nat /\ ~ (y < x)
    BY <1>3, <1>4
  <2>. QED
    BY <2>1
<1>. QED
  BY <1>4, <1>5

\* What holds at first and is kept by every step holds all along.
LEMMA Inductive ==
  ASSUME NEW n \in Nat, NEW S, S \subseteq 0..n, 0 \in S, \A i \in 1..n : i - 1 \in S => i \in S
  PROVE  S = 0..n
<1>. DEFINE T == 0..n \ S
<1>. SUFFICES ASSUME T # {}
              PROVE  FALSE
  OBVIOUS
<1>1. T \subseteq Nat
  OBVIOUS
<1>2. PICK k \in T : \A y \in T : k <= y
  BY <1>1, LeastNatural
<1>3. k \in 1..n /\ k - 1 \in 0..n /\ ~(k <= k - 1)
  OBVIOUS
<1>4. k - 1 \in S
  <2>1. k - 1 \notin T
    <3>. HIDE DEF T
    <3>. QED BY <1>2, <1>3
  <2>. QED
    BY <2>1, <1>3
<1>. QED
  BY <1>3, <1>4

\* Remainders.
LEMMA ModUnique ==
  ASSUME NEW x \in Int, NEW W \in Nat \ {0}, NEW q \in Int, NEW r \in 0..(W - 1), x = W * q + r
  PROVE  x % W = r
<1>. DEFINE d == x \div W
            m == x % W
<1>1. d \in Int /\ m \in 0..(W - 1) /\ x = W * d + m
  OBVIOUS
<1>. HIDE DEF d, m
<1>2. \A y, z \in Int : y < z => W * y + W <= W * z
  <2>. SUFFICES ASSUME NEW y \in Int, NEW z \in Int, y < z
                PROVE  W * y + W <= W * z
    OBVIOUS
  <2>1. z - y - 1 \in Nat /\ z = y + 1 + (z - y - 1)
    OBVIOUS
  <2>2. PICK k \in Nat : z = y + 1 + k
    BY <2>1
  <2>3. W * z = W * y + W + W * k /\ W * k >= 0 /\ W * y \in Int /\ W * z \in Int /\ W * k \in Int
    BY <2>2
  <2>. QED
    BY <2>3
<1>3. W * d \in Int /\ W * q \in Int
  BY <1>1
<1>4. ~(d < q) /\ ~(q < d)
  BY <1>1, <1>2, <1>3
<1>5. d = q
  BY <1>1, <1>4
<1>6. m = r
  BY <1>1, <1>3, <1>5
<1>. QED
  BY <1>6 DEF m

LEMMA ModFacts ==
  ASSUME NEW W \in Nat \ {0}
  PROVE  /\ \A x \in Int : x % W \in 0..(W - 1)
         /\ \A x \in 0..(W - 1) : x % W = x
         /\ \A x \in Int : x >= W /\ x < W + W => x % W = x - W
         /\ \A x \in Int : x < 0 /\ x >= -W => x % W = x + W
<1>1. \A x \in Int : x % W \in 0..(W - 1)
  OBVIOUS
<1>2. ASSUME NEW x \in 0..(W - 1)
      PROVE  x % W = x
  <2>1. x = W * 0 + x /\ x \in Int /\ 0 \in Int
    OBVIOUS
  <2>. QED
    BY <2>1, ModUnique
<1>3. ASSUME NEW x \in Int, x >= W, x < W + W
      PROVE  x % W = x - W
  <2>1. x - W \in 0..(W - 1) /\ x = W * 1 + (x - W) /\ 1 \in Int
    BY <1>3
  <2>. QED
    BY <2>1, ModUnique
<1>4. ASSUME NEW x \in Int, x < 0, x >= -W
      PROVE  x % W = x + W
  <2>1. x + W \in 0..(W - 1) /\ x = W * (-1) + (x + W) /\ -1 \in Int
    BY <1>4
  <2>. QED
    BY <2>1, ModUnique
<1>. QED
  BY <1>1, <1>2, <1>3, <1>4

\* The loop of readv(), buffer by buffer.
LEMMA ReadLoopSteps ==
  ASSUME NEW node, NEW offset, NEW counts \in Seq(Int)
  PROVE  \E g : /\ DOMAIN g = 0..Len(counts) /\ g[0] = [offset |-> offset, done |-> FALSE, fault |-> "no"]
                /\ \A i \in 1..Len(counts) : g[i] = Open!ReadNext(node, g[i - 1], counts[i])
                /\ Open!ReadLoop(node, offset, counts) = g[Len(counts)]
<1>. DEFINE n == Len(counts)
            a == [offset |-> offset, done |-> FALSE, fault |-> "no"]
            S == {k \in 0..n : \E g : /\ DOMAIN g = 0..k /\ g[0] = a
                                      /\ \A i \in 1..k : g[i] = Open!ReadNext(node, g[i - 1], counts[i])}
<1>1. 0 \in S
  <2>. DEFINE g == [i \in 0..0 |-> a]
  <2>1. DOMAIN g = 0..0 /\ g[0] = a /\ \A i \in 1..0 : g[i] = Open!ReadNext(node, g[i - 1], counts[i])
    <3>. HIDE DEF a
    <3>. QED OBVIOUS
  <2>. HIDE DEF g, a
  <2>. QED
    BY <2>1
<1>2. ASSUME NEW k \in 1..n, k - 1 \in S
      PROVE  k \in S
  <2>. HIDE DEF a
  <2>1. PICK h : /\ DOMAIN h = 0..(k - 1) /\ h[0] = a
                 /\ \A i \in 1..(k - 1) : h[i] = Open!ReadNext(node, h[i - 1], counts[i])
    BY <1>2
  <2>. DEFINE x == Open!ReadNext(node, h[k - 1], counts[k])
              g == [i \in 0..k |-> IF i = k THEN x ELSE h[i]]
  <2>. HIDE DEF x
  <2>2. (\A i \in 0..(k - 1) : g[i] = h[i]) /\ g[k] = x /\ DOMAIN g = 0..k
    OBVIOUS
  <2>. HIDE DEF g
  <2>3. ASSUME NEW i \in 1..k
        PROVE  g[i] = Open!ReadNext(node, g[i - 1], counts[i])
    <3>1. g[i - 1] = h[i - 1]
      BY <2>2
    <3>2. CASE i = k
      BY <3>1, <3>2, <2>2 DEF x
    <3>3. CASE i # k
      <4>1. i \in 1..(k - 1) /\ i \in 0..(k - 1)
        BY <3>3
      <4>. QED
        BY <3>1, <4>1, <2>1, <2>2
    <3>. QED
      BY <3>2, <3>3
  <2>4. g[0] = a
    BY <2>1, <2>2
  <2>5. k \in 0..n
    OBVIOUS
  <2>6. \E y : /\ DOMAIN y = 0..k /\ y[0] = a
               /\ \A i \in 1..k : y[i] = Open!ReadNext(node, y[i - 1], counts[i])
    BY <2>2, <2>3, <2>4
  <2>. QED
    BY <2>5, <2>6
<1>3. n \in S
  <2>1. S \subseteq 0..n /\ n \in Nat
    OBVIOUS
  <2>. HIDE DEF S, n
  <2>2. S = 0..n
    BY <1>1, <1>2, <2>1, Inductive
  <2>. QED
    BY <2>1, <2>2
<1>. DEFINE f == CHOOSE g : g = [i \in 0..n |-> IF i = 0 THEN a ELSE Open!ReadNext(node, g[i - 1], counts[i])]
<1>4. f = [i \in 0..n |-> IF i = 0 THEN a ELSE Open!ReadNext(node, f[i - 1], counts[i])]
  <2>. HIDE DEF a
  <2>1. PICK h : /\ DOMAIN h = 0..n /\ h[0] = a
                 /\ \A i \in 1..n : h[i] = Open!ReadNext(node, h[i - 1], counts[i])
    BY <1>3
  <2>. HIDE DEF n
  <2>. DEFINE e == [i \in 0..n |-> h[i]]
  <2>2. \A i \in 0..n : e[i] = h[i]
    OBVIOUS
  <2>3. \A i \in 1..n : i \in 0..n /\ i - 1 \in 0..n
    BY <1>3
  <2>4. e = [i \in 0..n |-> IF i = 0 THEN a ELSE Open!ReadNext(node, e[i - 1], counts[i])]
    <3>1. \A i \in 0..n : h[i] = IF i = 0 THEN a ELSE Open!ReadNext(node, e[i - 1], counts[i])
      <4>. HIDE DEF e
      <4>1. \A i \in 0..n : i # 0 => i \in 1..n
        BY <1>3
      <4>. QED
        BY <2>1, <2>2, <2>3, <4>1
    <3>. QED
      BY <3>1
  <2>. HIDE DEF e
  <2>. QED
    BY <2>4
<1>5. Open!ReadLoop(node, offset, counts) = f[n]
  BY DEF Open!ReadLoop
<1>. HIDE DEF f
<1>6. DOMAIN f = 0..n /\ f[0] = a /\ \A i \in 1..n : f[i] = Open!ReadNext(node, f[i - 1], counts[i])
  <2>1. n \in Nat
    OBVIOUS
  <2>. HIDE DEF n, a
  <2>2. DOMAIN f = 0..n
    BY <1>4, Zenon
  <2>3. \A i \in 0..n : f[i] = IF i = 0 THEN a ELSE Open!ReadNext(node, f[i - 1], counts[i])
    BY <1>4, Zenon
  <2>4. 0 \in 0..n /\ \A i \in 1..n : i \in 0..n /\ i # 0
    BY <2>1
  <2>. QED
    BY <2>2, <2>3, <2>4
<1>. QED
  BY <1>5, <1>6

\* The loop of writev(), buffer by buffer.
LEMMA WriteLoopSteps ==
  ASSUME NEW node, NEW offset, NEW counts \in Seq(Int)
  PROVE  \E g : /\ DOMAIN g = 0..Len(counts) /\ g[0] = [node |-> node, offset |-> offset]
                /\ \A i \in 1..Len(counts) : g[i] = Open!WriteNext(g[i - 1], counts[i])
                /\ Open!WriteLoop(node, offset, counts) = g[Len(counts)]
<1>. DEFINE n == Len(counts)
            a == [node |-> node, offset |-> offset]
            S == {k \in 0..n : \E g : /\ DOMAIN g = 0..k /\ g[0] = a
                                      /\ \A i \in 1..k : g[i] = Open!WriteNext(g[i - 1], counts[i])}
<1>1. 0 \in S
  <2>. DEFINE g == [i \in 0..0 |-> a]
  <2>1. DOMAIN g = 0..0 /\ g[0] = a /\ \A i \in 1..0 : g[i] = Open!WriteNext(g[i - 1], counts[i])
    <3>. HIDE DEF a
    <3>. QED OBVIOUS
  <2>. HIDE DEF g, a
  <2>. QED
    BY <2>1
<1>2. ASSUME NEW k \in 1..n, k - 1 \in S
      PROVE  k \in S
  <2>. HIDE DEF a
  <2>1. PICK h : /\ DOMAIN h = 0..(k - 1) /\ h[0] = a
                 /\ \A i \in 1..(k - 1) : h[i] = Open!WriteNext(h[i - 1], counts[i])
    BY <1>2
  <2>. DEFINE x == Open!WriteNext(h[k - 1], counts[k])
              g == [i \in 0..k |-> IF i = k THEN x ELSE h[i]]
  <2>. HIDE DEF x
  <2>2. (\A i \in 0..(k - 1) : g[i] = h[i]) /\ g[k] = x /\ DOMAIN g = 0..k
    OBVIOUS
  <2>. HIDE DEF g
  <2>3. ASSUME NEW i \in 1..k
        PROVE  g[i] = Open!WriteNext(g[i - 1], counts[i])
    <3>1. g[i - 1] = h[i - 1]
      BY <2>2
    <3>2. CASE i = k
      BY <3>1, <3>2, <2>2 DEF x
    <3>3. CASE i # k
      <4>1. i \in 1..(k - 1) /\ i \in 0..(k - 1)
        BY <3>3
      <4>. QED
        BY <3>1, <4>1, <2>1, <2>2
    <3>. QED
      BY <3>2, <3>3
  <2>4. g[0] = a
    BY <2>1, <2>2
  <2>5. k \in 0..n
    OBVIOUS
  <2>6. \E y : /\ DOMAIN y = 0..k /\ y[0] = a
               /\ \A i \in 1..k : y[i] = Open!WriteNext(y[i - 1], counts[i])
    BY <2>2, <2>3, <2>4
  <2>. QED
    BY <2>5, <2>6
<1>3. n \in S
  <2>1. S \subseteq 0..n /\ n \in Nat
    OBVIOUS
  <2>. HIDE DEF S, n
  <2>2. S = 0..n
    BY <1>1, <1>2, <2>1, Inductive
  <2>. QED
    BY <2>1, <2>2
<1>. DEFINE f == CHOOSE g : g = [i \in 0..n |-> IF i = 0 THEN a ELSE Open!WriteNext(g[i - 1], counts[i])]
<1>4. f = [i \in 0..n |-> IF i = 0 THEN a ELSE Open!WriteNext(f[i - 1], counts[i])]
  <2>. HIDE DEF a
  <2>1. PICK h : /\ DOMAIN h = 0..n /\ h[0] = a
                 /\ \A i \in 1..n : h[i] = Open!WriteNext(h[i - 1], counts[i])
    BY <1>3
  <2>. HIDE DEF n
  <2>. DEFINE e == [i \in 0..n |-> h[i]]
  <2>2. \A i \in 0..n : e[i] = h[i]
    OBVIOUS
  <2>3. \A i \in 1..n : i \in 0..n /\ i - 1 \in 0..n
    BY <1>3
  <2>4. e = [i \in 0..n |-> IF i = 0 THEN a ELSE Open!WriteNext(e[i - 1], counts[i])]
    <3>1. \A i \in 0..n : h[i] = IF i = 0 THEN a ELSE Open!WriteNext(e[i - 1], counts[i])
      <4>. HIDE DEF e
      <4>1. \A i \in 0..n : i # 0 => i \in 1..n
        BY <1>3
      <4>. QED
        BY <2>1, <2>2, <2>3, <4>1
    <3>. QED
      BY <3>1
  <2>. HIDE DEF e
  <2>. QED
    BY <2>4
<1>5. Open!WriteLoop(node, offset, counts) = f[n]
  BY DEF Open!WriteLoop
<1>. HIDE DEF f
<1>6. DOMAIN f = 0..n /\ f[0] = a /\ \A i \in 1..n : f[i] = Open!WriteNext(f[i - 1], counts[i])
  <2>1. n \in Nat
    OBVIOUS
  <2>. HIDE DEF n, a
  <2>2. DOMAIN f = 0..n
    BY <1>4, Zenon
  <2>3. \A i \in 0..n : f[i] = IF i = 0 THEN a ELSE Open!WriteNext(f[i - 1], counts[i])
    BY <1>4, Zenon
  <2>4. 0 \in 0..n /\ \A i \in 1..n : i \in 0..n /\ i # 0
    BY <2>1
  <2>. QED
    BY <2>2, <2>3, <2>4
<1>. QED
  BY <1>5, <1>6

-----------------------------------------------------------------------------
(* The contents of a file.                                                 *)

Sizes == 0..(Width - 1)
NodeKinds == {"chr", "dir", "lnk", "none"}
NodeType == [type : NodeKinds, size : Sizes, mem : [Sizes -> {0, 1}]]
ZeroBehind(node) == \A pos \in 0..Open!OffMax : pos >= node.size => node.mem[pos] = 0
GoodNode(node) == node \in NodeType /\ ZeroBehind(node)

\* The assumptions on the constants, as the proofs use them.
LEMMA FilesFacts ==
  /\ Width \in Nat \ {0} /\ Width > 1
  /\ Open!OffMax \in Nat /\ Open!OffMax + Open!OffMax + 2 <= Width
  /\ \A p \in Processes : /\ p.flags \subseteq Open!OpenFlags
                          /\ p.counts \subseteq Seq(0..Open!OffMax) \ {<<>>}
                          /\ p.offsets \subseteq Int /\ p.switches \subseteq BOOLEAN
                          /\ p.max_fd \in Nat /\ p.max_fd >= 2
<1>1. /\ Width \in Nat \ {0} /\ Width > 1
      /\ \A p \in Processes : /\ p.flags \subseteq Open!OpenFlags
                              /\ p.counts \subseteq Seq(0..Open!OffMax) \ {<<>>}
                              /\ p.offsets \subseteq Int /\ p.switches \subseteq BOOLEAN
                          /\ p.max_fd \in Nat /\ p.max_fd >= 2
  BY FileSystemAssumption DEF Open!FilesAssumption
<1>2. Open!OffMax \in Nat /\ Open!OffMax + Open!OffMax + 2 <= Width
  BY <1>1 DEF Open!OffMax
<1>. QED
  BY <1>1, <1>2

\* memcpy and memset into the pages of a file.
LEMMA StoredFacts ==
  ASSUME NEW mem \in [Sizes -> {0, 1}], NEW offset \in Sizes, NEW length \in Nat, NEW byte \in {0, 1}
  PROVE  /\ Open!Stored(mem, offset, length, byte) \in [Sizes -> {0, 1}]
         /\ \A i \in Sizes : i >= offset /\ i < offset + length => Open!Stored(mem, offset, length, byte)[i] = byte
         /\ \A i \in Sizes : i >= offset + length \/ (i < offset /\ i + Width >= offset + length)
              => Open!Stored(mem, offset, length, byte)[i] = mem[i]
<1>. DEFINE new == Open!Stored(mem, offset, length, byte)
<1>1. new = [i \in Sizes |-> IF (i - offset) % Width < length THEN byte ELSE mem[i]]
  BY DEF Open!Stored
<1>. HIDE DEF new
<1>2. new \in [Sizes -> {0, 1}]
  BY <1>1
<1>3. ASSUME NEW i \in Sizes
      PROVE  /\ i >= offset => (i - offset) % Width = i - offset
             /\ i < offset => (i - offset) % Width = i - offset + Width
  <2>1. Width \in Nat \ {0}
    BY FilesFacts
  <2>2. CASE i >= offset
    <3>. DEFINE x == i - offset
    <3>1. x \in 0..(Width - 1)
      BY <2>1, <2>2 DEF Sizes
    <3>. HIDE DEF x
    <3>2. x % Width = x
      BY <3>1, <2>1, ModFacts
    <3>. QED
      BY <3>2, <2>2, <2>1 DEF x, Sizes
  <2>3. CASE i < offset
    <3>. DEFINE x == i - offset
    <3>1. x \in Int /\ x < 0 /\ x >= -Width
      BY <2>1, <2>3 DEF Sizes
    <3>. HIDE DEF x
    <3>2. x % Width = x + Width
      BY <3>1, <2>1, ModFacts
    <3>. QED
      BY <3>2, <2>3, <2>1 DEF x, Sizes
  <2>. QED
    BY <2>2, <2>3 DEF Sizes
<1>4. ASSUME NEW i \in Sizes, i >= offset, i < offset + length
      PROVE  new[i] = byte
  <2>1. (i - offset) % Width < length
    BY <1>3, <1>4 DEF Sizes
  <2>. QED
    BY <1>1, <2>1
<1>5. ASSUME NEW i \in Sizes, i >= offset + length \/ (i < offset /\ i + Width >= offset + length)
      PROVE  new[i] = mem[i]
  <2>1. ~((i - offset) % Width < length)
    <3>1. Width \in Nat
      BY FilesFacts
    <3>2. CASE i >= offset
      BY <1>3, <1>5, <3>1, <3>2 DEF Sizes
    <3>3. CASE i < offset
      BY <1>3, <1>5, <3>1, <3>3 DEF Sizes
    <3>. QED
      BY <3>2, <3>3 DEF Sizes
  <2>. QED
    BY <1>1, <2>1
<1>. QED
  BY <1>2, <1>4, <1>5 DEF new

\* A file that is cut keeps nothing behind its end.
LEMMA TruncatedGood ==
  ASSUME NEW node, GoodNode(node), NEW size \in Sizes
  PROVE  GoodNode(Open!Truncated(node, size))
<1>. DEFINE new == Open!Truncated(node, size)
<1>1. node.size \in Sizes /\ node.mem \in [Sizes -> {0, 1}] /\ node.type \in NodeKinds
  BY DEF GoodNode, NodeType
<1>2. Width \in Nat /\ 0 \in {0, 1} /\ 0..Open!OffMax \subseteq Sizes
  BY FilesFacts DEF Sizes
<1>3. CASE size < node.size
  <2>. DEFINE m == Open!Stored(node.mem, size, node.size - size, 0)
  <2>1. node.size - size \in Nat /\ size + (node.size - size) = node.size
    BY <1>1, <1>3 DEF Sizes
  <2>2. m \in [Sizes -> {0, 1}] /\ \A i \in Sizes : /\ i >= size /\ i < node.size => m[i] = 0
                                                    /\ i >= node.size => m[i] = node.mem[i]
    BY <1>1, <1>2, <2>1, StoredFacts
  <2>3. new = [node EXCEPT !.mem = m, !.size = size]
    BY <1>3 DEF Open!Truncated
  <2>. HIDE DEF m, new
  <2>4. new \in NodeType /\ new.size = size /\ new.mem = m
    BY <2>2, <2>3 DEF GoodNode, NodeType
  <2>5. ASSUME NEW pos \in 0..Open!OffMax, pos >= size
        PROVE  m[pos] = 0
    <3>1. pos \in Sizes /\ pos \in Int /\ node.size \in Int
      BY <1>1, <1>2 DEF Sizes
    <3>2. pos >= node.size => node.mem[pos] = 0
      BY DEF GoodNode, ZeroBehind
    <3>. QED
      BY <3>1, <3>2, <2>2, <2>5
  <2>. QED
    BY <2>4, <2>5 DEF GoodNode, ZeroBehind, new
<1>4. CASE ~(size < node.size)
  <2>. DEFINE m == Open!Stored(node.mem, node.size, size - node.size, 0)
  <2>1. size - node.size \in Nat /\ node.size + (size - node.size) = size
    BY <1>1, <1>4 DEF Sizes
  <2>2. m \in [Sizes -> {0, 1}] /\ \A i \in Sizes : i >= size => m[i] = node.mem[i]
    BY <1>1, <1>2, <2>1, StoredFacts
  <2>3. new = [node EXCEPT !.mem = m, !.size = size]
    BY <1>4 DEF Open!Truncated
  <2>. HIDE DEF m, new
  <2>4. new \in NodeType /\ new.size = size /\ new.mem = m
    BY <2>2, <2>3 DEF GoodNode, NodeType
  <2>5. ASSUME NEW pos \in 0..Open!OffMax, pos >= size
        PROVE  m[pos] = 0
    <3>1. pos \in Sizes /\ pos >= node.size
      BY <1>1, <1>2, <1>4, <2>5 DEF Sizes
    <3>2. node.mem[pos] = 0
      BY <3>1 DEF GoodNode, ZeroBehind
    <3>. QED
      BY <3>1, <3>2, <2>2, <2>5
  <2>. QED
    BY <2>4, <2>5 DEF GoodNode, ZeroBehind, new
<1>. QED
  BY <1>3, <1>4

\* A write leaves no byte behind the end where an offset can point, although the
\* end itself may wrap.
LEMMA WrittenGood ==
  ASSUME NEW node, GoodNode(node), NEW offset \in Sizes, NEW count \in 0..Open!OffMax
  PROVE  GoodNode(Open!Written(node, offset, count))
<1>. DEFINE new == Open!Written(node, offset, count)
            m == Open!Stored(node.mem, offset, count, 1)
            end == (offset + count) % Width
<1>1. node.size \in Sizes /\ node.mem \in [Sizes -> {0, 1}] /\ node.type \in NodeKinds
  BY DEF GoodNode, NodeType
<1>2. Width \in Nat \ {0} /\ 1 \in {0, 1} /\ 0..Open!OffMax \subseteq Sizes /\ count \in Nat
  BY FilesFacts DEF Sizes
<1>3. /\ m \in [Sizes -> {0, 1}]
      /\ \A i \in Sizes : i >= offset + count \/ (i < offset /\ i + Width >= offset + count)
              => m[i] = node.mem[i]
  BY <1>1, <1>2, StoredFacts
<1>4. /\ end \in Sizes
      /\ offset + count < Width => end = offset + count
      /\ offset + count >= Width => end = offset + count - Width
  <2>. DEFINE x == offset + count
  <2>1. x \in Int /\ x >= 0 /\ x < Width + Width
    BY <1>2, FilesFacts DEF Sizes
  <2>. HIDE DEF x
  <2>2. x % Width \in 0..(Width - 1)
    BY <2>1, <1>2, ModFacts
  <2>3. x < Width => x % Width = x
    <3>1. x < Width => x \in 0..(Width - 1)
      BY <2>1, <1>2
    <3>. QED
      BY <3>1, <1>2, ModFacts
  <2>4. x >= Width => x % Width = x - Width
    BY <2>1, <1>2, ModFacts
  <2>5. PICK y : y = end
    OBVIOUS
  <2>6. y = x % Width
    BY <2>5 DEF x
  <2>7. /\ y \in Sizes
        /\ x < Width => y = x
        /\ x >= Width => y = x - Width
    BY <2>2, <2>3, <2>4, <2>6 DEF Sizes
  <2>8. /\ offset + count < Width => y = offset + count
        /\ offset + count >= Width => y = offset + count - Width
    BY <2>7, <1>2 DEF x, Sizes
  <2>. HIDE DEF end
  <2>. QED
    BY <2>5, <2>7, <2>8
<1>5. new = [node EXCEPT !.mem = m, !.size = IF end >= node.size THEN end ELSE node.size]
  BY DEF Open!Written
<1>. HIDE DEF m, end, new
<1>6. new \in NodeType /\ new.mem = m /\ new.size >= end /\ new.size >= node.size
  <2>. DEFINE sz == IF end >= node.size THEN end ELSE node.size
  <2>1. sz \in Sizes /\ sz >= end /\ sz >= node.size
    BY <1>1, <1>4 DEF Sizes
  <2>2. new = [node EXCEPT !.mem = m, !.size = sz]
    BY <1>5
  <2>. HIDE DEF sz
  <2>3. new \in NodeType /\ new.mem = m /\ new.size = sz
    BY <1>3, <2>1, <2>2 DEF GoodNode, NodeType
  <2>. QED
    BY <2>1, <2>3
<1>7. ASSUME NEW pos \in 0..Open!OffMax, pos >= new.size
      PROVE  m[pos] = 0
  <2>1. pos \in Sizes /\ pos >= end /\ pos >= node.size
    BY <1>1, <1>2, <1>4, <1>6, <1>7 DEF Sizes, NodeType
  <2>2. node.mem[pos] = 0
    BY <2>1 DEF GoodNode, ZeroBehind
  <2>3. CASE offset + count < Width
    BY <2>1, <2>2, <2>3, <1>3, <1>4
  <2>4. CASE offset + count >= Width
    <3>1. pos < offset
      BY <2>4, <1>2, FilesFacts DEF Sizes
    <3>2. pos + Width >= offset + count
      BY <2>1, <2>4, <1>2, <1>4 DEF Sizes
    <3>. QED
      BY <3>1, <3>2, <2>1, <2>2, <1>3
  <2>. QED
    BY <2>3, <2>4, <1>2 DEF Sizes
<1>. QED
  BY <1>6, <1>7 DEF GoodNode, ZeroBehind, new

\* A read that starts inside the file gets no more than its buffer holds.
LEMMA RealSizeFits ==
  ASSUME NEW node \in NodeType, NEW offset \in Sizes, NEW count \in 0..Open!OffMax, offset <= node.size
  PROVE  Open!RealSize(node, offset, count) <= count
<1>. DEFINE x == offset + count
            s == node.size
            y == count - (x - s)
<1>1. Width \in Nat \ {0} /\ s \in Sizes /\ count \in Nat /\ x \in Nat
  BY FilesFacts DEF NodeType, Sizes
<1>2. x % Width <= x
  <2>1. x < Width + Width /\ x \in Int /\ x >= 0
    BY <1>1, FilesFacts DEF Sizes
  <2>. HIDE DEF x
  <2>2. CASE x < Width
    <3>1. x \in 0..(Width - 1)
      BY <2>1, <2>2, <1>1
    <3>2. x % Width = x
      BY <3>1, <1>1, ModFacts
    <3>. QED
      BY <3>2, <2>1
  <2>3. CASE x >= Width
    <3>1. x % Width = x - Width
      BY <2>1, <2>3, <1>1, ModFacts
    <3>. QED
      BY <3>1, <1>1
  <2>. QED
    BY <2>2, <2>3, <1>1
<1>3. y = s - offset /\ s - offset \in 0..(Width - 1)
  BY <1>1 DEF Sizes
<1>4. y % Width = s - offset
  <2>. HIDE DEF y
  <2>. QED
    BY <1>1, <1>3, ModFacts
<1>5. Open!RealSize(node, offset, count) = IF x % Width >= s THEN y % Width ELSE count
  BY DEF Open!RealSize
<1>. DEFINE z == x % Width
<1>6. z \in Int
  BY <1>1, ModFacts
<1>. HIDE DEF y, z
<1>7. CASE z >= s
  <2>1. s - offset <= count
    BY <1>1, <1>2, <1>6, <1>7 DEF x, z, Sizes
  <2>. QED
    BY <2>1, <1>4, <1>5, <1>7 DEF z
<1>8. CASE ~(z >= s)
  BY <1>5, <1>8, <1>1 DEF z
<1>. QED
  BY <1>7, <1>8

\* read() and readv(): the loop never leaves a buffer from inside the file.
ReadStates == [offset : Sizes, done : BOOLEAN, fault : {"no", "read behind the end"}]

\* One buffer of readv().
LEMMA ReadNextStays ==
  ASSUME NEW node \in NodeType, NEW s \in ReadStates, NEW count \in 0..Open!OffMax
  PROVE  Open!ReadNext(node, s, count) \in ReadStates
<1>. DEFINE n == Open!RealSize(node, s.offset, count)
<1>1. s.offset \in Sizes /\ node.size \in Sizes /\ Width \in Nat \ {0}
  BY FilesFacts DEF ReadStates, NodeType
<1>2. n \in Int
  <2>1. count \in Int /\ s.offset \in Int /\ node.size \in Int
    BY <1>1 DEF Sizes
  <2>2. PICK y : y = count - ((s.offset + count) - node.size)
    OBVIOUS
  <2>3. y \in Int
    BY <2>1, <2>2
  <2>4. y % Width \in Int
    BY <1>1, <2>3, ModFacts
  <2>. QED
    BY <2>1, <2>2, <2>4 DEF Open!RealSize
<1>3. ~(s.offset > node.size) => ~(n > count)
  <2>. SUFFICES ASSUME ~(s.offset > node.size)
                PROVE  n <= count
    BY <1>2
  <2>1. s.offset <= node.size
    BY <1>1 DEF Sizes
  <2>. QED
    BY <1>1, <2>1, RealSizeFits
<1>4. Open!ReadNext(node, s, count) =
        IF s.done THEN s
        ELSE IF n > count
        THEN [s EXCEPT !.done = TRUE,
                       !.fault = IF s.offset > node.size THEN "read behind the end" ELSE "read overran"]
        ELSE [s EXCEPT !.done = (n = 0), !.offset = (s.offset + n) % Width]
  BY DEF Open!ReadNext
<1>. HIDE DEF n
<1>5. (s.offset + n) % Width \in Sizes
  <2>1. s.offset + n \in Int
    BY <1>1, <1>2 DEF Sizes
  <2>. QED
    BY <2>1, <1>1, ModFacts DEF Sizes
<1>6. CASE s.done
  BY <1>4, <1>6
<1>7. CASE ~s.done /\ n > count
  <2>1. s.offset > node.size
    BY <1>3, <1>7
  <2>2. Open!ReadNext(node, s, count) = [s EXCEPT !.done = TRUE, !.fault = "read behind the end"]
    BY <1>4, <1>7, <2>1
  <2>. QED
    BY <2>2 DEF ReadStates
<1>8. CASE ~s.done /\ ~(n > count)
  <2>1. Open!ReadNext(node, s, count) = [s EXCEPT !.done = (n = 0), !.offset = (s.offset + n) % Width]
    BY <1>4, <1>8
  <2>. QED
    BY <2>1, <1>5 DEF ReadStates
<1>. QED
  BY <1>6, <1>7, <1>8

\* The buffers of a vector.
LEMMA BufferLengths ==
  ASSUME NEW counts \in Seq(0..Open!OffMax)
  PROVE  counts \in Seq(Int) /\ \A i \in 1..Len(counts) : counts[i] \in 0..Open!OffMax
<1>. DEFINE C == 0..Open!OffMax
<1>2. C \subseteq Int
  OBVIOUS
<1>. HIDE DEF C
<1>1. \A i \in 1..Len(counts) : counts[i] \in C
  <2>1. counts \in Seq(C)
    BY DEF C
  <2>. QED
    BY <2>1
<1>3. counts \in Seq(Int)
  <2>1. counts \in Seq(C)
    BY DEF C
  <2>2. Len(counts) \in Nat /\ counts = [i \in 1..Len(counts) |-> counts[i]]
    BY <2>1
  <2>3. \A i \in 1..Len(counts) : counts[i] \in Int
    BY <1>1, <1>2
  <2>4. [i \in 1..Len(counts) |-> counts[i]] \in Seq(Int)
    BY <2>2, <2>3, IsASeq
  <2>. QED
    BY <2>2, <2>4
<1>. QED
  BY <1>1, <1>3 DEF C

\* readv() and writev(), buffer by buffer.
LEMMA ReadLoopStays ==
  ASSUME NEW node \in NodeType, NEW offset \in Sizes, NEW counts \in Seq(0..Open!OffMax)
  PROVE  Open!ReadLoop(node, offset, counts) \in ReadStates
<1>1. counts \in Seq(Int) /\ \A i \in 1..Len(counts) : counts[i] \in 0..Open!OffMax
  BY BufferLengths
<1>2. PICK g : /\ DOMAIN g = 0..Len(counts) /\ g[0] = [offset |-> offset, done |-> FALSE, fault |-> "no"]
               /\ \A i \in 1..Len(counts) : g[i] = Open!ReadNext(node, g[i - 1], counts[i])
               /\ Open!ReadLoop(node, offset, counts) = g[Len(counts)]
  BY <1>1, ReadLoopSteps
<1>. DEFINE n == Len(counts)
            S == {k \in 0..n : g[k] \in ReadStates}
<1>3. n \in Nat
  OBVIOUS
<1>. HIDE DEF n
<1>4. 0 \in S
  <2>1. g[0] \in ReadStates
    BY <1>2 DEF ReadStates
  <2>2. 0 \in 0..n
    BY <1>3
  <2>. QED
    BY <2>1, <2>2
<1>5. \A i \in 1..n : i - 1 \in S => i \in S
  <2>. SUFFICES ASSUME NEW i \in 1..n, g[i - 1] \in ReadStates
                PROVE  g[i] \in ReadStates
    BY <1>3
  <2>. QED
    BY <1>1, <1>2, ReadNextStays DEF n
<1>6. S = 0..n
  <2>1. S \subseteq 0..n
    OBVIOUS
  <2>. HIDE DEF S
  <2>. QED
    BY <1>3, <1>4, <1>5, <2>1, Inductive
<1>7. n \in S
  <2>. HIDE DEF S
  <2>. QED
    BY <1>3, <1>6
<1>. QED
  BY <1>2, <1>7 DEF n

LEMMA WriteLoopStays ==
  ASSUME NEW node, GoodNode(node), NEW offset \in Sizes, NEW counts \in Seq(0..Open!OffMax)
  PROVE  /\ GoodNode(Open!WriteLoop(node, offset, counts).node)
         /\ Open!WriteLoop(node, offset, counts).offset \in Sizes
<1>1. counts \in Seq(Int) /\ \A i \in 1..Len(counts) : counts[i] \in 0..Open!OffMax
  BY BufferLengths
<1>2. PICK g : /\ DOMAIN g = 0..Len(counts) /\ g[0] = [node |-> node, offset |-> offset]
               /\ \A i \in 1..Len(counts) : g[i] = Open!WriteNext(g[i - 1], counts[i])
               /\ Open!WriteLoop(node, offset, counts) = g[Len(counts)]
  BY <1>1, WriteLoopSteps
<1>. DEFINE n == Len(counts)
            S == {k \in 0..n : GoodNode(g[k].node) /\ g[k].offset \in Sizes}
<1>3. n \in Nat
  OBVIOUS
<1>. HIDE DEF n
<1>4. 0 \in S
  BY <1>2, <1>3
<1>5. \A i \in 1..n : i - 1 \in S => i \in S
  <2>. SUFFICES ASSUME NEW i \in 1..n, GoodNode(g[i - 1].node), g[i - 1].offset \in Sizes
                PROVE  GoodNode(g[i].node) /\ g[i].offset \in Sizes
    BY <1>3
  <2>1. counts[i] \in 0..Open!OffMax /\ g[i] = Open!WriteNext(g[i - 1], counts[i])
    BY <1>1, <1>2 DEF n
  <2>2. /\ g[i].node = Open!Written(g[i - 1].node, g[i - 1].offset, counts[i])
        /\ g[i].offset = (g[i - 1].offset + counts[i]) % Width
    BY <2>1 DEF Open!WriteNext
  <2>3. g[i - 1].offset + counts[i] \in Int /\ Width \in Nat \ {0}
    BY <2>1, FilesFacts DEF Sizes
  <2>4. g[i].offset \in Sizes
    <3>1. PICK x : x = g[i - 1].offset + counts[i]
      OBVIOUS
    <3>2. x % Width \in 0..(Width - 1)
      BY <3>1, <2>3, ModFacts
    <3>. QED
      BY <3>1, <3>2, <2>2 DEF Sizes
  <2>. QED
    BY <2>1, <2>2, <2>4, WrittenGood
<1>6. S = 0..n
  <2>1. S \subseteq 0..n
    OBVIOUS
  <2>. HIDE DEF S
  <2>. QED
    BY <1>3, <1>4, <1>5, <2>1, Inductive
<1>7. n \in S
  <2>. HIDE DEF S
  <2>. QED
    BY <1>3, <1>6
<1>. QED
  BY <1>2, <1>7 DEF n

-----------------------------------------------------------------------------
(* The descriptor table.                                                   *)

FileType(I) == [inode : I, offset : Sizes, acc : {"r", "w", "rw"}, status : SUBSET {"append"}]
DescType(F) == [file : F, closexec : BOOLEAN]

FilesInv ==
  /\ process \in Processes /\ next_fd \in Nat
  /\ DOMAIN names = {"f", "d", "l"}
  /\ \A n \in DOMAIN names : names[n] \in DOMAIN inodes \cup {0}
  /\ \A i \in DOMAIN inodes : GoodNode(inodes[i])
  /\ \A f \in DOMAIN files : files[f] \in FileType(DOMAIN inodes)
  /\ \A fd \in DOMAIN fds : fd \in 0..process.max_fd /\ fds[fd] \in DescType(DOMAIN files)
  /\ stopped \in {"no", "read behind the end"}

\* Among the numbers from next_fd on there is a free one, and the first is taken.
LEMMA ChosenFdFree ==
  ASSUME FilesInv, NEW fd \in DOMAIN fds
  PROVE  Open!ChosenFd(fd, FALSE) \in Nat \ DOMAIN fds
<1>. DEFINE D == DOMAIN fds
            c == Open!Cardinality(D)
            I == next_fd..(next_fd + c)
<1>1. D \subseteq 0..process.max_fd /\ process.max_fd \in Nat /\ next_fd \in Nat
  BY FilesFacts DEF FilesInv
<1>2. IsFiniteSet(D) /\ Cardinality(D) \in Nat
  <2>1. IsFiniteSet(0..process.max_fd)
    BY <1>1, FS_Interval
  <2>. QED
    BY <1>1, <2>1, FS_Subset, FS_CardinalityType
<1>3. c = Cardinality(D)
  BY DEF Open!Cardinality, Cardinality, Open!IsFiniteSet, IsFiniteSet
<1>. HIDE DEF c, D
<1>4. I \ D # {}
  <2>. SUFFICES ASSUME I \subseteq D
                PROVE  FALSE
    OBVIOUS
  <2>1. PICK b : b = next_fd + c
    OBVIOUS
  <2>4. b \in Int /\ next_fd \in Int /\ ~(next_fd > b)
    BY <1>1, <1>2, <1>3, <2>1
  <2>5. Cardinality(next_fd..b) = b - next_fd + 1
    BY <2>4, FS_Interval
  <2>2. Cardinality(I) = c + 1
    BY <2>1, <2>4, <2>5, <1>1, <1>2, <1>3
  <2>3. Cardinality(I) <= Cardinality(D)
    BY <1>2, FS_Subset
  <2>. QED
    BY <2>2, <2>3, <1>1, <1>2, <1>3
<1>5. PICK k \in I \ D : \A y \in I \ D : k <= y
  <2>1. I \ D \subseteq Nat
    BY <1>1, <1>2, <1>3
  <2>. HIDE DEF I
  <2>. QED
    BY <1>4, <2>1, LeastNatural
<1>6. \A j \in next_fd..(k - 1) : j \in D
  <2>. SUFFICES ASSUME NEW j \in next_fd..(k - 1), j \notin D
                PROVE  FALSE
    OBVIOUS
  <2>1. k \in next_fd..(next_fd + c) /\ j \in I /\ ~(k <= j)
    BY <1>1, <1>2, <1>3
  <2>. HIDE DEF I
  <2>. QED
    BY <2>1, <1>5
<1>7. Open!ChosenFd(fd, FALSE) = CHOOSE x \in I : x \notin D /\ \A j \in next_fd..(x - 1) : j \in D
  BY DEF Open!ChosenFd, D, c
<1>. DEFINE x == CHOOSE x \in I : x \notin D /\ \A j \in next_fd..(x - 1) : j \in D
<1>8. x \in I /\ x \notin D
  <2>. HIDE DEF I
  <2>. QED
    BY <1>5, <1>6
<1>9. I \subseteq Nat
  BY <1>1, <1>2, <1>3
<1>. HIDE DEF I, x
<1>10. Open!ChosenFd(fd, FALSE) \in Nat /\ Open!ChosenFd(fd, FALSE) \notin D
  BY <1>7, <1>8, <1>9 DEF x
<1>. QED
  BY <1>10 DEF D

\* A new descriptor: the table and the files stay well typed, and without force
\* no open descriptor is replaced.
LEMMA AllocateFdStep ==
  ASSUME FilesInv, NEW desc, NEW fd \in Nat, NEW force \in BOOLEAN, NEW open, NEW I,
         desc.file \in DOMAIN open, desc \in DescType(DOMAIN open),
         DOMAIN files \subseteq DOMAIN open, \A f \in DOMAIN open : open[f] \in FileType(I),
         Open!AllocateFd(desc, fd, force, open), process' = process
  PROVE  /\ next_fd' \in Nat
         /\ \A f \in DOMAIN files' : files'[f] \in FileType(I)
         /\ \A k \in DOMAIN fds' : k \in 0..process'.max_fd /\ fds'[k] \in DescType(DOMAIN files')
         /\ \A k \in DOMAIN fds : k \in DOMAIN fds' /\ (~force \/ k # fd => fds'[k] = fds[k])
<1>. DEFINE at == Open!ChosenFd(fd, force)
            table == Open!With(fds, at, desc)
<1>1. /\ at <= process.max_fd /\ fds' = table
      /\ next_fd' = IF fd \in DOMAIN fds /\ ~force THEN next_fd + 1 ELSE next_fd
      /\ files' = Open!Kept(table, open)
  BY DEF Open!AllocateFd
<1>2. at \in Nat /\ (at \notin DOMAIN fds \/ (force /\ at = fd))
  <2>1. CASE fd \notin DOMAIN fds \/ force
    <3>1. at = fd
      BY <2>1 DEF Open!ChosenFd
    <3>. QED
      BY <3>1, <2>1
  <2>2. CASE fd \in DOMAIN fds /\ ~force
    <3>1. force = FALSE
      BY <2>2
    <3>2. at = Open!ChosenFd(fd, FALSE)
      BY <3>1
    <3>. QED
      BY <3>2, <2>2, ChosenFdFree
  <2>. QED
    BY <2>1, <2>2
<1>. HIDE DEF at
<1>3. /\ DOMAIN table = DOMAIN fds \cup {at} /\ table[at] = desc
      /\ \A k \in DOMAIN fds : k # at => table[k] = fds[k]
  BY DEF Open!With
<1>. HIDE DEF table
<1>4. next_fd' \in Nat
  <2>2. next_fd \in Nat
    BY DEF FilesInv
  <2>1. next_fd + 1 \in Nat
    BY <2>2
  <2>. QED
    BY <1>1, <2>1, <2>2
<1>5. /\ DOMAIN files' = {table[k].file : k \in DOMAIN table}
      /\ \A f \in DOMAIN files' : files'[f] = open[f]
  BY <1>1 DEF Open!Kept
<1>6. \A k \in DOMAIN table : /\ table[k] \in DescType(DOMAIN open) /\ k \in 0..process.max_fd
  <2>. SUFFICES ASSUME NEW k \in DOMAIN table
                PROVE  table[k] \in DescType(DOMAIN open) /\ k \in 0..process.max_fd
    OBVIOUS
  <2>1. CASE k = at
    <3>2. process.max_fd \in Nat
      BY FilesFacts DEF FilesInv
    <3>1. at \in 0..process.max_fd
      BY <1>1, <1>2, <3>2
    <3>. QED
      BY <2>1, <3>1, <1>3
  <2>2. CASE k # at
    <3>1. k \in DOMAIN fds /\ table[k] = fds[k]
      BY <2>2, <1>3
    <3>2. fds[k] \in DescType(DOMAIN files) /\ k \in 0..process.max_fd
      BY <3>1 DEF FilesInv
    <3>. QED
      BY <3>1, <3>2 DEF DescType
  <2>. QED
    BY <2>1, <2>2
<1>7. \A f \in DOMAIN files' : f \in DOMAIN open
  BY <1>5, <1>6 DEF DescType
<1>8. \A f \in DOMAIN files' : files'[f] \in FileType(I)
  BY <1>5, <1>7
<1>9. \A k \in DOMAIN fds' : k \in 0..process'.max_fd /\ fds'[k] \in DescType(DOMAIN files')
  <2>1. \A k \in DOMAIN table : table[k] \in DescType(DOMAIN files')
    BY <1>5, <1>6 DEF DescType
  <2>. QED
    BY <1>1, <1>6, <2>1
<1>10. \A k \in DOMAIN fds : k \in DOMAIN fds' /\ (~force \/ k # fd => fds'[k] = fds[k])
  BY <1>1, <1>2, <1>3
<1>. QED
  BY <1>4, <1>8, <1>9, <1>10

-----------------------------------------------------------------------------
(* What every system call keeps.                                           *)

\* What is behind an open descriptor.
LEMMA FilesTyped ==
  ASSUME FilesInv, NEW fd \in DOMAIN fds
  PROVE  /\ fd \in Nat /\ fds[fd].file \in DOMAIN files /\ fds[fd].closexec \in BOOLEAN
         /\ files[fds[fd].file] \in FileType(DOMAIN inodes)
         /\ files[fds[fd].file].inode \in DOMAIN inodes /\ files[fds[fd].file].offset \in Sizes
         /\ GoodNode(inodes[files[fds[fd].file].inode])
<1>1. fds[fd] \in DescType(DOMAIN files) /\ fd \in 0..process.max_fd
  BY DEF FilesInv
<1>2. fds[fd].file \in DOMAIN files /\ fds[fd].closexec \in BOOLEAN
  BY <1>1 DEF DescType
<1>3. files[fds[fd].file] \in FileType(DOMAIN inodes)
  BY <1>2 DEF FilesInv
<1>4. files[fds[fd].file].inode \in DOMAIN inodes /\ files[fds[fd].file].offset \in Sizes
  BY <1>3 DEF FileType
<1>5. GoodNode(inodes[files[fds[fd].file].inode])
  BY <1>4 DEF FilesInv
<1>6. fd \in Nat
  BY <1>1
<1>. QED
  BY <1>2, <1>3, <1>4, <1>5, <1>6

\* dup(), dup2(), dup3() and F_DUPFD.
LEMMA DuplicateStep ==
  ASSUME FilesInv, NEW oldfd \in DOMAIN fds, NEW c \in BOOLEAN, NEW fd \in Nat, NEW force \in BOOLEAN,
         Open!AllocateFd([file |-> fds[oldfd].file, closexec |-> c], fd, force, files),
         UNCHANGED <<names, inodes, stopped, process>>
  PROVE  /\ FilesInv'
         /\ \A k \in DOMAIN fds : ~force \/ k # fd => fds'[k] = fds[k]
<1>. DEFINE desc == [file |-> fds[oldfd].file, closexec |-> c]
<1>1. desc.file \in DOMAIN files /\ desc \in DescType(DOMAIN files)
  BY FilesTyped DEF DescType
<1>2. \A f \in DOMAIN files : files[f] \in FileType(DOMAIN inodes)
  BY DEF FilesInv
<1>. HIDE DEF desc
<1>3. Open!AllocateFd(desc, fd, force, files) /\ process' = process
  BY DEF desc
<1>4. /\ next_fd' \in Nat
      /\ \A f \in DOMAIN files' : files'[f] \in FileType(DOMAIN inodes)
      /\ \A k \in DOMAIN fds' : k \in 0..process'.max_fd /\ fds'[k] \in DescType(DOMAIN files')
      /\ \A k \in DOMAIN fds : k \in DOMAIN fds' /\ (~force \/ k # fd => fds'[k] = fds[k])
  BY <1>1, <1>2, <1>3, AllocateFdStep
<1>5. FilesInv'
  BY <1>4 DEF FilesInv
<1>. QED
  BY <1>4, <1>5

LEMMA CloseStep ==
  ASSUME FilesInv, NEW fd, Open!Close(fd)
  PROVE  FilesInv' /\ Open!FilesKept
<1>. DEFINE table == [k \in DOMAIN fds \ {fd} |-> fds[k]]
<1>1. /\ fds' = table /\ files' = Open!Kept(table, files)
      /\ UNCHANGED <<names, inodes, next_fd, stopped, process>>
  BY DEF Open!Close
<1>2. \A k \in DOMAIN table : k \in DOMAIN fds /\ table[k] = fds[k]
  OBVIOUS
<1>. HIDE DEF table
<1>3. /\ DOMAIN files' = {table[k].file : k \in DOMAIN table}
      /\ \A f \in DOMAIN files' : files'[f] = files[f]
  BY <1>1 DEF Open!Kept
<1>4. \A k \in DOMAIN table : k \in 0..process.max_fd /\ fds[k] \in DescType(DOMAIN files)
  BY <1>2 DEF FilesInv
<1>5. \A f \in DOMAIN files' : f \in DOMAIN files
  BY <1>2, <1>3, <1>4 DEF DescType
<1>6. \A f \in DOMAIN files' : files'[f] \in FileType(DOMAIN inodes)
  BY <1>3, <1>5 DEF FilesInv
<1>7. \A k \in DOMAIN fds' : k \in 0..process.max_fd /\ fds'[k] \in DescType(DOMAIN files')
  BY <1>1, <1>2, <1>3, <1>4 DEF DescType
<1>8. FilesInv'
  BY <1>1, <1>6, <1>7 DEF FilesInv
<1>. QED
  BY <1>1, <1>2, <1>8 DEF Open!FilesKept

\* What moves an offset or sets a flag of an open file.
LEMMA FileChanged ==
  ASSUME FilesInv, NEW F, DOMAIN F = DOMAIN files, \A f \in DOMAIN F : F[f] \in FileType(DOMAIN inodes),
         files' = F, UNCHANGED <<names, fds, next_fd, process>>,
         DOMAIN inodes' = DOMAIN inodes, \A i \in DOMAIN inodes : GoodNode(inodes'[i]),
         stopped' \in {"no", "read behind the end"}
  PROVE  FilesInv' /\ Open!FilesKept
<1>1. FilesInv'
  BY DEF FilesInv
<1>. QED
  BY <1>1 DEF Open!FilesKept

LEMMA OffsetMoved ==
  ASSUME FilesInv, NEW fd \in DOMAIN fds, NEW offset \in Sizes, NEW moves \in BOOLEAN,
         NEW F, F = IF moves THEN [files EXCEPT ![fds[fd].file].offset = offset] ELSE files
  PROVE  DOMAIN F = DOMAIN files /\ \A f \in DOMAIN F : F[f] \in FileType(DOMAIN inodes)
<1>1. \A f \in DOMAIN files : files[f] \in FileType(DOMAIN inodes)
  BY DEF FilesInv
<1>2. CASE moves
  <2>1. F = [files EXCEPT ![fds[fd].file].offset = offset]
    BY <1>2
  <2>. QED
    BY <2>1, <1>1 DEF FileType
<1>3. CASE ~moves
  BY <1>1, <1>3
<1>. QED
  BY <1>2, <1>3

LEMMA ReadFromStep ==
  ASSUME FilesInv, NEW fd \in DOMAIN fds, NEW offset \in Sizes, NEW counts \in Seq(0..Open!OffMax),
         NEW moves \in BOOLEAN, Open!ReadFrom(fd, offset, counts, moves)
  PROVE  FilesInv' /\ Open!FilesKept
<1>. DEFINE done == Open!ReadLoop(inodes[files[fds[fd].file].inode], offset, counts)
<1>1. done \in ReadStates
  <2>1. inodes[files[fds[fd].file].inode] \in NodeType
    BY FilesTyped DEF GoodNode
  <2>. QED
    BY <2>1, ReadLoopStays
<1>2. /\ stopped' = done.fault
      /\ files' = IF moves THEN [files EXCEPT ![fds[fd].file].offset = done.offset] ELSE files
      /\ UNCHANGED <<names, inodes, fds, next_fd, process>>
  BY DEF Open!ReadFrom
<1>. HIDE DEF done
<1>3. done.offset \in Sizes /\ done.fault \in {"no", "read behind the end"}
  BY <1>1 DEF ReadStates
<1>4. DOMAIN files' = DOMAIN files /\ \A f \in DOMAIN files' : files'[f] \in FileType(DOMAIN inodes)
  BY <1>2, <1>3, OffsetMoved
<1>5. \A i \in DOMAIN inodes : GoodNode(inodes'[i])
  BY <1>2 DEF FilesInv
<1>. QED
  BY <1>2, <1>3, <1>4, <1>5, FileChanged

LEMMA WriteToStep ==
  ASSUME FilesInv, NEW fd \in DOMAIN fds, NEW offset \in Sizes, NEW counts \in Seq(0..Open!OffMax),
         NEW moves \in BOOLEAN, Open!WriteTo(fd, offset, counts, moves)
  PROVE  FilesInv' /\ Open!FilesKept
<1>. DEFINE ino == files[fds[fd].file].inode
            done == Open!WriteLoop(inodes[ino], offset, counts)
<1>1. GoodNode(done.node) /\ done.offset \in Sizes
  BY FilesTyped, WriteLoopStays
<1>2. /\ inodes' = [inodes EXCEPT ![ino] = done.node]
      /\ files' = IF moves THEN [files EXCEPT ![fds[fd].file].offset = done.offset] ELSE files
      /\ UNCHANGED <<names, fds, next_fd, stopped, process>>
  BY DEF Open!WriteTo
<1>. HIDE DEF done, ino
<1>4. DOMAIN files' = DOMAIN files /\ \A f \in DOMAIN files' : files'[f] \in FileType(DOMAIN inodes)
  BY <1>1, <1>2, OffsetMoved
<1>5. DOMAIN inodes' = DOMAIN inodes /\ \A i \in DOMAIN inodes : GoodNode(inodes'[i])
  BY <1>1, <1>2 DEF FilesInv
<1>6. stopped' \in {"no", "read behind the end"}
  BY <1>2 DEF FilesInv
<1>. QED
  BY <1>2, <1>4, <1>5, <1>6, FileChanged

LEMMA LseekStep ==
  ASSUME FilesInv, NEW fd, NEW offset \in Int, NEW whence \in {"set", "cur", "end"},
         Open!Lseek(fd, offset, whence)
  PROVE  FilesInv' /\ Open!FilesKept
<1>1. /\ fd \in DOMAIN fds
      /\ files' = [files EXCEPT ![fds[fd].file].offset = Open!SeekTo(fd, offset, whence)]
      /\ UNCHANGED <<names, inodes, fds, next_fd, stopped, process>>
  BY DEF Open!Lseek
<1>2. Open!SeekTo(fd, offset, whence) \in Sizes
  <2>. DEFINE f == files[fds[fd].file]
              from == CASE whence = "set" -> 0 [] whence = "cur" -> f.offset [] whence = "end" -> inodes[f.inode].size
  <2>1. f.offset \in Sizes /\ inodes[f.inode].size \in Sizes
    BY <1>1, FilesTyped DEF GoodNode, NodeType
  <2>2. from \in Int
    BY <2>1 DEF Sizes
  <2>3. Open!SeekTo(fd, offset, whence) = (from + offset) % Width
    BY DEF Open!SeekTo
  <2>. HIDE DEF from
  <2>4. PICK x : x = from + offset
    OBVIOUS
  <2>5. x \in Int /\ Width \in Nat \ {0}
    BY <2>2, <2>4, FilesFacts
  <2>6. x % Width \in 0..(Width - 1)
    BY <2>5, ModFacts
  <2>. QED
    BY <2>3, <2>4, <2>6 DEF Sizes
<1>3. PICK F : F = [files EXCEPT ![fds[fd].file].offset = Open!SeekTo(fd, offset, whence)]
  OBVIOUS
<1>4. DOMAIN F = DOMAIN files /\ \A f \in DOMAIN F : F[f] \in FileType(DOMAIN inodes)
  <2>1. F = IF TRUE THEN [files EXCEPT ![fds[fd].file].offset = Open!SeekTo(fd, offset, whence)] ELSE files
    BY <1>3
  <2>. QED
    BY <1>1, <1>2, <2>1, OffsetMoved
<1>5. stopped' \in {"no", "read behind the end"} /\ \A i \in DOMAIN inodes : GoodNode(inodes'[i])
  BY <1>1 DEF FilesInv
<1>. QED
  BY <1>1, <1>3, <1>4, <1>5, FileChanged

LEMMA FcntlStep ==
  ASSUME FilesInv, NEW fd, NEW b \in BOOLEAN, NEW status \in SUBSET {"append"},
         Open!FcntlSetFd(fd, b) \/ Open!FcntlSetFl(fd, status)
  PROVE  FilesInv' /\ Open!FilesKept
<1>1. CASE Open!FcntlSetFd(fd, b)
  <2>1. /\ fd \in DOMAIN fds /\ fds' = [fds EXCEPT ![fd].closexec = b]
        /\ UNCHANGED <<names, inodes, files, next_fd, stopped, process>>
    BY <1>1 DEF Open!FcntlSetFd
  <2>2. \A k \in DOMAIN fds : k \in 0..process.max_fd /\ fds[k] \in DescType(DOMAIN files)
    BY DEF FilesInv
  <2>3. /\ DOMAIN fds' = DOMAIN fds
        /\ \A k \in DOMAIN fds : fds'[k] \in DescType(DOMAIN files) /\ fds'[k].file = fds[k].file
    BY <2>1, <2>2 DEF DescType
  <2>4. FilesInv'
    BY <2>1, <2>2, <2>3 DEF FilesInv
  <2>. QED
    BY <2>3, <2>4 DEF Open!FilesKept
<1>2. CASE Open!FcntlSetFl(fd, status)
  <2>1. /\ fd \in DOMAIN fds
        /\ UNCHANGED <<names, inodes, fds, next_fd, stopped, process>>
    BY <1>2 DEF Open!FcntlSetFl
  <2>2. PICK F : F = [files EXCEPT ![fds[fd].file].status = status]
    OBVIOUS
  <2>3. \A f \in DOMAIN files : files[f] \in FileType(DOMAIN inodes)
    BY DEF FilesInv
  <2>4. DOMAIN F = DOMAIN files /\ \A f \in DOMAIN F : F[f] \in FileType(DOMAIN inodes)
    BY <2>2, <2>3 DEF FileType
  <2>5. stopped' \in {"no", "read behind the end"} /\ \A i \in DOMAIN inodes : GoodNode(inodes'[i])
    BY <2>1 DEF FilesInv
  <2>6. files' = F
    BY <1>2, <2>2 DEF Open!FcntlSetFl
  <2>. QED
    BY <2>1, <2>4, <2>5, <2>6, FileChanged
<1>. QED
  BY <1>1, <1>2

\* openat(): whatever it finds or makes, the file is typed and empty if it was
\* truncated.
LEMMA OpenInodeStep ==
  ASSUME FilesInv, NEW flags \in Open!OpenFlags, NEW nodes, NEW ino \in DOMAIN nodes,
         DOMAIN inodes \subseteq DOMAIN nodes, \A i \in DOMAIN nodes : GoodNode(nodes[i]),
         Open!OpenInode(ino, flags, nodes), UNCHANGED <<stopped, process>>,
         DOMAIN names' = DOMAIN names, \A n \in DOMAIN names : names'[n] \in DOMAIN nodes \cup {0}
  PROVE  FilesInv' /\ Open!FilesKept
<1>. DEFINE f == CHOOSE k \in 1..(Open!Cardinality(DOMAIN files) + 1) : k \notin DOMAIN files
            file == [inode |-> ino, offset |-> 0, acc |-> flags.acc, status |-> {}]
            open == Open!With(files, f, file)
            desc == [file |-> f, closexec |-> flags.closexec]
<1>1. /\ inodes' = IF flags.trunc THEN [nodes EXCEPT ![ino] = Open!Truncated(@, 0)] ELSE nodes
      /\ Open!AllocateFd(desc, 0, FALSE, open)
  BY DEF Open!OpenInode
<1>2. file \in FileType(DOMAIN nodes)
  BY FilesFacts DEF Open!OpenFlags, FileType, Sizes
<1>3. flags.closexec \in BOOLEAN /\ flags.trunc \in BOOLEAN
  BY DEF Open!OpenFlags
<1>. HIDE DEF f, file
<1>4. DOMAIN open = DOMAIN files \cup {f} /\ \A k \in DOMAIN open : open[k] \in FileType(DOMAIN nodes)
  <2>1. \A k \in DOMAIN files : files[k] \in FileType(DOMAIN nodes)
    BY DEF FilesInv, FileType
  <2>. QED
    BY <1>2, <2>1 DEF Open!With
<1>. HIDE DEF open
<1>5. desc.file \in DOMAIN open /\ desc \in DescType(DOMAIN open)
  BY <1>3, <1>4 DEF DescType
<1>. HIDE DEF desc
<1>6. /\ next_fd' \in Nat
      /\ \A k \in DOMAIN files' : files'[k] \in FileType(DOMAIN nodes)
      /\ \A k \in DOMAIN fds' : k \in 0..process'.max_fd /\ fds'[k] \in DescType(DOMAIN files')
      /\ \A k \in DOMAIN fds : k \in DOMAIN fds' /\ (~FALSE \/ k # 0 => fds'[k] = fds[k])
  <2>1. process' = process /\ DOMAIN files \subseteq DOMAIN open
    BY <1>4
  <2>2. PICK no \in BOOLEAN, zero \in Nat : no = FALSE /\ zero = 0
    OBVIOUS
  <2>3. Open!AllocateFd(desc, zero, no, open)
    BY <1>1, <2>2
  <2>4. /\ next_fd' \in Nat
        /\ \A k \in DOMAIN files' : files'[k] \in FileType(DOMAIN nodes)
        /\ \A k \in DOMAIN fds' : k \in 0..process'.max_fd /\ fds'[k] \in DescType(DOMAIN files')
        /\ \A k \in DOMAIN fds : k \in DOMAIN fds' /\ (~no \/ k # zero => fds'[k] = fds[k])
    BY <1>4, <1>5, <2>1, <2>3, AllocateFdStep
  <2>. QED
    BY <2>2, <2>4
<1>7. DOMAIN inodes' = DOMAIN nodes /\ \A i \in DOMAIN nodes : GoodNode(inodes'[i])
  <2>1. GoodNode(Open!Truncated(nodes[ino], 0))
    <3>1. 0 \in Sizes
      BY FilesFacts DEF Sizes
    <3>. QED
      BY <3>1, TruncatedGood
  <2>2. PICK new : new = Open!Truncated(nodes[ino], 0)
    OBVIOUS
  <2>3. inodes' = IF flags.trunc THEN [nodes EXCEPT ![ino] = new] ELSE nodes
    BY <1>1, <2>2
  <2>. QED
    BY <2>1, <2>2, <2>3
<1>8. FilesInv'
  BY <1>6, <1>7 DEF FilesInv
<1>. QED
  BY <1>6, <1>8 DEF Open!FilesKept

LEMMA OpenStep ==
  ASSUME FilesInv, NEW n \in DOMAIN names, NEW flags \in Open!OpenFlags,
         Open!OpenExisting(n, flags) \/ Open!OpenCreate(n, flags)
  PROVE  FilesInv' /\ Open!FilesKept
<1>1. CASE Open!OpenExisting(n, flags)
  <2>. DEFINE ino == IF flags.nofollow THEN names[n] ELSE Open!Reduced(n)
  <2>1. ino # 0 /\ Open!OpenInode(ino, flags, inodes) /\ UNCHANGED <<names, stopped, process>>
    BY <1>1 DEF Open!OpenExisting
  <2>2. \A m \in DOMAIN names : names[m] \in DOMAIN inodes \cup {0}
    BY DEF FilesInv
  <2>3. ino \in DOMAIN inodes
    <3>1. "f" \in DOMAIN names
      BY DEF FilesInv
    <3>. QED
      BY <2>1, <2>2, <3>1 DEF Open!Reduced
  <2>. HIDE DEF ino
  <2>4. \A i \in DOMAIN inodes : GoodNode(inodes[i])
    BY DEF FilesInv
  <2>. QED
    BY <2>1, <2>2, <2>3, <2>4, OpenInodeStep
<1>2. CASE Open!OpenCreate(n, flags)
  <2>. DEFINE ino == Open!Cardinality(DOMAIN inodes) + 1
              new == [type |-> "none", size |-> 0, mem |-> Open!Nothing]
              created == Open!With(inodes, ino, new)
  <2>1. /\ names' = [names EXCEPT ![n] = ino]
        /\ Open!OpenInode(ino, flags, created) /\ UNCHANGED <<stopped, process>>
    BY <1>2 DEF Open!OpenCreate
  <2>2. GoodNode(new)
    <3>1. Open!Nothing \in [Sizes -> {0, 1}] /\ \A i \in Sizes : Open!Nothing[i] = 0
      BY DEF Open!Nothing, Sizes
    <3>2. 0 \in Sizes /\ 0..Open!OffMax \subseteq Sizes
      BY FilesFacts DEF Sizes
    <3>3. new \in NodeType
      BY <3>1, <3>2 DEF NodeType, NodeKinds
    <3>4. new.mem = Open!Nothing
      OBVIOUS
    <3>. HIDE DEF new
    <3>. QED
      BY <3>1, <3>2, <3>3, <3>4 DEF GoodNode, ZeroBehind
  <2>. HIDE DEF ino, new
  <2>3. DOMAIN created = DOMAIN inodes \cup {ino} /\ \A i \in DOMAIN created : GoodNode(created[i])
    BY <2>2 DEF FilesInv, Open!With
  <2>. HIDE DEF created
  <2>4. DOMAIN names' = DOMAIN names /\ \A m \in DOMAIN names : names'[m] \in DOMAIN created \cup {0}
    BY <2>1, <2>3 DEF FilesInv
  <2>. QED
    BY <2>1, <2>3, <2>4, OpenInodeStep
<1>. QED
  BY <1>1, <1>2

LEMMA TransferStep ==
  ASSUME FilesInv, NEW fd \in DOMAIN fds, NEW counts \in Seq(0..Open!OffMax) \ {<<>>}
  PROVE  /\ Open!Read(fd, Head(counts)) \/ Open!Readv(fd, counts) => FilesInv' /\ Open!FilesKept
         /\ Open!Write(fd, Head(counts)) \/ Open!Writev(fd, counts) => FilesInv' /\ Open!FilesKept
         /\ \A offset \in Int :
              Open!Pread(fd, Head(counts), offset) \/ Open!Preadv(fd, counts, offset) => FilesInv' /\ Open!FilesKept
         /\ \A offset \in Int :
              Open!Pwrite(fd, Head(counts), offset) \/ Open!Pwritev(fd, counts, offset) => FilesInv' /\ Open!FilesKept
<1>1. counts \in Seq(0..Open!OffMax) /\ <<Head(counts)>> \in Seq(0..Open!OffMax)
  <2>. DEFINE C == 0..Open!OffMax
  <2>1. counts \in Seq(C) /\ counts # <<>>
    OBVIOUS
  <2>. HIDE DEF C
  <2>2. Head(counts) \in C
    BY <2>1
  <2>3. <<Head(counts)>> \in Seq(C)
    BY <2>2
  <2>. QED
    BY <2>1, <2>3 DEF C
<1>2. files[fds[fd].file].offset \in Sizes
  BY FilesTyped
<1>3. \A offset \in Int : offset % Width \in Sizes
  BY FilesFacts, ModFacts DEF Sizes
<1>4. TRUE \in BOOLEAN /\ FALSE \in BOOLEAN
  OBVIOUS
<1>5. Open!Read(fd, Head(counts)) \/ Open!Readv(fd, counts) => FilesInv' /\ Open!FilesKept
  BY <1>1, <1>2, <1>4, ReadFromStep DEF Open!Read, Open!Readv
<1>6. Open!Write(fd, Head(counts)) \/ Open!Writev(fd, counts) => FilesInv' /\ Open!FilesKept
  BY <1>1, <1>2, <1>4, WriteToStep DEF Open!Write, Open!Writev
<1>7. ASSUME NEW offset \in Int, Open!Pread(fd, Head(counts), offset) \/ Open!Preadv(fd, counts, offset)
      PROVE  FilesInv' /\ Open!FilesKept
  <2>1. PICK x \in Sizes : x = offset % Width
    BY <1>3
  <2>. QED
    BY <1>1, <1>4, <1>7, <2>1, ReadFromStep DEF Open!Pread, Open!Preadv
<1>8. ASSUME NEW offset \in Int, Open!Pwrite(fd, Head(counts), offset) \/ Open!Pwritev(fd, counts, offset)
      PROVE  FilesInv' /\ Open!FilesKept
  <2>1. PICK x \in Sizes : x = offset % Width
    BY <1>3
  <2>. QED
    BY <1>1, <1>4, <1>8, <2>1, WriteToStep DEF Open!Pwrite, Open!Pwritev
<1>. QED
  BY <1>5, <1>6, <1>7, <1>8

LEMMA DupStep ==
  ASSUME FilesInv, NEW fd \in DOMAIN fds, NEW to \in Nat, NEW b \in BOOLEAN, NEW arg \in DOMAIN fds,
         Open!Dup(fd) \/ Open!Dup2(fd, to) \/ Open!Dup3(fd, to, b) \/ Open!FcntlDup(fd, arg, b)
  PROVE  FilesInv' /\ Open!FilesKept
<1>1. CASE Open!Dup(fd)
  <2>1. FilesInv' /\ \A k \in DOMAIN fds : ~FALSE \/ k # 0 => fds'[k] = fds[k]
    BY <1>1, DuplicateStep DEF Open!Dup
  <2>. QED
    BY <2>1 DEF Open!FilesKept
<1>2. CASE Open!FcntlDup(fd, arg, b)
  <2>1. FilesInv' /\ \A k \in DOMAIN fds : ~FALSE \/ k # 0 => fds'[k] = fds[k]
    BY <1>2, DuplicateStep DEF Open!FcntlDup
  <2>. QED
    BY <2>1 DEF Open!FilesKept
<1>3. CASE Open!Dup2(fd, to)
  <2>1. FilesInv' /\ \A k \in DOMAIN fds : ~TRUE \/ k # to => fds'[k] = fds[k]
    BY <1>3, DuplicateStep DEF Open!Dup2
  <2>. QED
    BY <1>3, <2>1 DEF Open!FilesKept
<1>4. CASE Open!Dup3(fd, to, b)
  <2>1. FilesInv' /\ \A k \in DOMAIN fds : ~TRUE \/ k # to => fds'[k] = fds[k]
    BY <1>4, DuplicateStep DEF Open!Dup3
  <2>. QED
    BY <1>4, <2>1 DEF Open!FilesKept
<1>. QED
  BY <1>1, <1>2, <1>3, <1>4

LEMMA FilesStep ==
  ASSUME FilesInv, Open!Next
  PROVE  FilesInv' /\ Open!FilesKept
<1>1. /\ process.flags \subseteq Open!OpenFlags
      /\ process.counts \subseteq Seq(0..Open!OffMax) \ {<<>>}
      /\ process.offsets \subseteq Int /\ process.switches \subseteq BOOLEAN /\ process.max_fd \in Nat
  BY FilesFacts DEF FilesInv
<1>2. CASE \E n \in DOMAIN names, flags \in process.flags : Open!OpenExisting(n, flags) \/ Open!OpenCreate(n, flags)
  BY <1>1, <1>2, OpenStep
<1>3. CASE \E fd \in DOMAIN fds : Open!Close(fd)
  BY <1>3, CloseStep
<1>4. CASE \E fd \in DOMAIN fds : Open!Dup(fd)
                 \/ \E to \in Open!Fds : Open!Dup2(fd, to) \/ \E b \in process.switches : Open!Dup3(fd, to, b)
  <2>1. \A to \in Open!Fds : to \in Nat
    BY <1>1 DEF Open!Fds
  <2>2. 0 \in Nat /\ TRUE \in BOOLEAN
    OBVIOUS
  <2>3. PICK fd \in DOMAIN fds : Open!Dup(fd)
                 \/ \E to \in Open!Fds : Open!Dup2(fd, to) \/ \E b \in process.switches : Open!Dup3(fd, to, b)
    BY <1>4
  <2>4. CASE Open!Dup(fd)
    BY <2>2, <2>4, DupStep
  <2>5. CASE \E to \in Open!Fds : Open!Dup2(fd, to) \/ \E b \in process.switches : Open!Dup3(fd, to, b)
    BY <1>1, <2>1, <2>2, <2>5, DupStep
  <2>. QED
    BY <2>3, <2>4, <2>5
<1>5. CASE \E fd \in DOMAIN fds, b \in process.switches :
             Open!FcntlSetFd(fd, b) \/ Open!FcntlSetFl(fd, IF b THEN {"append"} ELSE {})
  <2>1. \A b : (IF b THEN {"append"} ELSE {}) \in SUBSET {"append"}
    OBVIOUS
  <2>2. PICK fd \in DOMAIN fds, b \in process.switches :
             Open!FcntlSetFd(fd, b) \/ Open!FcntlSetFl(fd, IF b THEN {"append"} ELSE {})
    BY <1>5
  <2>3. b \in BOOLEAN
    BY <1>1
  <2>. QED
    BY <2>1, <2>2, <2>3, FcntlStep
<1>6. CASE \E fd, arg \in DOMAIN fds, b \in process.switches : Open!FcntlDup(fd, arg, b)
  <2>1. 0 \in Nat
    OBVIOUS
  <2>. QED
    BY <1>1, <1>6, <2>1, DupStep
<1>7. CASE \E fd \in DOMAIN fds, counts \in process.counts :
             \/ Open!Read(fd, Head(counts)) \/ Open!Write(fd, Head(counts))
             \/ Open!Readv(fd, counts) \/ Open!Writev(fd, counts)
  BY <1>1, <1>7, TransferStep
<1>8. CASE \E fd \in DOMAIN fds, counts \in process.counts, offset \in process.offsets :
             \/ Open!Pread(fd, Head(counts), offset) \/ Open!Pwrite(fd, Head(counts), offset)
             \/ Open!Preadv(fd, counts, offset) \/ Open!Pwritev(fd, counts, offset)
  BY <1>1, <1>8, TransferStep
<1>9. CASE \E fd \in DOMAIN fds, offset \in process.offsets, whence \in {"set", "cur", "end"} :
             Open!Lseek(fd, offset, whence)
  BY <1>1, <1>9, LseekStep
<1>. QED
  BY <1>2, <1>3, <1>4, <1>5, <1>6, <1>7, <1>8, <1>9 DEF Open!Next

LEMMA FilesInitially ==
  ASSUME Open!Init
  PROVE  FilesInv
<1>1. Open!Nothing \in [Sizes -> {0, 1}] /\ \A i \in Sizes : Open!Nothing[i] = 0
  BY DEF Open!Nothing, Sizes
<1>2. 0 \in Sizes /\ 0..Open!OffMax \subseteq Sizes
  BY FilesFacts DEF Sizes
<1>3. \A i \in DOMAIN inodes : GoodNode(inodes[i])
  <2>. SUFFICES ASSUME NEW i \in 1..3
                PROVE  GoodNode(inodes[i])
    BY DEF Open!Init
  <2>1. i = 1 \/ i = 2 \/ i = 3
    OBVIOUS
  <2>2. <<"chr", "dir", "lnk">>[i] \in {"chr", "dir", "lnk"}
    BY <2>1
  <2>3. <<"chr", "dir", "lnk">>[i] \in NodeKinds
    BY <2>2 DEF NodeKinds
  <2>4. PICK s \in NodeKinds : s = <<"chr", "dir", "lnk">>[i]
    BY <2>3
  <2>5. inodes[i] = [type |-> s, size |-> 0, mem |-> Open!Nothing]
    BY <2>4 DEF Open!Init
  <2>6. inodes[i] \in NodeType /\ inodes[i].mem = Open!Nothing
    BY <1>1, <1>2, <2>5 DEF NodeType
  <2>. QED
    BY <1>1, <1>2, <2>6 DEF GoodNode, ZeroBehind
<1>4. DOMAIN names = {"f", "d", "l"} /\ \A n \in DOMAIN names : names[n] \in DOMAIN inodes \cup {0}
  BY DEF Open!Init, Open!Directory, Open!SymlinkTo
<1>5. \A f \in DOMAIN files : files[f] \in FileType(DOMAIN inodes)
  BY <1>2 DEF Open!Init, FileType, Open!Console
<1>6. process \in Processes /\ process.max_fd \in Nat /\ process.max_fd >= 2
  BY FilesFacts DEF Open!Init
<1>7. \A fd \in DOMAIN fds : fd \in 0..process.max_fd /\ fds[fd] \in DescType(DOMAIN files)
  BY <1>6 DEF Open!Init, DescType
<1>. QED
  BY <1>3, <1>4, <1>5, <1>6, <1>7 DEF FilesInv, Open!Init

-----------------------------------------------------------------------------
(* The files of every behaviour of the file system.                        *)

LEMMA FilesHold ==
  FileSystemSpec => []FilesInv
<1>1. FileSystemInit => FilesInv
  BY FilesInitially DEF FileSystemInit
<1>2. FilesInv /\ [FileSystemNext]_allVars => FilesInv'
  <2>. SUFFICES ASSUME FilesInv, [FileSystemNext]_allVars
                PROVE  FilesInv'
    OBVIOUS
  <2>1. CASE UNCHANGED fileVars
    BY <2>1 DEF fileVars, FilesInv
  <2>2. CASE Open!Next
    BY <2>2, FilesStep
  <2>. QED
    BY <2>1, <2>2 DEF FileSystemNext, allVars
<1>. QED
  BY <1>1, <1>2, PTL DEF FileSystemSpec

\* tmpfs and the system calls on files: what lies behind the end of a file
\* reads as zero, every offset and every descriptor is typed, and no read that
\* starts inside a file leaves its buffer, whatever the process calls.
THEOREM ContentsSoundInvariant ==
  FileSystemSpec => []ContentsSound
<1>1. FilesInv => ContentsSound
  <2>. SUFFICES ASSUME FilesInv
                PROVE  ContentsSound
    OBVIOUS
  <2>1. Open!TypeOK
    BY DEF FilesInv, Open!TypeOK, Open!Fds, GoodNode, NodeType, FileType, DescType, Sizes
  <2>2. \A i \in DOMAIN inodes : ZeroBehind(inodes[i])
    BY DEF FilesInv, GoodNode
  <2>3. Open!BehindEndZero
    BY <2>1, <2>2 DEF Open!BehindEndZero, ZeroBehind
  <2>4. Open!ReadsStayInBuffer
    BY DEF FilesInv, Open!ReadsStayInBuffer
  <2>. QED
    BY <2>3, <2>4 DEF ContentsSound, Open!ContentsSound
<1>. QED
  BY <1>1, FilesHold, PTL

\* fdtable: an open descriptor changes its file only when dup2() or dup3() name
\* it, for every process.
THEOREM DescriptorsKeptHolds ==
  FileSystemSpec => DescriptorsKept
<1>1. FilesInv /\ [FileSystemNext]_allVars => [Open!FilesKept]_allVars
  <2>. SUFFICES ASSUME FilesInv, FileSystemNext
                PROVE  Open!FilesKept
    OBVIOUS
  <2>1. CASE UNCHANGED fileVars
    BY <2>1 DEF fileVars, Open!FilesKept
  <2>2. CASE Open!Next
    BY <2>2, FilesStep
  <2>. QED
    BY <2>1, <2>2 DEF FileSystemNext
<1>. QED
  BY <1>1, FilesHold, PTL DEF FileSystemSpec, DescriptorsKept

-----------------------------------------------------------------------------
(* The tree, and the paths that are good in it.                            *)

Slots(t) == 1..Len(t.dentries)
Words == Seq(Names \cup {DotDot})
DentryType == [name : Names \cup {"/", HiddenName}, parent : Nat, inode : Nat,
               symlinked_to : [abs : BOOLEAN, segs : Words]]

\* The dentry that everything in a mount is below.
RootOf(t, m) == IF m = 1 THEN Root ELSE t.mounts[m].root

\* A path of resolve(): a dentry of a mount whose tree it is in.
Good(t, top) ==
  {q \in [mnt : 1..Len(t.mounts), dentry : Slots(t)] : top[q.dentry] = RootOf(t, q.mnt)}

Typed(t) ==
  /\ t = [dentries |-> t.dentries, children |-> t.children, inodes |-> t.inodes, mounts |-> t.mounts]
  /\ t.dentries \in Seq(DentryType) /\ Len(t.dentries) >= 3
  /\ t.inodes \in Seq([type : Types, nlink : Nat])
  /\ \A d \in Slots(t) : t.dentries[d].inode \in 1..Len(t.inodes)
  /\ DOMAIN t.children = Slots(t)
  /\ \A d \in Slots(t) : \A n \in DOMAIN t.children[d] :
       /\ n \in Names /\ t.children[d][n] \in Slots(t)
       /\ t.dentries[t.children[d][n]].name = n /\ t.dentries[t.children[d][n]].parent = d
  /\ t.mounts \in Seq([root : Nat, mounted_on : [mnt : Nat, dentry : Nat]]) /\ Len(t.mounts) >= 1

\* top maps each dentry to the root of its tree.
Rooted(t, top) ==
  /\ DOMAIN top = Slots(t) /\ top[Root] = Root /\ top[TmpfsRoot] = TmpfsRoot /\ top[DevtmpfsRoot] = DevtmpfsRoot
  /\ t.dentries[Root].parent = Root /\ t.dentries[Root].name = "/"
  /\ TypeOf(t, Root) = "dir" /\ TypeOf(t, DevtmpfsRoot) = "dir"
  /\ \A d \in Slots(t) : \/ d = Root
                         \/ t.dentries[d].parent = 0 /\ top[d] = d
                         \/ t.dentries[d].parent \in Slots(t) /\ top[d] = top[t.dentries[d].parent]

\* A mount covers a path of an earlier one, and shows a tree of its own.
Mounted(t, top) ==
  /\ t.mounts[1] = [root |-> TmpfsRoot, mounted_on |-> [mnt |-> 0, dentry |-> Root]]
  /\ \A m \in 2..Len(t.mounts) :
       /\ t.mounts[m].root \in Slots(t) /\ top[t.mounts[m].root] = t.mounts[m].root
       /\ TypeOf(t, t.mounts[m].root) = "dir"
       /\ t.mounts[m].mounted_on \in Good(t, top) /\ t.mounts[m].mounted_on.mnt < m

Space(t, top) == Typed(t) /\ Rooted(t, top) /\ Mounted(t, top)

\* What resolve_mounts stops at.
Settled(t, q) == q.dentry # t.mounts[q.mnt].root

\* The assumptions on the constants.
LEMMA VfsFacts ==
  /\ DotDot \notin Names /\ "/" \notin Names /\ HiddenName \notin Names
  /\ WalkMax \in Nat /\ WalkMax >= 1 /\ SymloopMax \in Nat /\ StackMax \in Nat /\ StackMax >= 1
  /\ LinkTargets \subseteq Paths
  BY FileSystemAssumption DEF VfsAssumption

\* What is seen at a path, mount by mount.
LEMMA OnTopSteps ==
  ASSUME NEW t, NEW path, Len(t.mounts) \in Nat
  PROVE  \E g : /\ DOMAIN g = 0..Len(t.mounts) /\ g[0] = path
                /\ \A i \in 1..Len(t.mounts) : g[i] = Above(t, g[i - 1])
                /\ OnTop(t, path) = g[Len(t.mounts)]
<1>. DEFINE n == Len(t.mounts)
            a == path
            S == {k \in 0..n : \E g : /\ DOMAIN g = 0..k /\ g[0] = a
                                      /\ \A i \in 1..k : g[i] = Above(t, g[i - 1])}
<1>1. 0 \in S
  <2>. DEFINE g == [i \in 0..0 |-> a]
  <2>1. DOMAIN g = 0..0 /\ g[0] = a /\ \A i \in 1..0 : g[i] = Above(t, g[i - 1])
    <3>. HIDE DEF a
    <3>. QED OBVIOUS
  <2>. HIDE DEF g, a
  <2>. QED
    BY <2>1
<1>2. ASSUME NEW k \in 1..n, k - 1 \in S
      PROVE  k \in S
  <2>. HIDE DEF a
  <2>1. PICK h : /\ DOMAIN h = 0..(k - 1) /\ h[0] = a
                 /\ \A i \in 1..(k - 1) : h[i] = Above(t, h[i - 1])
    BY <1>2
  <2>. DEFINE x == Above(t, h[k - 1])
              g == [i \in 0..k |-> IF i = k THEN x ELSE h[i]]
  <2>. HIDE DEF x
  <2>2. (\A i \in 0..(k - 1) : g[i] = h[i]) /\ g[k] = x /\ DOMAIN g = 0..k
    OBVIOUS
  <2>. HIDE DEF g
  <2>3. ASSUME NEW i \in 1..k
        PROVE  g[i] = Above(t, g[i - 1])
    <3>1. g[i - 1] = h[i - 1]
      BY <2>2
    <3>2. CASE i = k
      BY <3>1, <3>2, <2>2 DEF x
    <3>3. CASE i # k
      <4>1. i \in 1..(k - 1) /\ i \in 0..(k - 1)
        BY <3>3
      <4>. QED
        BY <3>1, <4>1, <2>1, <2>2
    <3>. QED
      BY <3>2, <3>3
  <2>4. g[0] = a
    BY <2>1, <2>2
  <2>5. k \in 0..n
    OBVIOUS
  <2>6. \E y : /\ DOMAIN y = 0..k /\ y[0] = a
               /\ \A i \in 1..k : y[i] = Above(t, y[i - 1])
    BY <2>2, <2>3, <2>4
  <2>. QED
    BY <2>5, <2>6
<1>3. n \in S
  <2>1. S \subseteq 0..n /\ n \in Nat
    OBVIOUS
  <2>. HIDE DEF S, n
  <2>2. S = 0..n
    BY <1>1, <1>2, <2>1, Inductive
  <2>. QED
    BY <2>1, <2>2
<1>. DEFINE f == CHOOSE g : g = [i \in 0..n |-> IF i = 0 THEN a ELSE Above(t, g[i - 1])]
<1>4. f = [i \in 0..n |-> IF i = 0 THEN a ELSE Above(t, f[i - 1])]
  <2>. HIDE DEF a
  <2>1. PICK h : /\ DOMAIN h = 0..n /\ h[0] = a
                 /\ \A i \in 1..n : h[i] = Above(t, h[i - 1])
    BY <1>3
  <2>. HIDE DEF n
  <2>. DEFINE e == [i \in 0..n |-> h[i]]
  <2>2. \A i \in 0..n : e[i] = h[i]
    OBVIOUS
  <2>3. \A i \in 1..n : i \in 0..n /\ i - 1 \in 0..n
    BY <1>3
  <2>4. e = [i \in 0..n |-> IF i = 0 THEN a ELSE Above(t, e[i - 1])]
    <3>1. \A i \in 0..n : h[i] = IF i = 0 THEN a ELSE Above(t, e[i - 1])
      <4>. HIDE DEF e
      <4>1. \A i \in 0..n : i # 0 => i \in 1..n
        BY <1>3
      <4>. QED
        BY <2>1, <2>2, <2>3, <4>1
    <3>. QED
      BY <3>1
  <2>. HIDE DEF e
  <2>. QED
    BY <2>4
<1>5. OnTop(t, path) = f[n]
  BY DEF OnTop
<1>. HIDE DEF f
<1>6. DOMAIN f = 0..n /\ f[0] = a /\ \A i \in 1..n : f[i] = Above(t, f[i - 1])
  <2>1. n \in Nat
    OBVIOUS
  <2>. HIDE DEF n, a
  <2>2. DOMAIN f = 0..n
    BY <1>4, Zenon
  <2>3. \A i \in 0..n : f[i] = IF i = 0 THEN a ELSE Above(t, f[i - 1])
    BY <1>4, Zenon
  <2>4. 0 \in 0..n /\ \A i \in 1..n : i \in 0..n /\ i # 0
    BY <2>1
  <2>. QED
    BY <2>2, <2>3, <2>4
<1>. QED
  BY <1>5, <1>6

\* What a path lies on, mount by mount.
LEMMA ResolveMountsSteps ==
  ASSUME NEW t, NEW path, Len(t.mounts) \in Nat
  PROVE  \E g : /\ DOMAIN g = 0..Len(t.mounts) /\ g[0] = path
                /\ \A i \in 1..Len(t.mounts) : g[i] = Below(t, g[i - 1])
                /\ ResolveMounts(t, path) = g[Len(t.mounts)]
<1>. DEFINE n == Len(t.mounts)
            a == path
            S == {k \in 0..n : \E g : /\ DOMAIN g = 0..k /\ g[0] = a
                                      /\ \A i \in 1..k : g[i] = Below(t, g[i - 1])}
<1>1. 0 \in S
  <2>. DEFINE g == [i \in 0..0 |-> a]
  <2>1. DOMAIN g = 0..0 /\ g[0] = a /\ \A i \in 1..0 : g[i] = Below(t, g[i - 1])
    <3>. HIDE DEF a
    <3>. QED OBVIOUS
  <2>. HIDE DEF g, a
  <2>. QED
    BY <2>1
<1>2. ASSUME NEW k \in 1..n, k - 1 \in S
      PROVE  k \in S
  <2>. HIDE DEF a
  <2>1. PICK h : /\ DOMAIN h = 0..(k - 1) /\ h[0] = a
                 /\ \A i \in 1..(k - 1) : h[i] = Below(t, h[i - 1])
    BY <1>2
  <2>. DEFINE x == Below(t, h[k - 1])
              g == [i \in 0..k |-> IF i = k THEN x ELSE h[i]]
  <2>. HIDE DEF x
  <2>2. (\A i \in 0..(k - 1) : g[i] = h[i]) /\ g[k] = x /\ DOMAIN g = 0..k
    OBVIOUS
  <2>. HIDE DEF g
  <2>3. ASSUME NEW i \in 1..k
        PROVE  g[i] = Below(t, g[i - 1])
    <3>1. g[i - 1] = h[i - 1]
      BY <2>2
    <3>2. CASE i = k
      BY <3>1, <3>2, <2>2 DEF x
    <3>3. CASE i # k
      <4>1. i \in 1..(k - 1) /\ i \in 0..(k - 1)
        BY <3>3
      <4>. QED
        BY <3>1, <4>1, <2>1, <2>2
    <3>. QED
      BY <3>2, <3>3
  <2>4. g[0] = a
    BY <2>1, <2>2
  <2>5. k \in 0..n
    OBVIOUS
  <2>6. \E y : /\ DOMAIN y = 0..k /\ y[0] = a
               /\ \A i \in 1..k : y[i] = Below(t, y[i - 1])
    BY <2>2, <2>3, <2>4
  <2>. QED
    BY <2>5, <2>6
<1>3. n \in S
  <2>1. S \subseteq 0..n /\ n \in Nat
    OBVIOUS
  <2>. HIDE DEF S, n
  <2>2. S = 0..n
    BY <1>1, <1>2, <2>1, Inductive
  <2>. QED
    BY <2>1, <2>2
<1>. DEFINE f == CHOOSE g : g = [i \in 0..n |-> IF i = 0 THEN a ELSE Below(t, g[i - 1])]
<1>4. f = [i \in 0..n |-> IF i = 0 THEN a ELSE Below(t, f[i - 1])]
  <2>. HIDE DEF a
  <2>1. PICK h : /\ DOMAIN h = 0..n /\ h[0] = a
                 /\ \A i \in 1..n : h[i] = Below(t, h[i - 1])
    BY <1>3
  <2>. HIDE DEF n
  <2>. DEFINE e == [i \in 0..n |-> h[i]]
  <2>2. \A i \in 0..n : e[i] = h[i]
    OBVIOUS
  <2>3. \A i \in 1..n : i \in 0..n /\ i - 1 \in 0..n
    BY <1>3
  <2>4. e = [i \in 0..n |-> IF i = 0 THEN a ELSE Below(t, e[i - 1])]
    <3>1. \A i \in 0..n : h[i] = IF i = 0 THEN a ELSE Below(t, e[i - 1])
      <4>. HIDE DEF e
      <4>1. \A i \in 0..n : i # 0 => i \in 1..n
        BY <1>3
      <4>. QED
        BY <2>1, <2>2, <2>3, <4>1
    <3>. QED
      BY <3>1
  <2>. HIDE DEF e
  <2>. QED
    BY <2>4
<1>5. ResolveMounts(t, path) = f[n]
  BY DEF ResolveMounts
<1>. HIDE DEF f
<1>6. DOMAIN f = 0..n /\ f[0] = a /\ \A i \in 1..n : f[i] = Below(t, f[i - 1])
  <2>1. n \in Nat
    OBVIOUS
  <2>. HIDE DEF n, a
  <2>2. DOMAIN f = 0..n
    BY <1>4, Zenon
  <2>3. \A i \in 0..n : f[i] = IF i = 0 THEN a ELSE Below(t, f[i - 1])
    BY <1>4, Zenon
  <2>4. 0 \in 0..n /\ \A i \in 1..n : i \in 0..n /\ i # 0
    BY <2>1
  <2>. QED
    BY <2>2, <2>3, <2>4
<1>. QED
  BY <1>5, <1>6

\* A walk, step by step.
LEMMA WalkSteps ==
  ASSUME NEW t, NEW frame, WalkMax \in Nat
  PROVE  \E g : /\ DOMAIN g = 0..WalkMax /\ g[0] = [stack |-> <<frame>>, val |-> None]
                /\ \A i \in 1..WalkMax : g[i] = WalkStep(t, g[i - 1])
                /\ Walk(t, frame) = IF g[WalkMax].stack = <<>> THEN g[WalkMax].val ELSE Fail("runaway")
<1>. DEFINE n == WalkMax
            a == [stack |-> <<frame>>, val |-> None]
            S == {k \in 0..n : \E g : /\ DOMAIN g = 0..k /\ g[0] = a
                                      /\ \A i \in 1..k : g[i] = WalkStep(t, g[i - 1])}
<1>1. 0 \in S
  <2>. DEFINE g == [i \in 0..0 |-> a]
  <2>1. DOMAIN g = 0..0 /\ g[0] = a /\ \A i \in 1..0 : g[i] = WalkStep(t, g[i - 1])
    <3>. HIDE DEF a
    <3>. QED OBVIOUS
  <2>. HIDE DEF g, a
  <2>. QED
    BY <2>1
<1>2. ASSUME NEW k \in 1..n, k - 1 \in S
      PROVE  k \in S
  <2>. HIDE DEF a
  <2>1. PICK h : /\ DOMAIN h = 0..(k - 1) /\ h[0] = a
                 /\ \A i \in 1..(k - 1) : h[i] = WalkStep(t, h[i - 1])
    BY <1>2
  <2>. DEFINE x == WalkStep(t, h[k - 1])
              g == [i \in 0..k |-> IF i = k THEN x ELSE h[i]]
  <2>. HIDE DEF x
  <2>2. (\A i \in 0..(k - 1) : g[i] = h[i]) /\ g[k] = x /\ DOMAIN g = 0..k
    OBVIOUS
  <2>. HIDE DEF g
  <2>3. ASSUME NEW i \in 1..k
        PROVE  g[i] = WalkStep(t, g[i - 1])
    <3>1. g[i - 1] = h[i - 1]
      BY <2>2
    <3>2. CASE i = k
      BY <3>1, <3>2, <2>2 DEF x
    <3>3. CASE i # k
      <4>1. i \in 1..(k - 1) /\ i \in 0..(k - 1)
        BY <3>3
      <4>. QED
        BY <3>1, <4>1, <2>1, <2>2
    <3>. QED
      BY <3>2, <3>3
  <2>4. g[0] = a
    BY <2>1, <2>2
  <2>5. k \in 0..n
    OBVIOUS
  <2>6. \E y : /\ DOMAIN y = 0..k /\ y[0] = a
               /\ \A i \in 1..k : y[i] = WalkStep(t, y[i - 1])
    BY <2>2, <2>3, <2>4
  <2>. QED
    BY <2>5, <2>6
<1>3. n \in S
  <2>1. S \subseteq 0..n /\ n \in Nat
    OBVIOUS
  <2>. HIDE DEF S, n
  <2>2. S = 0..n
    BY <1>1, <1>2, <2>1, Inductive
  <2>. QED
    BY <2>1, <2>2
<1>. DEFINE f == CHOOSE g : g = [i \in 0..n |-> IF i = 0 THEN a ELSE WalkStep(t, g[i - 1])]
<1>4. f = [i \in 0..n |-> IF i = 0 THEN a ELSE WalkStep(t, f[i - 1])]
  <2>. HIDE DEF a
  <2>1. PICK h : /\ DOMAIN h = 0..n /\ h[0] = a
                 /\ \A i \in 1..n : h[i] = WalkStep(t, h[i - 1])
    BY <1>3
  <2>. HIDE DEF n
  <2>. DEFINE e == [i \in 0..n |-> h[i]]
  <2>2. \A i \in 0..n : e[i] = h[i]
    OBVIOUS
  <2>3. \A i \in 1..n : i \in 0..n /\ i - 1 \in 0..n
    BY <1>3
  <2>4. e = [i \in 0..n |-> IF i = 0 THEN a ELSE WalkStep(t, e[i - 1])]
    <3>1. \A i \in 0..n : h[i] = IF i = 0 THEN a ELSE WalkStep(t, e[i - 1])
      <4>. HIDE DEF e
      <4>1. \A i \in 0..n : i # 0 => i \in 1..n
        BY <1>3
      <4>. QED
        BY <2>1, <2>2, <2>3, <4>1
    <3>. QED
      BY <3>1
  <2>. HIDE DEF e
  <2>. QED
    BY <2>4
<1>5. Walk(t, frame) = IF f[n].stack = <<>> THEN f[n].val ELSE Fail("runaway")
  BY DEF Walk
<1>. HIDE DEF f
<1>6. DOMAIN f = 0..n /\ f[0] = a /\ \A i \in 1..n : f[i] = WalkStep(t, f[i - 1])
  <2>1. n \in Nat
    OBVIOUS
  <2>. HIDE DEF n, a
  <2>2. DOMAIN f = 0..n
    BY <1>4, Zenon
  <2>3. \A i \in 0..n : f[i] = IF i = 0 THEN a ELSE WalkStep(t, f[i - 1])
    BY <1>4, Zenon
  <2>4. 0 \in 0..n /\ \A i \in 1..n : i \in 0..n /\ i # 0
    BY <2>1
  <2>. QED
    BY <2>2, <2>3, <2>4
<1>. QED
  BY <1>5, <1>6

\* The types of what the tree is made of.
LEMMA TypedFacts ==
  ASSUME NEW t, NEW top, Space(t, top)
  PROVE  /\ Len(t.mounts) \in Nat /\ Len(t.mounts) >= 1 /\ Len(t.dentries) \in Nat /\ Len(t.inodes) \in Nat
         /\ Root \in Slots(t) /\ TmpfsRoot \in Slots(t) /\ DevtmpfsRoot \in Slots(t)
         /\ RootPath \in Good(t, top)
         /\ \A d \in Slots(t) : t.dentries[d] \in DentryType /\ t.dentries[d].inode \in 1..Len(t.inodes)
         /\ \A d \in Slots(t) : TypeOf(t, d) \in Types
         /\ \A q \in Good(t, top) : /\ q.mnt \in 1..Len(t.mounts) /\ q.dentry \in Slots(t)
                                    /\ top[q.dentry] = RootOf(t, q.mnt)
<1>1. /\ Len(t.mounts) \in Nat /\ Len(t.mounts) >= 1 /\ Len(t.dentries) \in Nat /\ Len(t.inodes) \in Nat
      /\ Len(t.dentries) >= 3
  BY DEF Space, Typed
<1>2. Root \in Slots(t) /\ TmpfsRoot \in Slots(t) /\ DevtmpfsRoot \in Slots(t)
  BY <1>1 DEF Root, TmpfsRoot, DevtmpfsRoot, Slots
<1>3. RootPath \in Good(t, top)
  BY <1>1, <1>2 DEF RootPath, Good, RootOf, Space, Rooted
<1>4. \A d \in Slots(t) : t.dentries[d] \in DentryType /\ t.dentries[d].inode \in 1..Len(t.inodes)
  <2>1. t.dentries \in Seq(DentryType)
    BY DEF Space, Typed
  <2>2. \A d \in Slots(t) : t.dentries[d] \in DentryType
    BY <2>1 DEF Slots
  <2>. QED
    BY <2>2 DEF Space, Typed
<1>5. \A d \in Slots(t) : TypeOf(t, d) \in Types
  <2>1. t.inodes \in Seq([type : Types, nlink : Nat])
    BY DEF Space, Typed
  <2>2. \A i \in 1..Len(t.inodes) : t.inodes[i].type \in Types
    <3>. DEFINE I == [type : Types, nlink : Nat]
    <3>1. t.inodes \in Seq(I)
      BY <2>1
    <3>2. \A i \in I : i.type \in Types
      OBVIOUS
    <3>. HIDE DEF I
    <3>. QED
      BY <3>1, <3>2
  <2>. QED
    BY <1>4, <2>2 DEF TypeOf
<1>6. \A q \in Good(t, top) : /\ q.mnt \in 1..Len(t.mounts) /\ q.dentry \in Slots(t)
                              /\ top[q.dentry] = RootOf(t, q.mnt)
  BY DEF Good
<1>. QED
  BY <1>1, <1>2, <1>3, <1>4, <1>5, <1>6

\* The root of a mount over a path is a good path.
LEMMA AboveGood ==
  ASSUME NEW t, NEW top, Space(t, top), NEW p \in Good(t, top)
  PROVE  /\ Above(t, p) \in Good(t, top)
         /\ Above(t, p) # p => /\ Above(t, p).mnt \in 2..Len(t.mounts)
                               /\ Above(t, p).dentry = t.mounts[Above(t, p).mnt].root
                               /\ TypeOf(t, Above(t, p).dentry) = "dir"
<1>1. CASE Over(t, p) = {}
  BY <1>1 DEF Above
<1>2. CASE Over(t, p) # {}
  <2>1. DOMAIN t.mounts = 1..Len(t.mounts) /\ Len(t.mounts) \in Nat
    BY DEF Space, Typed
  <2>2. Over(t, p) \subseteq Nat
    BY <2>1 DEF Over
  <2>3. PICK k \in Over(t, p) : \A y \in Over(t, p) : k <= y
    BY <1>2, <2>2, LeastNatural
  <2>. DEFINE m == Min(Over(t, p))
  <2>4. m \in Over(t, p)
    BY <2>3 DEF Min
  <2>5. Above(t, p) = [mnt |-> m, dentry |-> t.mounts[m].root]
    BY <1>2 DEF Above
  <2>. HIDE DEF m
  <2>6. m \in 1..Len(t.mounts) /\ t.mounts[m].mounted_on = p
    BY <2>1, <2>4 DEF Over
  <2>7. p.mnt \in 1..Len(t.mounts)
    BY TypedFacts
  <2>8. m # 1
    <3>. SUFFICES ASSUME m = 1
                  PROVE  FALSE
      OBVIOUS
    <3>1. p.mnt = 0
      BY <2>6 DEF Space, Mounted
    <3>. QED
      BY <2>1, <2>7, <3>1
  <2>9. m \in 2..Len(t.mounts)
    BY <2>1, <2>6, <2>8
  <2>10. /\ t.mounts[m].root \in Slots(t) /\ top[t.mounts[m].root] = t.mounts[m].root
         /\ TypeOf(t, t.mounts[m].root) = "dir"
    BY <2>9 DEF Space, Mounted
  <2>11. Above(t, p) \in Good(t, top)
    BY <2>5, <2>6, <2>8, <2>10 DEF Good, RootOf
  <2>. QED
    BY <2>5, <2>9, <2>10, <2>11
<1>. QED
  BY <1>1, <1>2

LEMMA OnTopGood ==
  ASSUME NEW t, NEW top, Space(t, top), NEW p \in Good(t, top)
  PROVE  /\ OnTop(t, p) \in Good(t, top)
         /\ OnTop(t, p) # p => /\ OnTop(t, p).mnt \in 2..Len(t.mounts)
                               /\ OnTop(t, p).dentry = t.mounts[OnTop(t, p).mnt].root
                               /\ TypeOf(t, OnTop(t, p).dentry) = "dir"
<1>. DEFINE n == Len(t.mounts)
            Ok(q) == /\ q \in Good(t, top)
                     /\ q # p => q.mnt \in 2..n /\ q.dentry = t.mounts[q.mnt].root /\ TypeOf(t, q.dentry) = "dir"
<1>1. n \in Nat
  BY TypedFacts
<1>2. PICK g : /\ DOMAIN g = 0..n /\ g[0] = p
               /\ \A i \in 1..n : g[i] = Above(t, g[i - 1])
               /\ OnTop(t, p) = g[n]
  BY <1>1, OnTopSteps
<1>3. \A q : Ok(q) => Ok(Above(t, q))
  BY AboveGood
<1>4. Ok(p)
  OBVIOUS
<1>. HIDE DEF n, Ok
<1>. DEFINE S == {k \in 0..n : Ok(g[k])}
<1>5. 0 \in S
  BY <1>1, <1>2, <1>4
<1>6. \A i \in 1..n : i - 1 \in S => i \in S
  BY <1>1, <1>2, <1>3
<1>7. n \in S
  <2>1. S \subseteq 0..n
    OBVIOUS
  <2>. HIDE DEF S
  <2>2. S = 0..n
    BY <1>1, <1>5, <1>6, <2>1, Inductive
  <2>. QED
    BY <1>1, <2>2
<1>. QED
  BY <1>2, <1>7 DEF Ok, n

\* resolve_mounts ends at a good path that is no root of a mount.
LEMMA ResolveMountsGood ==
  ASSUME NEW t, NEW top, Space(t, top), NEW p \in Good(t, top)
  PROVE  ResolveMounts(t, p) \in Good(t, top) /\ Settled(t, ResolveMounts(t, p))
<1>. DEFINE n == Len(t.mounts)
<1>1. n \in Nat /\ \A q \in Good(t, top) : q.mnt \in 1..n
  BY TypedFacts
<1>2. PICK g : /\ DOMAIN g = 0..n /\ g[0] = p
               /\ \A i \in 1..n : g[i] = Below(t, g[i - 1])
               /\ ResolveMounts(t, p) = g[n]
  BY <1>1, ResolveMountsSteps
<1>3. ASSUME NEW q \in Good(t, top)
      PROVE  \/ Settled(t, q) /\ Below(t, q) = q
             \/ ~Settled(t, q) /\ Below(t, q) \in Good(t, top) /\ Below(t, q).mnt < q.mnt
  <2>1. CASE Settled(t, q)
    BY <2>1 DEF Settled, Below
  <2>2. CASE ~Settled(t, q)
    <3>1. Below(t, q) = t.mounts[q.mnt].mounted_on /\ q.dentry = t.mounts[q.mnt].root
      BY <2>2 DEF Settled, Below
    <3>2. q.mnt # 1
      <4>. SUFFICES ASSUME q.mnt = 1
                    PROVE  FALSE
        OBVIOUS
      <4>1. q.dentry = TmpfsRoot /\ top[q.dentry] = Root
        BY <3>1, TypedFacts DEF Space, Mounted, RootOf
      <4>2. top[q.dentry] = TmpfsRoot
        BY <4>1 DEF Space, Rooted
      <4>. QED
        BY <4>1, <4>2 DEF TmpfsRoot, Root
    <3>3. q.mnt \in 2..Len(t.mounts)
      BY <1>1, <3>2
    <3>. QED
      BY <2>2, <3>1, <3>3 DEF Space, Mounted
  <2>. QED
    BY <2>1, <2>2
<1>. HIDE DEF n
<1>. DEFINE S == {k \in 0..n : g[k] \in Good(t, top) /\ (Settled(t, g[k]) \/ g[k].mnt <= n - k)}
<1>4. 0 \in S
  BY <1>1, <1>2
<1>5. ASSUME NEW i \in 1..n, i - 1 \in S
      PROVE  i \in S
  <2>1. g[i] = Below(t, g[i - 1]) /\ g[i - 1] \in Good(t, top) /\ g[i - 1].mnt \in 1..n
    BY <1>1, <1>2, <1>5
  <2>2. CASE Settled(t, g[i - 1])
    BY <1>3, <2>1, <2>2, <1>1
  <2>3. CASE ~Settled(t, g[i - 1])
    <3>1. g[i] \in Good(t, top) /\ g[i].mnt < g[i - 1].mnt /\ g[i - 1].mnt <= n - (i - 1)
      BY <1>3, <1>5, <2>1, <2>3
    <3>2. g[i].mnt \in 1..n
      BY <1>1, <3>1
    <3>3. g[i].mnt <= n - i
      BY <1>1, <2>1, <3>1, <3>2
    <3>. QED
      BY <3>1, <3>3, <1>1
  <2>. QED
    BY <2>2, <2>3
<1>6. n \in S
  <2>1. S \subseteq 0..n
    OBVIOUS
  <2>. HIDE DEF S
  <2>2. S = 0..n
    BY <1>1, <1>4, <1>5, <2>1, Inductive
  <2>. QED
    BY <1>1, <2>2
<1>7. g[n] \in Good(t, top) /\ g[n].mnt \in 1..n /\ (Settled(t, g[n]) \/ g[n].mnt <= n - n)
  BY <1>1, <1>6
<1>8. ~(g[n].mnt <= n - n)
  BY <1>1, <1>7
<1>. QED
  BY <1>2, <1>7, <1>8

\* ".." leads from a good path to a good path: never to the missing parent of
\* the root of a file system.
LEMMA ParentOfGood ==
  ASSUME NEW t, NEW top, Space(t, top), NEW path \in Good(t, top)
  PROVE  ParentOf(t, path) \in Good(t, top)
<1>. DEFINE p == ResolveMounts(t, path)
            up == [p EXCEPT !.dentry = t.dentries[p.dentry].parent]
<1>1. p \in Good(t, top) /\ Settled(t, p)
  BY ResolveMountsGood
<1>2. ParentOf(t, path) = ResolveMounts(t, up)
  BY DEF ParentOf
<1>. HIDE DEF p
<1>3. p.mnt \in 1..Len(t.mounts) /\ p.dentry \in Slots(t) /\ top[p.dentry] = RootOf(t, p.mnt)
  BY <1>1, TypedFacts
<1>4. t.dentries[p.dentry].parent \in Slots(t) /\ top[t.dentries[p.dentry].parent] = top[p.dentry]
  <2>1. CASE p.dentry = Root
    BY <2>1, TypedFacts DEF Space, Rooted
  <2>2. CASE p.dentry # Root
    <3>1. ~(top[p.dentry] = p.dentry)
      <4>1. top[p.dentry] = Root \/ top[p.dentry] = t.mounts[p.mnt].root
        BY <1>3 DEF RootOf
      <4>. QED
        BY <4>1, <2>2, <1>1 DEF Settled
    <3>. QED
      BY <1>3, <2>2, <3>1 DEF Space, Rooted
  <2>. QED
    BY <2>1, <2>2
<1>5. up \in Good(t, top)
  <2>1. p \in [mnt : 1..Len(t.mounts), dentry : Slots(t)]
    BY <1>1 DEF Good
  <2>2. up \in [mnt : 1..Len(t.mounts), dentry : Slots(t)] /\ up.mnt = p.mnt /\ up.dentry = t.dentries[p.dentry].parent
    BY <1>4, <2>1
  <2>. QED
    BY <1>3, <1>4, <2>2 DEF Good
<1>. HIDE DEF up
<1>. QED
  BY <1>2, <1>5, ResolveMountsGood

\* An entry of a directory is in the tree of the directory.
LEMMA ChildGood ==
  ASSUME NEW t, NEW top, Space(t, top), NEW cur \in Good(t, top), NEW n \in DOMAIN t.children[cur.dentry]
  PROVE  [cur EXCEPT !.dentry = t.children[cur.dentry][n]] \in Good(t, top)
<1>. DEFINE d == t.children[cur.dentry][n]
            q == [cur EXCEPT !.dentry = d]
<1>1. cur.mnt \in 1..Len(t.mounts) /\ cur.dentry \in Slots(t) /\ top[cur.dentry] = RootOf(t, cur.mnt)
  BY TypedFacts
<1>2. /\ n \in Names /\ d \in Slots(t)
      /\ t.dentries[d].name = n /\ t.dentries[d].parent = cur.dentry
  BY <1>1 DEF Space, Typed
<1>. HIDE DEF d
<1>3. d # Root
  BY <1>2, VfsFacts DEF Space, Rooted
<1>4. cur.dentry # 0
  BY <1>1, TypedFacts DEF Slots
<1>5. top[d] = top[cur.dentry]
  BY <1>2, <1>3, <1>4 DEF Space, Rooted
<1>6. q \in [mnt : 1..Len(t.mounts), dentry : Slots(t)] /\ q.mnt = cur.mnt /\ q.dentry = d
  BY <1>1, <1>2 DEF Good
<1>. HIDE DEF q
<1>7. q \in Good(t, top)
  BY <1>1, <1>5, <1>6 DEF Good
<1>. QED
  BY <1>7 DEF q, d

-----------------------------------------------------------------------------
(* The frames of a walk.                                                   *)

Errors == {"not_a_dir", "not_found", "symloop_max", "invalid_symlink", "runaway"}
Vals(t, top) ==
  [err : Errors \cup {"none"}] \cup [err : {"ok"}, parent : Good(t, top), target : Good(t, top)]
ResolveFrames(t, top) == [call : {"resolve"}, cur : Good(t, top), segs : Words]
ReduceFrames(t, top) == [call : {"reduce"}, parent : Good(t, top), src : Good(t, top), depth : Int]
Frames(t, top) == ResolveFrames(t, top) \cup ReduceFrames(t, top)

\* A frame of resolve() that waits for reduce() has a segment left after this one.
Waiting(f) == f.call = "resolve" => Len(f.segs) >= 2

\* What one step makes of the frame on top.
Steps(t, top, f, step) ==
  \/ \E v \in Vals(t, top) : v.err # "none" /\ step = Return(v)
  \/ \E h \in Frames(t, top) : h.call = f.call /\ step = GoOn(h)
  \/ \E h \in Frames(t, top) : Waiting(f) /\ step = Call(f, h)

\* What a call of resolve() or reduce() returns.
LEMMA ValFacts ==
  ASSUME NEW t, NEW top, NEW val \in Vals(t, top)
  PROVE  /\ val = None <=> val.err = "none"
         /\ val.err = "ok" => val.parent \in Good(t, top) /\ val.target \in Good(t, top)
         /\ val.err \in Errors \cup {"ok", "none"}
<1>1. CASE val \in [err : Errors \cup {"none"}]
  BY <1>1 DEF None, Errors
<1>2. CASE val \in [err : {"ok"}, parent : Good(t, top), target : Good(t, top)]
  BY <1>2 DEF None, Errors
<1>. QED
  BY <1>1, <1>2 DEF Vals

LEMMA ValsMade ==
  ASSUME NEW t, NEW top
  PROVE  /\ \A e \in Errors : Fail(e) \in Vals(t, top) /\ Fail(e).err = e /\ e # "none" /\ e # "ok"
         /\ \A p, q \in Good(t, top) : /\ Found(p, q) \in Vals(t, top) /\ Found(p, q).err = "ok"
                                       /\ Found(p, q).parent = p /\ Found(p, q).target = q
         /\ None \in Vals(t, top) /\ None.err = "none"
  BY DEF Vals, Fail, Found, None, Errors

LEMMA WordsFacts ==
  ASSUME NEW s \in Words
  PROVE  /\ Len(s) \in Nat
         /\ s # <<>> => Len(s) >= 1 /\ Tail(s) \in Words /\ Len(Tail(s)) = Len(s) - 1 /\ Head(s) = s[1]
         /\ s = <<>> => Len(s) = 0
         /\ s # <<>> /\ Len(s) # 1 => Len(s) >= 2
         /\ \A i \in 1..(Len(s) - 1) : Tail(s)[i] = s[i + 1]
<1>. DEFINE W == Names \cup {DotDot}
<1>1. s \in Seq(W)
  BY DEF Words
<1>. HIDE DEF W
<1>2. CASE s = <<>>
  BY <1>1, <1>2
<1>3. CASE s # <<>>
  <2>1. Len(s) \in Nat /\ Len(s) >= 1
    BY <1>1, <1>3
  <2>2. Tail(s) \in Seq(W) /\ Len(Tail(s)) = Len(s) - 1 /\ Head(s) = s[1]
    BY <1>1, <1>3
  <2>3. \A i \in 1..(Len(s) - 1) : Tail(s)[i] = s[i + 1]
    BY <1>1, <1>3
  <2>. QED
    BY <2>1, <2>2, <2>3, <1>3 DEF Words, W
<1>. QED
  BY <1>2, <1>3

\* A frame is one of resolve() or of reduce().
LEMMA FrameFacts ==
  ASSUME NEW t, NEW top, NEW f \in Frames(t, top)
  PROVE  /\ f.call = "resolve" => f \in ResolveFrames(t, top) /\ f.cur \in Good(t, top) /\ f.segs \in Words
         /\ f.call # "resolve" => /\ f \in ReduceFrames(t, top) /\ f.call = "reduce"
                                  /\ f.parent \in Good(t, top) /\ f.src \in Good(t, top)
<1>1. CASE f \in ResolveFrames(t, top)
  BY <1>1 DEF ResolveFrames
<1>2. CASE f \in ReduceFrames(t, top)
  BY <1>2 DEF ReduceFrames
<1>. QED
  BY <1>1, <1>2 DEF Frames

LEMMA EnterGood ==
  ASSUME NEW t, NEW top, Space(t, top), NEW f \in ResolveFrames(t, top), f.segs # <<>>, NEW next \in Good(t, top)
  PROVE  Steps(t, top, f, Enter(t, f, next))
<1>1. CASE TypeOf(t, next.dentry) # "dir"
  <2>1. Fail("not_a_dir") \in Vals(t, top) /\ Fail("not_a_dir").err # "none"
    BY ValsMade DEF Errors
  <2>2. Enter(t, f, next) = Return(Fail("not_a_dir"))
    BY <1>1 DEF Enter
  <2>. QED
    BY <2>1, <2>2 DEF Steps
<1>2. CASE TypeOf(t, next.dentry) = "dir"
  <2>. DEFINE h == [f EXCEPT !.cur = next, !.segs = Tail(@)]
  <2>1. f.segs \in Words
    BY DEF ResolveFrames
  <2>2. Tail(f.segs) \in Words
    BY <2>1, WordsFacts
  <2>3. h \in ResolveFrames(t, top) /\ h.call = f.call
    BY <2>2 DEF ResolveFrames
  <2>4. Enter(t, f, next) = GoOn(h)
    BY <1>2 DEF Enter
  <2>. HIDE DEF h
  <2>. QED
    BY <2>3, <2>4 DEF Steps, Frames
<1>. QED
  BY <1>1, <1>2

\* A segment of resolve() leads from paths to paths.
LEMMA ResolveStepGood ==
  ASSUME NEW t, NEW top, Space(t, top), NEW f \in ResolveFrames(t, top), NEW val \in Vals(t, top),
         val.err # "none" => Waiting(f)
  PROVE  Steps(t, top, f, ResolveStep(t, f, val))
<1>. DEFINE segment == Head(f.segs)
            last == Len(f.segs) = 1
            up == ParentOf(t, f.cur)
            next == OnTop(t, [f.cur EXCEPT !.dentry = t.children[f.cur.dentry][segment]])
            S == ResolveStep(t, f, val)
<1>1. f.cur \in Good(t, top) /\ f.segs \in Words /\ f.call = "resolve"
  BY DEF ResolveFrames
<1>2. /\ val = None <=> val.err = "none"
      /\ val.err = "ok" => val.parent \in Good(t, top) /\ val.target \in Good(t, top)
      /\ val.err \in Errors \cup {"ok", "none"}
  BY ValFacts
<1>3. /\ Len(f.segs) \in Nat
      /\ f.segs # <<>> => Len(f.segs) >= 1 /\ Tail(f.segs) \in Words /\ Len(Tail(f.segs)) = Len(f.segs) - 1
      /\ f.segs = <<>> => Len(f.segs) = 0
  BY <1>1, WordsFacts
<1>4. CASE val.err = "ok"
  <2>1. S = Enter(t, f, val.target)
    BY <1>2, <1>4 DEF ResolveStep
  <2>2. f.segs # <<>>
    BY <1>1, <1>3, <1>4 DEF Waiting
  <2>. HIDE DEF S
  <2>. QED
    BY <1>2, <1>4, <2>1, <2>2, EnterGood DEF S
<1>5. CASE val.err \notin {"ok", "none"}
  <2>1. S = Return(val)
    BY <1>5, <1>2 DEF ResolveStep
  <2>. HIDE DEF S
  <2>. QED
    BY <1>5, <2>1 DEF Steps, S
<1>6. CASE val = None /\ f.segs = <<>>
  <2>1. S = Return(Found(f.cur, f.cur))
    BY <1>6, <1>2 DEF ResolveStep
  <2>2. Found(f.cur, f.cur) \in Vals(t, top) /\ Found(f.cur, f.cur).err = "ok"
    BY <1>1, ValsMade
  <2>. HIDE DEF S
  <2>. QED
    BY <2>1, <2>2 DEF Steps, S
<1>7. CASE val = None /\ f.segs # <<>> /\ segment = DotDot
  <2>1. up \in Good(t, top) /\ ParentOf(t, up) \in Good(t, top)
    BY <1>1, ParentOfGood
  <2>2. S = IF last THEN Return(Found(ParentOf(t, up), up)) ELSE GoOn([f EXCEPT !.cur = up, !.segs = Tail(@)])
    BY <1>7, <1>2 DEF ResolveStep
  <2>. HIDE DEF up
  <2>3. Found(ParentOf(t, up), up) \in Vals(t, top) /\ Found(ParentOf(t, up), up).err = "ok"
    BY <2>1, ValsMade
  <2>. DEFINE h == [f EXCEPT !.cur = up, !.segs = Tail(@)]
  <2>4. h \in ResolveFrames(t, top) /\ h.call = f.call
    BY <1>3, <1>7, <2>1 DEF ResolveFrames
  <2>5. S = IF last THEN Return(Found(ParentOf(t, up), up)) ELSE GoOn(h)
    BY <2>2
  <2>. HIDE DEF h, S
  <2>. QED
    BY <2>3, <2>4, <2>5 DEF Steps, Frames, S
<1>8. CASE val = None /\ f.segs # <<>> /\ segment # DotDot
  <2>1. S = IF segment \notin DOMAIN t.children[f.cur.dentry] THEN Return(Fail("not_found"))
            ELSE IF last THEN Return(Found(f.cur, next))
            ELSE IF TypeOf(t, next.dentry) = "lnk" THEN Call(f, ReduceFrame(f.cur, next))
            ELSE Enter(t, f, next)
    BY <1>8, <1>2 DEF ResolveStep
  <2>2. CASE segment \notin DOMAIN t.children[f.cur.dentry]
    <3>1. Fail("not_found") \in Vals(t, top) /\ Fail("not_found").err # "none"
      BY ValsMade DEF Errors
    <3>2. S = Return(Fail("not_found"))
      BY <2>1, <2>2
    <3>. HIDE DEF S
    <3>. QED
      BY <3>1, <3>2 DEF Steps, S
  <2>3. CASE segment \in DOMAIN t.children[f.cur.dentry]
    <3>1. next \in Good(t, top)
      BY <1>1, <2>3, ChildGood, OnTopGood
    <3>. HIDE DEF S, next
    <3>2. CASE last
      <4>1. Found(f.cur, next) \in Vals(t, top) /\ Found(f.cur, next).err = "ok"
        BY <1>1, <3>1, ValsMade
      <4>2. S = Return(Found(f.cur, next))
        BY <2>1, <2>3, <3>2
      <4>. QED
        BY <4>1, <4>2 DEF Steps, S
    <3>3. CASE ~last /\ TypeOf(t, next.dentry) = "lnk"
      <4>1. ReduceFrame(f.cur, next) \in ReduceFrames(t, top)
        BY <1>1, <3>1, VfsFacts DEF ReduceFrame, ReduceFrames
      <4>4. Len(f.segs) >= 2
        BY <1>1, <1>8, <3>3, WordsFacts
      <4>2. Waiting(f)
        BY <4>4 DEF Waiting
      <4>3. S = Call(f, ReduceFrame(f.cur, next))
        BY <2>1, <2>3, <3>3
      <4>. QED
        BY <4>1, <4>2, <4>3 DEF Steps, Frames, S
    <3>4. CASE ~last /\ TypeOf(t, next.dentry) # "lnk"
      <4>1. S = Enter(t, f, next)
        BY <2>1, <2>3, <3>4
      <4>. QED
        BY <1>8, <3>1, <4>1, EnterGood DEF S
    <3>. QED
      BY <3>2, <3>3, <3>4
  <2>. QED
    BY <2>2, <2>3
<1>. QED
  BY <1>2, <1>4, <1>5, <1>6, <1>7, <1>8

\* So does a round of reduce().
LEMMA ReduceStepGood ==
  ASSUME NEW t, NEW top, Space(t, top), NEW f \in ReduceFrames(t, top), NEW val \in Vals(t, top)
  PROVE  Steps(t, top, f, ReduceStep(t, f, val))
<1>. DEFINE S == ReduceStep(t, f, val)
<1>1. f.parent \in Good(t, top) /\ f.src \in Good(t, top) /\ f.call = "reduce" /\ f.depth \in Int
  BY DEF ReduceFrames
<1>2. /\ val = None <=> val.err = "none"
      /\ val.err = "ok" => val.parent \in Good(t, top) /\ val.target \in Good(t, top)
      /\ val.err \in Errors \cup {"ok", "none"}
  BY ValFacts
<1>3. /\ \A e \in Errors : Fail(e) \in Vals(t, top) /\ Fail(e).err # "none"
      /\ "symloop_max" \in Errors /\ "invalid_symlink" \in Errors
  BY ValsMade DEF Errors
<1>4. CASE val = None /\ ~IsSymlink(t, f.src)
  <2>1. S = Return(Found(f.parent, f.src))
    BY <1>2, <1>4 DEF ReduceStep
  <2>2. Found(f.parent, f.src) \in Vals(t, top) /\ Found(f.parent, f.src).err = "ok"
    BY <1>1, ValsMade
  <2>. HIDE DEF S
  <2>. QED
    BY <2>1, <2>2 DEF Steps, S
<1>5. CASE val = None /\ IsSymlink(t, f.src)
  <2>. DEFINE h == ResolveFrame(f.parent, t.dentries[f.src.dentry].symlinked_to)
  <2>1. S = IF f.depth = 0 THEN Return(Fail("symloop_max")) ELSE Call(f, h)
    BY <1>2, <1>5 DEF ReduceStep
  <2>2. t.dentries[f.src.dentry].symlinked_to \in [abs : BOOLEAN, segs : Words]
    BY <1>1, TypedFacts DEF DentryType
  <2>3. h \in ResolveFrames(t, top)
    BY <1>1, <2>2, TypedFacts DEF ResolveFrame, ResolveFrames
  <2>4. Waiting(f)
    BY <1>1 DEF Waiting
  <2>. HIDE DEF S, h
  <2>. QED
    BY <1>3, <2>1, <2>3, <2>4 DEF Steps, Frames, S
<1>6. CASE val.err = "runaway"
  <2>1. S = Return(val)
    BY <1>2, <1>6 DEF ReduceStep
  <2>. HIDE DEF S
  <2>. QED
    BY <1>6, <2>1 DEF Steps, S
<1>7. CASE val # None /\ val.err # "runaway"
  <2>. DEFINE h == [f EXCEPT !.parent = val.parent, !.src = val.target, !.depth = @ - 1]
  <2>1. S = IF val.err # "ok" \/ val.target.dentry = f.src.dentry THEN Return(Fail("invalid_symlink")) ELSE GoOn(h)
    BY <1>7 DEF ReduceStep
  <2>2. val.err = "ok" => h \in ReduceFrames(t, top) /\ h.call = f.call
    <3>1. PICK k \in Int : k = f.depth - 1
      BY <1>1
    <3>2. h = [f EXCEPT !.parent = val.parent, !.src = val.target, !.depth = k]
      BY <3>1
    <3>. QED
      BY <1>1, <1>2, <3>2 DEF ReduceFrames
  <2>. HIDE DEF S, h
  <2>. QED
    BY <1>3, <2>1, <2>2 DEF Steps, Frames, S
<1>. QED
  BY <1>4, <1>5, <1>6, <1>7

LEMMA FrameStepGood ==
  ASSUME NEW t, NEW top, Space(t, top), NEW f \in Frames(t, top), NEW val \in Vals(t, top),
         val.err # "none" => Waiting(f)
  PROVE  Steps(t, top, f, FrameStep(t, f, val))
<1>1. CASE f.call = "resolve"
  BY <1>1, FrameFacts, ResolveStepGood DEF FrameStep
<1>2. CASE f.call # "resolve"
  BY <1>2, FrameFacts, ReduceStepGood DEF FrameStep
<1>. QED
  BY <1>1, <1>2

-----------------------------------------------------------------------------
(* Walks from the root.  The frame at the bottom is that of the path that  *)
(* is resolved: it stands in a directory, and the rest of its segments     *)
(* ends as the path does.                                                  *)

Bottom(t, top, s0, f) ==
  /\ f \in ResolveFrames(t, top) /\ TypeOf(t, f.cur.dentry) = "dir"
  /\ \A i \in 1..Len(f.segs) : f.segs[i] \in Names
  /\ IF s0 = <<>> THEN f.segs = <<>> ELSE f.segs # <<>> /\ f.segs[Len(f.segs)] = s0[Len(s0)]

\* What a path leads to: an entry of the directory it leads through, or what is
\* mounted on it.
Ended(t, s0, v) ==
  s0 # <<>> => LET b == s0[Len(s0)]
               IN  /\ TypeOf(t, v.parent.dentry) = "dir"
                   /\ b \in DOMAIN t.children[v.parent.dentry]
                   /\ v.target = OnTop(t, [v.parent EXCEPT !.dentry = t.children[v.parent.dentry][b]])

\* The outermost resolve() goes on in a directory, or fails.
LEMMA BottomEnters ==
  ASSUME NEW t, NEW top, Space(t, top), NEW s0, NEW f, Bottom(t, top, s0, f), Len(f.segs) >= 2,
         NEW next \in Good(t, top)
  PROVE  \/ Enter(t, f, next) = Return(Fail("not_a_dir"))
         \/ \E h : Bottom(t, top, s0, h) /\ Enter(t, f, next) = GoOn(h)
<1>1. CASE TypeOf(t, next.dentry) # "dir"
  BY <1>1 DEF Enter
<1>2. CASE TypeOf(t, next.dentry) = "dir"
  <2>. DEFINE h == [f EXCEPT !.cur = next, !.segs = Tail(@)]
              n == Len(f.segs)
  <2>1. f \in ResolveFrames(t, top) /\ f.segs \in Words
    BY DEF Bottom, ResolveFrames
  <2>2. /\ n \in Nat /\ n >= 2 /\ f.segs # <<>> /\ Tail(f.segs) \in Words /\ Len(Tail(f.segs)) = n - 1
        /\ \A i \in 1..(n - 1) : Tail(f.segs)[i] = f.segs[i + 1]
    BY <2>1, WordsFacts
  <2>3. h \in ResolveFrames(t, top) /\ h.cur = next /\ h.segs = Tail(f.segs)
    BY <2>1, <2>2 DEF ResolveFrames
  <2>4. Enter(t, f, next) = GoOn(h)
    BY <1>2 DEF Enter
  <2>. HIDE DEF h
  <2>5. \A i \in 1..n : f.segs[i] \in Names
    BY DEF Bottom
  <2>6. s0 # <<>> /\ f.segs[n] = s0[Len(s0)]
    BY <2>2 DEF Bottom
  <2>. HIDE DEF n
  <2>7. Len(h.segs) = n - 1 /\ h.segs # <<>>
    <3>1. h.segs \in Words /\ Len(h.segs) = n - 1
      BY <2>2, <2>3
    <3>2. h.segs = <<>> => Len(h.segs) = 0
      BY <3>1, WordsFacts
    <3>. QED
      BY <2>2, <3>1, <3>2
  <2>8. \A i \in 1..(n - 1) : h.segs[i] \in Names
    BY <2>2, <2>3, <2>5
  <2>9. h.segs[n - 1] = f.segs[n]
    <3>1. n - 1 \in 1..(n - 1) /\ (n - 1) + 1 = n
      BY <2>2
    <3>. QED
      BY <2>2, <2>3, <3>1
  <2>10. Bottom(t, top, s0, h)
    BY <1>2, <2>3, <2>6, <2>7, <2>8, <2>9 DEF Bottom
  <2>. QED
    BY <2>4, <2>10
<1>. QED
  BY <1>1, <1>2

\* What one step makes of the frame at the bottom.
LEMMA BottomStep ==
  ASSUME NEW t, NEW top, Space(t, top), NEW s0, NEW f, Bottom(t, top, s0, f), NEW val \in Vals(t, top),
         val.err # "none" => Waiting(f)
  PROVE  \/ \E v \in Vals(t, top) : /\ v.err # "none" /\ FrameStep(t, f, val) = Return(v)
                                    /\ v.err = "ok" => Ended(t, s0, v)
         \/ \E h : Bottom(t, top, s0, h) /\ FrameStep(t, f, val) = GoOn(h)
         \/ \E h \in Frames(t, top) : Waiting(f) /\ FrameStep(t, f, val) = Call(f, h)
<1>. DEFINE S == FrameStep(t, f, val)
            segment == Head(f.segs)
            next == OnTop(t, [f.cur EXCEPT !.dentry = t.children[f.cur.dentry][segment]])
<1>1. f \in ResolveFrames(t, top) /\ f.call = "resolve" /\ f.cur \in Good(t, top) /\ f.segs \in Words
  BY DEF Bottom, ResolveFrames
<1>2. /\ val = None <=> val.err = "none"
      /\ val.err = "ok" => val.parent \in Good(t, top) /\ val.target \in Good(t, top)
      /\ val.err \in Errors \cup {"ok", "none"}
  BY ValFacts
<1>3. /\ Len(f.segs) \in Nat /\ f.segs = <<>> => Len(f.segs) = 0
      /\ f.segs # <<>> => Len(f.segs) >= 1 /\ segment = f.segs[1]
  BY <1>1, WordsFacts
<1>4. S = ResolveStep(t, f, val)
  BY <1>1 DEF FrameStep
<1>. HIDE DEF S
<1>11. Fail("not_a_dir") \in Vals(t, top) /\ Fail("not_a_dir").err = "not_a_dir"
       /\ Fail("not_found") \in Vals(t, top) /\ Fail("not_found").err = "not_found"
  BY ValsMade DEF Errors
<1>5. CASE val.err = "ok"
  <2>1. S = Enter(t, f, val.target)
    BY <1>2, <1>4, <1>5 DEF ResolveStep
  <2>2. Len(f.segs) >= 2
    BY <1>1, <1>5 DEF Waiting
  <2>4. PICK next0 \in Good(t, top) : next0 = val.target
    BY <1>2, <1>5
  <2>3. \/ Enter(t, f, next0) = Return(Fail("not_a_dir"))
        \/ \E h : Bottom(t, top, s0, h) /\ Enter(t, f, next0) = GoOn(h)
    BY <2>2, BottomEnters
  <2>. QED
    BY <1>11, <2>1, <2>3, <2>4 DEF S
<1>6. CASE val.err \notin {"ok", "none"}
  <2>1. S = Return(val)
    BY <1>2, <1>4, <1>6 DEF ResolveStep
  <2>. QED
    BY <1>6, <2>1 DEF S
<1>7. CASE val = None /\ f.segs = <<>>
  <2>1. S = Return(Found(f.cur, f.cur))
    BY <1>2, <1>4, <1>7 DEF ResolveStep
  <2>2. Found(f.cur, f.cur) \in Vals(t, top) /\ Found(f.cur, f.cur).err = "ok"
    BY <1>1, ValsMade
  <2>3. s0 = <<>>
    BY <1>7 DEF Bottom
  <2>4. Ended(t, s0, Found(f.cur, f.cur))
    BY <2>3 DEF Ended
  <2>. QED
    BY <2>1, <2>2, <2>4 DEF S
<1>8. CASE val = None /\ f.segs # <<>>
  <2>1. segment # DotDot
    <3>1. 1 \in 1..Len(f.segs)
      BY <1>3, <1>8
    <3>2. segment \in Names
      BY <1>3, <1>8, <3>1 DEF Bottom
    <3>. QED
      BY <3>2, VfsFacts
  <2>2. S = IF segment \notin DOMAIN t.children[f.cur.dentry] THEN Return(Fail("not_found"))
            ELSE IF Len(f.segs) = 1 THEN Return(Found(f.cur, next))
            ELSE IF TypeOf(t, next.dentry) = "lnk" THEN Call(f, ReduceFrame(f.cur, next))
            ELSE Enter(t, f, next)
    BY <1>2, <1>4, <1>8, <2>1 DEF ResolveStep
  <2>3. CASE segment \notin DOMAIN t.children[f.cur.dentry]
    <3>1. S = Return(Fail("not_found"))
      BY <2>2, <2>3
    <3>. QED
      BY <1>11, <3>1 DEF S
  <2>4. CASE segment \in DOMAIN t.children[f.cur.dentry]
    <3>1. next \in Good(t, top)
      BY <1>1, <2>4, ChildGood, OnTopGood
    <3>2. CASE Len(f.segs) = 1
      <4>. DEFINE v == Found(f.cur, next)
      <4>1. v \in Vals(t, top) /\ v.err = "ok" /\ v.parent = f.cur /\ v.target = next
        BY <1>1, <3>1, ValsMade
      <4>2. S = Return(v)
        BY <2>2, <2>4, <3>2
      <4>. HIDE DEF v
      <4>3. s0[Len(s0)] = segment /\ TypeOf(t, f.cur.dentry) = "dir"
        BY <1>3, <1>8, <3>2 DEF Bottom
      <4>4. Ended(t, s0, v)
        BY <2>4, <4>1, <4>3 DEF Ended
      <4>. QED
        BY <4>1, <4>2, <4>4 DEF S
    <3>3. CASE Len(f.segs) # 1
      <4>1. Len(f.segs) >= 2
        BY <1>1, <1>8, <3>3, WordsFacts
      <4>. HIDE DEF next
      <4>2. CASE TypeOf(t, next.dentry) = "lnk"
        <5>1. ReduceFrame(f.cur, next) \in ReduceFrames(t, top)
          BY <1>1, <3>1, VfsFacts DEF ReduceFrame, ReduceFrames
        <5>2. Waiting(f)
          BY <4>1 DEF Waiting
        <5>3. S = Call(f, ReduceFrame(f.cur, next))
          BY <2>2, <2>4, <3>3, <4>2
        <5>. QED
          BY <5>1, <5>2, <5>3 DEF Frames, S
      <4>3. CASE TypeOf(t, next.dentry) # "lnk"
        <5>1. S = Enter(t, f, next)
          BY <2>2, <2>4, <3>3, <4>3
        <5>2. \/ Enter(t, f, next) = Return(Fail("not_a_dir"))
              \/ \E h : Bottom(t, top, s0, h) /\ Enter(t, f, next) = GoOn(h)
          BY <3>1, <4>1, BottomEnters
        <5>. QED
          BY <1>11, <5>1, <5>2 DEF S
      <4>. QED
        BY <4>2, <4>3
    <3>. QED
      BY <3>2, <3>3
  <2>. QED
    BY <2>3, <2>4
<1>. QED
  BY <1>2, <1>5, <1>6, <1>7, <1>8

\* The stack after a step.
StackLaws(F, s, n) ==
  /\ n = Len(s) /\ n \in Nat /\ n >= 1 /\ Last(s) = s[n] /\ s[n] \in F
  /\ Front(s) \o <<>> \in Seq(F) /\ Len(Front(s) \o <<>>) = n - 1
  /\ \A i \in 1..(n - 1) : (Front(s) \o <<>>)[i] = s[i]
  /\ \A h \in F : /\ Front(s) \o <<h>> \in Seq(F) /\ Len(Front(s) \o <<h>>) = n
                  /\ (Front(s) \o <<h>>)[n] = h
                  /\ \A i \in 1..(n - 1) : (Front(s) \o <<h>>)[i] = s[i]
  /\ \A f, h \in F : /\ Front(s) \o <<f, h>> \in Seq(F) /\ Len(Front(s) \o <<f, h>>) = n + 1
                     /\ (Front(s) \o <<f, h>>)[n] = f /\ (Front(s) \o <<f, h>>)[n + 1] = h
                     /\ \A i \in 1..(n - 1) : (Front(s) \o <<f, h>>)[i] = s[i]

\* The stack after a step.
LEMMA StackAfter ==
  ASSUME NEW F, NEW s \in Seq(F), s # <<>>
  PROVE  StackLaws(F, s, Len(s))
<1>. DEFINE fr == Front(s)
<1>1. Len(s) \in Nat /\ Len(s) >= 1 /\ Last(s) = s[Len(s)] /\ s[Len(s)] \in F
  BY DEF Last
<1>2. fr \in Seq(F) /\ Len(fr) = Len(s) - 1 /\ \A i \in 1..(Len(s) - 1) : fr[i] = s[i]
  <2>. DEFINE n == Len(s) - 1
  <2>1. n \in Int /\ 1 \in Int /\ \A i \in 1..n : s[i] \in F
    BY <1>1
  <2>2. fr = SubSeq(s, 1, n)
    BY DEF Front
  <2>3. n >= 0 /\ n - 1 + 1 = n
    BY <1>1
  <2>. HIDE DEF n, fr
  <2>4. /\ SubSeq(s, 1, n) \in Seq(F)
        /\ Len(SubSeq(s, 1, n)) = IF 1 <= n THEN n - 1 + 1 ELSE 0
        /\ \A i \in 1..(n - 1 + 1) : SubSeq(s, 1, n)[i] = s[1 + i - 1]
    BY <2>1, SubSeqProperties
  <2>5. Len(fr) = n
    BY <2>1, <2>2, <2>3, <2>4
  <2>6. \A i \in 1..n : fr[i] = s[i]
    <3>1. \A i \in 1..n : 1 + i - 1 = i
      BY <2>1
    <3>. QED
      BY <2>2, <2>3, <2>4, <3>1
  <2>. QED
    BY <2>2, <2>4, <2>5, <2>6 DEF n
<1>. HIDE DEF fr
<1>3. /\ fr \o <<>> \in Seq(F) /\ Len(fr \o <<>>) = Len(s) - 1
      /\ \A i \in 1..(Len(s) - 1) : (fr \o <<>>)[i] = s[i]
  BY <1>1, <1>2
<1>4. ASSUME NEW h \in F
      PROVE  /\ fr \o <<h>> \in Seq(F) /\ Len(fr \o <<h>>) = Len(s)
             /\ (fr \o <<h>>)[Len(s)] = h
             /\ \A i \in 1..(Len(s) - 1) : (fr \o <<h>>)[i] = s[i]
  BY <1>1, <1>2
<1>5. ASSUME NEW f \in F, NEW h \in F
      PROVE  /\ fr \o <<f, h>> \in Seq(F) /\ Len(fr \o <<f, h>>) = Len(s) + 1
             /\ (fr \o <<f, h>>)[Len(s)] = f /\ (fr \o <<f, h>>)[Len(s) + 1] = h
             /\ \A i \in 1..(Len(s) - 1) : (fr \o <<f, h>>)[i] = s[i]
  BY <1>1, <1>2
<1>. QED
  BY <1>1, <1>3, <1>4, <1>5 DEF fr, StackLaws

WalkOK(t, top, s0, w) ==
  /\ w.stack \in Seq(Frames(t, top)) /\ w.val \in Vals(t, top)
  /\ \A i \in 1..Len(w.stack) : i < Len(w.stack) \/ w.val.err # "none" => Waiting(w.stack[i])
  /\ w.stack # <<>> => Bottom(t, top, s0, w.stack[1])
  /\ w.stack = <<>> /\ w.val.err = "ok" => Ended(t, s0, w.val)

\* A step of a walk keeps all its frames good.
LEMMA WalkStepGood ==
  ASSUME NEW t, NEW top, Space(t, top), NEW s0, NEW w, WalkOK(t, top, s0, w)
  PROVE  WalkOK(t, top, s0, WalkStep(t, w))
<1>. DEFINE F == Frames(t, top)
            s == w.stack
            n == Len(s)
            x == WalkStep(t, w)
<1>1. s \in Seq(F) /\ w.val \in Vals(t, top) /\ n \in Nat
  BY DEF WalkOK
<1>2. CASE s = <<>>
  <2>1. x = w
    BY <1>2 DEF WalkStep
  <2>. QED
    BY <2>1
<1>3. CASE s # <<>> /\ n > StackMax
  <2>1. x = [stack |-> <<>>, val |-> Fail("runaway")]
    BY <1>3 DEF WalkStep
  <2>2. Fail("runaway") \in Vals(t, top) /\ Fail("runaway").err # "ok"
    BY ValsMade DEF Errors
  <2>3. x.stack = <<>> /\ x.val = Fail("runaway") /\ <<>> \in Seq(F) /\ Len(<<>>) = 0
    BY <2>1
  <2>. HIDE DEF x, F
  <2>. QED
    BY <2>2, <2>3 DEF WalkOK, F, x
<1>4. CASE s # <<>> /\ ~(n > StackMax)
  <2>. DEFINE f == s[n]
              step == FrameStep(t, f, w.val)
              fr == Front(s)
  <2>1. x.stack = fr \o step.frames /\ x.val = step.val
    BY <1>4 DEF WalkStep, Last
  <2>2. /\ n >= 1 /\ f \in F
        /\ fr \o <<>> \in Seq(F) /\ Len(fr \o <<>>) = n - 1
        /\ \A i \in 1..(n - 1) : (fr \o <<>>)[i] = s[i]
        /\ \A h \in F : /\ fr \o <<h>> \in Seq(F) /\ Len(fr \o <<h>>) = n /\ (fr \o <<h>>)[n] = h
                        /\ \A i \in 1..(n - 1) : (fr \o <<h>>)[i] = s[i]
        /\ \A g, h \in F : /\ fr \o <<g, h>> \in Seq(F) /\ Len(fr \o <<g, h>>) = n + 1
                           /\ (fr \o <<g, h>>)[n] = g /\ (fr \o <<g, h>>)[n + 1] = h
                           /\ \A i \in 1..(n - 1) : (fr \o <<g, h>>)[i] = s[i]
    <3>1. s \in Seq(F) /\ s # <<>>
      BY <1>1, <1>4
    <3>. HIDE DEF F, s
    <3>2. StackLaws(F, s, n)
      BY <3>1, StackAfter
    <3>. QED
      BY <3>2, Zenon DEF StackLaws
  <2>3. /\ \A i \in 1..(n - 1) : Waiting(s[i])
        /\ w.val.err # "none" => Waiting(f)
        /\ Bottom(t, top, s0, s[1])
    <3>1. n \in 1..n /\ \A i \in 1..(n - 1) : i \in 1..n /\ i < n
      BY <1>1, <2>2
    <3>. QED
      BY <1>4, <3>1 DEF WalkOK
  <2>. HIDE DEF F, s, n, f, step, fr, x
  <2>4. \/ \E v \in Vals(t, top) : v.err # "none" /\ step = Return(v) /\ (n = 1 /\ v.err = "ok" => Ended(t, s0, v))
        \/ \E h \in F : step = GoOn(h) /\ (n = 1 => Bottom(t, top, s0, h))
        \/ \E h \in F : Waiting(f) /\ step = Call(f, h)
    <3>1. CASE n = 1
      <4>1. Bottom(t, top, s0, f)
        BY <2>3, <3>1 DEF f
      <4>2. \/ \E v \in Vals(t, top) : /\ v.err # "none" /\ FrameStep(t, f, w.val) = Return(v)
                                       /\ v.err = "ok" => Ended(t, s0, v)
            \/ \E h : Bottom(t, top, s0, h) /\ FrameStep(t, f, w.val) = GoOn(h)
            \/ \E h \in Frames(t, top) : Waiting(f) /\ FrameStep(t, f, w.val) = Call(f, h)
        BY <1>1, <2>3, <4>1, BottomStep
      <4>3. \A h : Bottom(t, top, s0, h) => h \in F
        BY DEF Bottom, F, Frames
      <4>. QED
        BY <4>2, <4>3 DEF step, F
    <3>2. CASE n # 1
      <4>1. Steps(t, top, f, FrameStep(t, f, w.val))
        BY <1>1, <2>2, <2>3, FrameStepGood DEF F
      <4>. QED
        BY <3>2, <4>1 DEF Steps, step, F
    <3>. QED
      BY <3>1, <3>2
  <2>5. CASE \E v \in Vals(t, top) : v.err # "none" /\ step = Return(v) /\ (n = 1 /\ v.err = "ok" => Ended(t, s0, v))
    <3>1. PICK v \in Vals(t, top) : v.err # "none" /\ step = Return(v) /\ (n = 1 /\ v.err = "ok" => Ended(t, s0, v))
      BY <2>5
    <3>2. step.frames = <<>> /\ step.val = v
      BY <3>1 DEF Return
    <3>3. PICK st : st = fr \o <<>>
      OBVIOUS
    <3>4. /\ x.stack = st /\ x.val = v /\ st \in Seq(F) /\ Len(st) = n - 1
          /\ \A i \in 1..(n - 1) : st[i] = s[i]
      BY <2>1, <2>2, <3>2, <3>3
    <3>5. \A i \in 1..Len(st) : Waiting(st[i])
      BY <2>3, <3>4
    <3>6. st # <<>> => n # 1 /\ Bottom(t, top, s0, st[1])
      <4>1. st # <<>> => Len(st) >= 1
        BY <3>4
      <4>2. st # <<>> => 1 \in 1..(n - 1)
        BY <1>1, <3>4, <4>1
      <4>. QED
        BY <1>1, <2>3, <3>4, <4>1, <4>2
    <3>7. st = <<>> => n = 1
      <4>1. st = <<>> => Len(st) = 0
        OBVIOUS
      <4>. QED
        BY <1>1, <3>4, <4>1
    <3>. QED
      BY <3>1, <3>4, <3>5, <3>6, <3>7 DEF WalkOK, F, x
  <2>6. CASE \E h \in F : step = GoOn(h) /\ (n = 1 => Bottom(t, top, s0, h))
    <3>1. PICK h \in F : step = GoOn(h) /\ (n = 1 => Bottom(t, top, s0, h))
      BY <2>6
    <3>2. step.frames = <<h>> /\ step.val = None
      BY <3>1 DEF GoOn
    <3>3. PICK st : st = fr \o <<h>>
      OBVIOUS
    <3>4. /\ x.stack = st /\ x.val = None /\ st \in Seq(F) /\ Len(st) = n /\ st[n] = h
          /\ \A i \in 1..(n - 1) : st[i] = s[i]
      BY <2>1, <2>2, <3>2, <3>3
    <3>5. None \in Vals(t, top) /\ None.err = "none"
      BY ValsMade
    <3>6. \A i \in 1..Len(st) : i < Len(st) => Waiting(st[i])
      <4>1. \A i \in 1..n : i < n => i \in 1..(n - 1)
        BY <1>1
      <4>. QED
        BY <2>3, <3>4, <4>1
    <3>7. Bottom(t, top, s0, st[1])
      <4>1. n # 1 => 1 \in 1..(n - 1)
        BY <1>1, <2>2
      <4>. QED
        BY <2>3, <3>1, <3>4, <4>1
    <3>8. st # <<>>
      <4>1. st = <<>> => Len(st) = 0
        OBVIOUS
      <4>. QED
        BY <1>1, <2>2, <3>4, <4>1
    <3>. QED
      BY <3>4, <3>5, <3>6, <3>7, <3>8 DEF WalkOK, F, x
  <2>7. CASE \E h \in F : Waiting(f) /\ step = Call(f, h)
    <3>1. PICK h \in F : Waiting(f) /\ step = Call(f, h)
      BY <2>7
    <3>2. step.frames = <<f, h>> /\ step.val = None
      BY <3>1 DEF Call
    <3>3. PICK st : st = fr \o <<f, h>>
      OBVIOUS
    <3>9. x.stack = st /\ x.val = None
      BY <2>1, <3>2, <3>3, Zenon
    <3>10. f \in F /\ h \in F
      BY <2>2
    <3>11. /\ fr \o <<f, h>> \in Seq(F) /\ Len(fr \o <<f, h>>) = n + 1 /\ (fr \o <<f, h>>)[n] = f
           /\ \A i \in 1..(n - 1) : (fr \o <<f, h>>)[i] = s[i]
      BY <2>2, <3>10, Zenon
    <3>4. /\ x.stack = st /\ x.val = None /\ st \in Seq(F) /\ Len(st) = n + 1 /\ st[n] = f
          /\ \A i \in 1..(n - 1) : st[i] = s[i]
      BY <3>3, <3>9, <3>11, Zenon
    <3>5. None \in Vals(t, top) /\ None.err = "none"
      BY ValsMade
    <3>6. \A i \in 1..Len(st) : i < Len(st) => Waiting(st[i])
      <4>1. \A i \in 1..(n + 1) : i < n + 1 => i = n \/ i \in 1..(n - 1)
        BY <1>1
      <4>. QED
        BY <2>3, <3>1, <3>4, <4>1
    <3>7. Bottom(t, top, s0, st[1])
      <4>1. n # 1 => 1 \in 1..(n - 1)
        BY <1>1, <2>2
      <4>. QED
        BY <2>3, <3>4, <4>1 DEF f
    <3>8. st # <<>>
      <4>1. st = <<>> => Len(st) = 0
        OBVIOUS
      <4>. QED
        BY <1>1, <2>2, <3>4, <4>1
    <3>. QED
      BY <3>4, <3>5, <3>6, <3>7, <3>8 DEF WalkOK, F, x
  <2>. QED
    BY <2>4, <2>5, <2>6, <2>7
<1>. QED
  BY <1>1, <1>2, <1>3, <1>4

\* The paths that the operations are given.
Straight(p) == p \in [abs : {TRUE}, segs : Seq(Names)]

\* How the walk of an absolute path begins.
LEMMA StraightStart ==
  ASSUME NEW t, NEW top, Space(t, top), NEW p, Straight(p)
  PROVE  /\ ResolveFrame(RootPath, p) = [call |-> "resolve", cur |-> RootPath, segs |-> p.segs]
         /\ Bottom(t, top, p.segs, ResolveFrame(RootPath, p))
         /\ WalkOK(t, top, p.segs, [stack |-> <<ResolveFrame(RootPath, p)>>, val |-> None])
<1>. DEFINE f == ResolveFrame(RootPath, p)
<1>1. f = [call |-> "resolve", cur |-> RootPath, segs |-> p.segs]
  <2>1. p.abs = TRUE
    BY DEF Straight
  <2>. QED
    BY <2>1 DEF ResolveFrame
<1>2. p.segs \in Words /\ \A i \in 1..Len(p.segs) : p.segs[i] \in Names
  <2>1. p.segs \in Seq(Names)
    BY DEF Straight
  <2>2. \A i \in 1..Len(p.segs) : p.segs[i] \in Names
    BY <2>1
  <2>3. Names \subseteq Names \cup {DotDot}
    OBVIOUS
  <2>. QED
    BY <2>1, <2>2, <2>3, SeqMonotonic DEF Words
<1>. HIDE DEF f
<1>3. f \in ResolveFrames(t, top)
  BY <1>1, <1>2, TypedFacts DEF ResolveFrames
<1>4. TypeOf(t, f.cur.dentry) = "dir"
  BY <1>1 DEF RootPath, Space, Rooted
<1>5. Bottom(t, top, p.segs, f)
  BY <1>1, <1>2, <1>3, <1>4 DEF Bottom
<1>. DEFINE w == [stack |-> <<f>>, val |-> None]
<1>6. w.stack = <<f>> /\ w.val = None /\ f \in Frames(t, top)
  BY <1>3 DEF Frames
<1>7. <<f>> \in Seq(Frames(t, top)) /\ Len(<<f>>) = 1 /\ <<f>>[1] = f /\ <<f>> # <<>>
  <2>. DEFINE F == Frames(t, top)
  <2>1. f \in F
    BY <1>6
  <2>. HIDE DEF F
  <2>2. <<f>> \in Seq(F) /\ Len(<<f>>) = 1 /\ <<f>>[1] = f /\ <<f>> # <<>>
    BY <2>1
  <2>. QED
    BY <2>2 DEF F
<1>. HIDE DEF w
<1>8. None \in Vals(t, top) /\ None.err = "none"
  BY ValsMade
<1>9. \A i \in 1..Len(w.stack) : ~(i < Len(w.stack))
  BY <1>6, <1>7
<1>10. WalkOK(t, top, p.segs, w)
  BY <1>5, <1>6, <1>7, <1>8, <1>9 DEF WalkOK
<1>. QED
  BY <1>1, <1>5, <1>10 DEF f, w

\* resolve() of an absolute path: what it returns is good, and is what the last
\* segment names in the directory it returns.
LEMMA ResolveGood ==
  ASSUME NEW t, NEW top, Space(t, top), NEW p, Straight(p)
  PROVE  /\ Resolve(t, RootPath, p) \in Vals(t, top)
         /\ Resolve(t, RootPath, p).err = "ok" => Ended(t, p.segs, Resolve(t, RootPath, p))
<1>. DEFINE f == ResolveFrame(RootPath, p)
            n == WalkMax
<1>1. n \in Nat
  BY VfsFacts
<1>2. PICK g : /\ DOMAIN g = 0..n /\ g[0] = [stack |-> <<f>>, val |-> None]
               /\ \A i \in 1..n : g[i] = WalkStep(t, g[i - 1])
               /\ Walk(t, f) = IF g[n].stack = <<>> THEN g[n].val ELSE Fail("runaway")
  BY <1>1, WalkSteps
<1>. DEFINE S == {k \in 0..n : WalkOK(t, top, p.segs, g[k])}
<1>3. 0 \in S
  BY <1>1, <1>2, StraightStart
<1>. HIDE DEF f, n
<1>4. \A i \in 1..n : i - 1 \in S => i \in S
  BY <1>1, <1>2, WalkStepGood
<1>5. n \in S
  <2>1. S \subseteq 0..n
    OBVIOUS
  <2>. HIDE DEF S
  <2>2. S = 0..n
    BY <1>1, <1>3, <1>4, <2>1, Inductive
  <2>. QED
    BY <1>1, <2>2
<1>6. WalkOK(t, top, p.segs, g[n])
  BY <1>5
<1>7. Resolve(t, RootPath, p) = IF g[n].stack = <<>> THEN g[n].val ELSE Fail("runaway")
  BY <1>2 DEF Resolve, f
<1>8. Fail("runaway") \in Vals(t, top) /\ Fail("runaway").err # "ok"
  BY ValsMade DEF Errors
<1>. QED
  BY <1>6, <1>7, <1>8 DEF WalkOK

-----------------------------------------------------------------------------
(* A name that does not resolve is not in its directory: the walk of a     *)
(* path goes beside the walk of its directory, and one segment further.    *)

Longer(b, f) == [call |-> "resolve", cur |-> f.cur, segs |-> Append(f.segs, b)]

Beside(b, w, v) ==
  /\ w.stack # <<>> /\ v.val = w.val /\ Len(v.stack) = Len(w.stack)
  /\ v.stack[1] = Longer(b, w.stack[1])
  /\ \A i \in 2..Len(w.stack) : v.stack[i] = w.stack[i]

\* The walk of the path has come to the directory, with the last segment left.
Arrived(b, T, v) ==
  v.stack = <<[call |-> "resolve", cur |-> T, segs |-> <<b>>]>> /\ v.val = None

Ahead(b, T, w, v) ==
  \/ Beside(b, w, v)
  \/ w.stack = <<>> /\ (w.val.err # "ok" \/ w.val.target # T)
  \/ w.stack = <<>> /\ (Arrived(b, T, v) \/ (v.stack = <<>> /\ v.val.err = "ok"))

LEMMA AppendWords ==
  ASSUME NEW s \in Words, NEW b \in Names
  PROVE  /\ Append(s, b) \in Words /\ Append(s, b) # <<>> /\ Len(Append(s, b)) = Len(s) + 1
         /\ s # <<>> => Head(Append(s, b)) = Head(s) /\ Tail(Append(s, b)) = Append(Tail(s), b)
         /\ s = <<>> => Append(s, b) = <<b>> /\ Head(Append(s, b)) = b
<1>. DEFINE W == Names \cup {DotDot}
<1>1. s \in Seq(W) /\ b \in W
  BY DEF Words
<1>. HIDE DEF W
<1>5. Append(s, b) \in Seq(W) /\ Len(Append(s, b)) = Len(s) + 1 /\ Len(s) \in Nat
  BY <1>1
<1>2. Append(s, b) \in Seq(W) /\ Append(s, b) # <<>> /\ Len(Append(s, b)) = Len(s) + 1
  <2>1. Append(s, b) = <<>> => Len(Append(s, b)) = 0
    OBVIOUS
  <2>. QED
    BY <1>5, <2>1
<1>3. CASE s # <<>>
  <2>1. Head(Append(s, b)) = Head(s)
    BY <1>1, <1>3
  <2>2. Tail(Append(s, b)) = Append(Tail(s), b)
    <3>1. Tail(s) \in Seq(W) /\ Len(Tail(s)) = Len(s) - 1
      BY <1>1, <1>3
    <3>2. Tail(Append(s, b)) \in Seq(W) /\ Append(Tail(s), b) \in Seq(W)
      BY <1>1, <1>2, <3>1
    <3>3. Len(Tail(Append(s, b))) = Len(s) /\ Len(Append(Tail(s), b)) = Len(s)
      BY <1>1, <1>2, <3>1
    <3>4. ASSUME NEW i \in 1..Len(s)
          PROVE  Tail(Append(s, b))[i] = Append(Tail(s), b)[i]
      <4>1. Len(s) \in Nat /\ i + 1 \in 1..(Len(s) + 1) /\ i \in 1..Len(Tail(Append(s, b)))
        BY <1>5, <3>3
      <4>2. Tail(Append(s, b))[i] = Append(s, b)[i + 1]
        BY <1>2, <4>1, HeadTailProperties
      <4>3. CASE i = Len(s)
        <5>1. Append(s, b)[i + 1] = b
          BY <1>1, <4>1, <4>3
        <5>2. Append(Tail(s), b)[i] = b
          BY <1>1, <3>1, <4>1, <4>3
        <5>. QED
          BY <4>2, <5>1, <5>2
      <4>4. CASE i # Len(s)
        <5>1. i + 1 \in 1..Len(s) /\ i \in 1..Len(Tail(s))
          <6>1. PICK n \in Nat : n = Len(s)
            BY <4>1
          <6>2. i \in 1..n /\ i # n
            BY <4>4, <6>1
          <6>3. i + 1 \in 1..n /\ i \in 1..(n - 1)
            BY <6>2
          <6>. QED
            BY <3>1, <6>1, <6>3
        <5>2. Append(s, b)[i + 1] = s[i + 1]
          BY <1>1, <5>1
        <5>3. Append(Tail(s), b)[i] = Tail(s)[i]
          BY <1>1, <3>1, <5>1
        <5>4. Tail(s)[i] = s[i + 1]
          BY <1>1, <1>3, <5>1, HeadTailProperties
        <5>. QED
          BY <4>2, <5>2, <5>3, <5>4
      <4>. QED
        BY <4>3, <4>4
    <3>. QED
      BY <3>2, <3>3, <3>4, SeqEqual
  <2>. QED
    BY <1>2, <1>3, <2>1, <2>2 DEF Words, W
<1>4. CASE s = <<>>
  BY <1>2, <1>4 DEF Words, W
<1>. QED
  BY <1>3, <1>4

\* The directory: the last segment is found in it.
LEMMA ArrivedStep ==
  ASSUME NEW t, NEW top, Space(t, top), NEW T \in Good(t, top), NEW b \in Names,
         b \in DOMAIN t.children[T.dentry], NEW v, Arrived(b, T, v)
  PROVE  WalkStep(t, v).stack = <<>> /\ WalkStep(t, v).val.err = "ok"
<1>. DEFINE f == [call |-> "resolve", cur |-> T, segs |-> <<b>>]
            next == OnTop(t, [f.cur EXCEPT !.dentry = t.children[f.cur.dentry][Head(f.segs)]])
<1>1. f.call = "resolve" /\ f.cur = T /\ f.segs = <<b>> /\ Head(f.segs) = b /\ Len(f.segs) = 1 /\ f.segs # <<>>
  OBVIOUS
<1>2. b # DotDot
  BY VfsFacts
<1>3. ResolveStep(t, f, None) = Return(Found(f.cur, next))
  <2>1. None.err = "none" /\ None = None
    BY DEF None
  <2>. HIDE DEF f, next
  <2>. QED
    BY <1>1, <1>2, <2>1 DEF ResolveStep, next
<1>4. FrameStep(t, f, None) = Return(Found(f.cur, next))
  BY <1>1, <1>3 DEF FrameStep
<1>. HIDE DEF f, next
<1>5. v.stack = <<f>> /\ v.val = None
  BY DEF Arrived, f
<1>6. <<f>> # <<>> /\ Len(<<f>>) = 1 /\ Last(<<f>>) = f /\ Front(<<f>>) \o <<>> = <<>>
  <2>1. Len(<<f>>) = 1 /\ <<f>>[1] = f /\ <<f>> # <<>>
    OBVIOUS
  <2>2. Last(<<f>>) = f
    BY <2>1 DEF Last
  <2>3. Front(<<f>>) = SubSeq(<<f>>, 1, 1 - 1)
    BY <2>1 DEF Front
  <2>4. SubSeq(<<f>>, 1, 0) = <<>>
    BY SubSeqEmpty
  <2>5. Front(<<f>>) = <<>>
    BY <2>3, <2>4
  <2>. QED
    BY <2>1, <2>2, <2>5
<1>7. ~(Len(<<f>>) > StackMax)
  BY <1>6, VfsFacts
<1>8. WalkStep(t, v) = [stack |-> Front(<<f>>) \o Return(Found(f.cur, next)).frames, val |-> Return(Found(f.cur, next)).val]
  BY <1>4, <1>5, <1>6, <1>7 DEF WalkStep
<1>9. Return(Found(f.cur, next)).frames = <<>> /\ Return(Found(f.cur, next)).val = Found(f.cur, next)
  BY DEF Return
<1>10. Found(f.cur, next).err = "ok"
  BY DEF Found
<1>. QED
  BY <1>6, <1>8, <1>9, <1>10

IsResolve(f) == f = [call |-> "resolve", cur |-> f.cur, segs |-> f.segs]
Moved(f, y, r) == [f EXCEPT !.cur = y, !.segs = r]

LEMMA FrameMoved ==
  ASSUME NEW f, IsResolve(f), NEW y, NEW r
  PROVE  Moved(f, y, r) = [call |-> "resolve", cur |-> y, segs |-> r]
<1>. DEFINE g == [f EXCEPT !.cur = y, !.segs = r]
<1>0. f \in [call : {"resolve"}, cur : {f.cur}, segs : {f.segs}]
  <2>1. PICK a, b : a = f.cur /\ b = f.segs
    OBVIOUS
  <2>2. [call |-> "resolve", cur |-> a, segs |-> b] \in [call : {"resolve"}, cur : {a}, segs : {b}]
    OBVIOUS
  <2>. QED
    BY <2>1, <2>2 DEF IsResolve
<1>1. g \in [call : {"resolve"}, cur : {y}, segs : {r}]
  BY <1>0
<1>. HIDE DEF g
<1>2. g = [call |-> "resolve", cur |-> y, segs |-> r]
  BY <1>1
<1>. QED
  BY <1>2 DEF g, Moved

\* One step of the bottom frames of the two walks.
LEMMA LongerEnters ==
  ASSUME NEW t, NEW top, Space(t, top), NEW f \in ResolveFrames(t, top), f.segs # <<>>, NEW b \in Names,
         NEW next
  PROVE  \/ /\ Enter(t, f, next) = Return(Fail("not_a_dir"))
         \/ \E h : Enter(t, f, next) = GoOn(h) /\ Enter(t, Longer(b, f), next) = GoOn(Longer(b, h))
<1>1. f.segs \in Words /\ f = [call |-> "resolve", cur |-> f.cur, segs |-> f.segs]
  BY DEF ResolveFrames
<1>2. Tail(Append(f.segs, b)) = Append(Tail(f.segs), b)
  BY <1>1, AppendWords
<1>3. CASE TypeOf(t, next.dentry) # "dir"
  BY <1>3 DEF Enter
<1>4. CASE TypeOf(t, next.dentry) = "dir"
  <2>. DEFINE h == [call |-> "resolve", cur |-> next, segs |-> Tail(f.segs)]
  <2>1. [f EXCEPT !.cur = next, !.segs = Tail(@)] = h
    <3>1. PICK x, s : x = f.cur /\ s = f.segs
      OBVIOUS
    <3>3. PICK r : r = Tail(s)
      OBVIOUS
    <3>4. [f EXCEPT !.cur = next, !.segs = Tail(@)] = [f EXCEPT !.cur = next, !.segs = r]
      BY <3>1, <3>3
    <3>5. [f EXCEPT !.cur = next, !.segs = r] = [call |-> "resolve", cur |-> next, segs |-> r]
      <4>1. IsResolve(f)
        BY <1>1 DEF IsResolve
      <4>2. [f EXCEPT !.cur = next, !.segs = r] = Moved(f, next, r)
        BY DEF Moved
      <4>3. Moved(f, next, r) = [call |-> "resolve", cur |-> next, segs |-> r]
        BY <4>1, FrameMoved
      <4>. QED
        BY <4>2, <4>3
    <3>. QED
      BY <3>1, <3>3, <3>4, <3>5
  <2>2. Enter(t, f, next) = GoOn(h)
    BY <1>4, <2>1 DEF Enter
  <2>3. [Longer(b, f) EXCEPT !.cur = next, !.segs = Tail(@)] = Longer(b, h)
    <3>1. PICK x, s, l : x = f.cur /\ s = Append(f.segs, b) /\ l = Longer(b, f)
      OBVIOUS
    <3>2. l = [call |-> "resolve", cur |-> l.cur, segs |-> l.segs] /\ l.segs = s
      BY <3>1 DEF Longer
    <3>3. PICK r : r = Tail(s)
      OBVIOUS
    <3>4. [l EXCEPT !.cur = next, !.segs = Tail(@)] = [l EXCEPT !.cur = next, !.segs = r]
      BY <3>2, <3>3
    <3>5. [l EXCEPT !.cur = next, !.segs = r] = [call |-> "resolve", cur |-> next, segs |-> r]
      <4>1. IsResolve(l)
        BY <3>2 DEF IsResolve
      <4>2. [l EXCEPT !.cur = next, !.segs = r] = Moved(l, next, r)
        BY DEF Moved
      <4>3. Moved(l, next, r) = [call |-> "resolve", cur |-> next, segs |-> r]
        BY <4>1, FrameMoved
      <4>. QED
        BY <4>2, <4>3
    <3>6. Longer(b, h) = [call |-> "resolve", cur |-> next, segs |-> r]
      BY <1>2, <3>1, <3>3 DEF Longer
    <3>. QED
      BY <3>1, <3>4, <3>5, <3>6
  <2>4. Enter(t, Longer(b, f), next) = GoOn(Longer(b, h))
    BY <1>4, <2>3 DEF Enter
  <2>. HIDE DEF h
  <2>. QED
    BY <2>2, <2>4
<1>. QED
  BY <1>3, <1>4

\* What the longer walk does in a step of the shorter one.
Abreast(t, F, f, l, val, b) ==
  \/ \E u : FrameStep(t, f, val) = Return(u) /\ u.err # "ok"
  \/ \E u : /\ FrameStep(t, f, val) = Return(u) /\ TypeOf(t, u.target.dentry) # "dir"
  \/ \E u : /\ FrameStep(t, f, val) = Return(u)
            /\ FrameStep(t, l, val) = GoOn([call |-> "resolve", cur |-> u.target, segs |-> <<b>>])
  \/ \E u : /\ FrameStep(t, f, val) = Return(u) /\ val = None
            /\ l = [call |-> "resolve", cur |-> u.target, segs |-> <<b>>]
  \/ \E h : FrameStep(t, f, val) = GoOn(h) /\ FrameStep(t, l, val) = GoOn(Longer(b, h))
  \/ \E h \in F : FrameStep(t, f, val) = Call(f, h) /\ FrameStep(t, l, val) = Call(l, h)

\* The outermost frames of the two walks, step by step.
LEMMA LongerStep ==
  ASSUME NEW t, NEW top, Space(t, top), NEW s0, NEW f, Bottom(t, top, s0, f), NEW val \in Vals(t, top),
         val.err # "none" => Waiting(f), NEW b \in Names
  PROVE  Abreast(t, Frames(t, top), f, Longer(b, f), val, b)
<1>. SUFFICES
         \/ \E u : FrameStep(t, f, val) = Return(u) /\ u.err # "ok"
         \/ \E u : /\ FrameStep(t, f, val) = Return(u) /\ TypeOf(t, u.target.dentry) # "dir"
         \/ \E u : /\ FrameStep(t, f, val) = Return(u)
                   /\ FrameStep(t, Longer(b, f), val) = GoOn([call |-> "resolve", cur |-> u.target, segs |-> <<b>>])
         \/ \E u : /\ FrameStep(t, f, val) = Return(u) /\ val = None
                   /\ Longer(b, f) = [call |-> "resolve", cur |-> u.target, segs |-> <<b>>]
         \/ \E h : FrameStep(t, f, val) = GoOn(h) /\ FrameStep(t, Longer(b, f), val) = GoOn(Longer(b, h))
         \/ \E h \in Frames(t, top) : /\ FrameStep(t, f, val) = Call(f, h)
                                      /\ FrameStep(t, Longer(b, f), val) = Call(Longer(b, f), h)
  BY Zenon DEF Abreast
<1>. DEFINE l == Longer(b, f)
            segment == Head(f.segs)
            next == OnTop(t, [f.cur EXCEPT !.dentry = t.children[f.cur.dentry][segment]])
<1>1. f \in ResolveFrames(t, top) /\ f.call = "resolve" /\ f.cur \in Good(t, top) /\ f.segs \in Words
  BY DEF Bottom, ResolveFrames
<1>2. /\ val = None <=> val.err = "none"
      /\ val.err \in Errors \cup {"ok", "none"}
  BY ValFacts
<1>3. l.call = "resolve" /\ l.cur = f.cur /\ l.segs = Append(f.segs, b)
  BY DEF Longer
<1>4. /\ l.segs \in Words /\ l.segs # <<>> /\ Len(l.segs) = Len(f.segs) + 1
      /\ f.segs # <<>> => Head(l.segs) = segment /\ Tail(l.segs) = Append(Tail(f.segs), b)
      /\ f.segs = <<>> => l.segs = <<b>>
      /\ Len(f.segs) \in Nat /\ (f.segs # <<>> => Len(f.segs) >= 1)
  BY <1>1, <1>3, AppendWords, WordsFacts
<1>5. FrameStep(t, f, val) = ResolveStep(t, f, val) /\ FrameStep(t, l, val) = ResolveStep(t, l, val)
  BY <1>1, <1>3 DEF FrameStep
<1>. HIDE DEF l
<1>6. CASE val.err = "ok"
  <2>1. ResolveStep(t, f, val) = Enter(t, f, val.target) /\ ResolveStep(t, l, val) = Enter(t, l, val.target)
    BY <1>2, <1>6 DEF ResolveStep
  <2>2. f.segs # <<>>
    <3>1. Len(f.segs) >= 2
      BY <1>1, <1>6 DEF Waiting
    <3>2. f.segs = <<>> => Len(f.segs) = 0
      BY <1>1, WordsFacts
    <3>. QED
      BY <3>1, <3>2
  <2>3. Fail("not_a_dir").err # "ok"
    BY DEF Fail
  <2>4. \/ Enter(t, f, val.target) = Return(Fail("not_a_dir"))
        \/ \E h : Enter(t, f, val.target) = GoOn(h) /\ Enter(t, l, val.target) = GoOn(Longer(b, h))
    BY <1>1, <2>2, LongerEnters DEF l
  <2>. QED
    BY <1>5, <2>1, <2>3, <2>4 DEF l
<1>7. CASE val.err \notin {"ok", "none"}
  <2>1. ResolveStep(t, f, val) = Return(val)
    BY <1>2, <1>7 DEF ResolveStep
  <2>. QED
    BY <1>5, <1>7, <2>1
<1>8. CASE val = None /\ f.segs = <<>>
  <2>1. ResolveStep(t, f, val) = Return(Found(f.cur, f.cur))
    BY <1>2, <1>8 DEF ResolveStep
  <2>2. Found(f.cur, f.cur).target = f.cur
    BY DEF Found
  <2>3. l = [call |-> "resolve", cur |-> f.cur, segs |-> <<b>>]
    BY <1>4, <1>8, <1>3 DEF l, Longer
  <2>. QED
    BY <1>5, <1>8, <2>1, <2>2, <2>3 DEF l
<1>9. CASE val = None /\ f.segs # <<>>
  <2>1. segment # DotDot /\ segment \in Names
    <3>1. 1 \in 1..Len(f.segs) /\ segment = f.segs[1]
      BY <1>1, <1>4, <1>9, WordsFacts
    <3>2. segment \in Names
      BY <3>1 DEF Bottom
    <3>. QED
      BY <3>2, VfsFacts
  <2>2. ResolveStep(t, f, val) =
            IF segment \notin DOMAIN t.children[f.cur.dentry] THEN Return(Fail("not_found"))
            ELSE IF Len(f.segs) = 1 THEN Return(Found(f.cur, next))
            ELSE IF TypeOf(t, next.dentry) = "lnk" THEN Call(f, ReduceFrame(f.cur, next))
            ELSE Enter(t, f, next)
    BY <1>2, <1>9, <2>1 DEF ResolveStep
  <2>3. ResolveStep(t, l, val) =
            IF segment \notin DOMAIN t.children[f.cur.dentry] THEN Return(Fail("not_found"))
            ELSE IF TypeOf(t, next.dentry) = "lnk" THEN Call(l, ReduceFrame(f.cur, next))
            ELSE Enter(t, l, next)
    <3>1. Len(l.segs) # 1 /\ Head(l.segs) = segment
      BY <1>4, <1>9
    <3>. QED
      BY <1>2, <1>3, <1>4, <1>9, <2>1, <3>1 DEF ResolveStep
  <2>4. Fail("not_a_dir").err # "ok" /\ Fail("not_found").err # "ok"
    BY DEF Fail
  <2>5. CASE segment \notin DOMAIN t.children[f.cur.dentry]
    BY <1>5, <2>2, <2>4, <2>5
  <2>6. CASE segment \in DOMAIN t.children[f.cur.dentry]
    <3>1. next \in Good(t, top)
      BY <1>1, <2>6, ChildGood, OnTopGood
    <3>. HIDE DEF next
    <3>2. CASE Len(f.segs) = 1
      <4>1. ResolveStep(t, f, val) = Return(Found(f.cur, next)) /\ Found(f.cur, next).target = next
        BY <2>2, <2>6, <3>2 DEF Found
      <4>2. CASE TypeOf(t, next.dentry) # "dir"
        BY <1>5, <4>1, <4>2
      <4>3. CASE TypeOf(t, next.dentry) = "dir"
        <5>1. ResolveStep(t, l, val) = Enter(t, l, next)
          BY <2>3, <2>6, <4>3
        <5>2. Tail(f.segs) = <<>>
          <6>1. PICK r : r = Tail(f.segs)
            OBVIOUS
          <6>2. r \in Words /\ Len(r) = 0
            BY <1>1, <1>9, <3>2, <6>1, WordsFacts
          <6>3. r # <<>> => Len(r) >= 1
            BY <6>2, WordsFacts
          <6>. QED
            BY <6>1, <6>2, <6>3
        <5>3. Tail(l.segs) = <<b>>
          <6>1. Tail(f.segs) \in Words
            BY <1>1, <1>9, WordsFacts
          <6>2. Append(Tail(f.segs), b) = <<b>>
            BY <5>2, <6>1, AppendWords
          <6>. QED
            BY <1>4, <1>9, <6>2
        <5>4. l = [call |-> "resolve", cur |-> l.cur, segs |-> l.segs]
          BY <1>3 DEF l, Longer
        <5>5. [l EXCEPT !.cur = next, !.segs = Tail(@)] = [call |-> "resolve", cur |-> next, segs |-> <<b>>]
          <6>1. PICK x, s, r : x = l.cur /\ s = l.segs /\ r = Tail(l.segs)
            OBVIOUS
          <6>3. [l EXCEPT !.cur = next, !.segs = Tail(@)] = [l EXCEPT !.cur = next, !.segs = r]
            BY <6>1
          <6>4. [l EXCEPT !.cur = next, !.segs = r] = [call |-> "resolve", cur |-> next, segs |-> r]
            <7>1. IsResolve(l)
              BY <5>4 DEF IsResolve
            <7>2. [l EXCEPT !.cur = next, !.segs = r] = Moved(l, next, r)
              BY DEF Moved
            <7>3. Moved(l, next, r) = [call |-> "resolve", cur |-> next, segs |-> r]
              BY <7>1, FrameMoved
            <7>. QED
              BY <7>2, <7>3
          <6>. QED
            BY <5>3, <6>1, <6>3, <6>4
        <5>6. Enter(t, l, next) = GoOn([call |-> "resolve", cur |-> next, segs |-> <<b>>])
          BY <4>3, <5>5 DEF Enter
        <5>. QED
          BY <1>5, <4>1, <5>1, <5>6 DEF l
      <4>. QED
        BY <4>2, <4>3
    <3>3. CASE Len(f.segs) # 1 /\ TypeOf(t, next.dentry) = "lnk"
      <4>1. ReduceFrame(f.cur, next) \in Frames(t, top)
        BY <1>1, <3>1, VfsFacts DEF ReduceFrame, ReduceFrames, Frames
      <4>2. ResolveStep(t, f, val) = Call(f, ReduceFrame(f.cur, next))
        BY <2>2, <2>6, <3>3
      <4>3. ResolveStep(t, l, val) = Call(l, ReduceFrame(f.cur, next))
        BY <2>3, <2>6, <3>3
      <4>. QED
        BY <1>5, <4>1, <4>2, <4>3 DEF l
    <3>4. CASE Len(f.segs) # 1 /\ TypeOf(t, next.dentry) # "lnk"
      <4>1. ResolveStep(t, f, val) = Enter(t, f, next) /\ ResolveStep(t, l, val) = Enter(t, l, next)
        BY <2>2, <2>3, <2>6, <3>4
      <4>2. \/ Enter(t, f, next) = Return(Fail("not_a_dir"))
            \/ \E h : Enter(t, f, next) = GoOn(h) /\ Enter(t, l, next) = GoOn(Longer(b, h))
        BY <1>1, <1>9, LongerEnters DEF l
      <4>. QED
        BY <1>5, <2>4, <4>1, <4>2 DEF l
    <3>. QED
      BY <3>2, <3>3, <3>4
  <2>. QED
    BY <2>5, <2>6
<1>. QED
  BY <1>2, <1>6, <1>7, <1>8, <1>9

LEMMA WalkStepTop ==
  ASSUME NEW t, NEW w, w.stack # <<>>, NEW step, step = FrameStep(t, w.stack[Len(w.stack)], w.val)
  PROVE  /\ Len(w.stack) > StackMax => WalkStep(t, w).stack = <<>> /\ WalkStep(t, w).val = Fail("runaway")
         /\ ~(Len(w.stack) > StackMax) => /\ WalkStep(t, w).stack = Front(w.stack) \o step.frames
                                          /\ WalkStep(t, w).val = step.val
<1>1. CASE Len(w.stack) > StackMax
  BY <1>1 DEF WalkStep
<1>2. CASE ~(Len(w.stack) > StackMax)
  BY <1>2 DEF WalkStep, Last
<1>. QED
  BY <1>1, <1>2

\* Frames above the bottom move in the same way.
LEMMA BesideAbove ==
  ASSUME NEW t, NEW top, Space(t, top), NEW b, NEW s0, NEW s1, NEW w, NEW v,
         WalkOK(t, top, s0, w), WalkOK(t, top, s1, v), Beside(b, w, v),
         Len(w.stack) # 1, ~(Len(w.stack) > StackMax)
  PROVE  Beside(b, WalkStep(t, w), WalkStep(t, v))
<1>. DEFINE F == Frames(t, top)
            s == w.stack
            r == v.stack
            n == Len(s)
            f == s[n]
            step == FrameStep(t, f, w.val)
            x == WalkStep(t, w)
            y == WalkStep(t, v)
<1>1. s \in Seq(F) /\ r \in Seq(F) /\ w.val \in Vals(t, top) /\ s # <<>>
  BY DEF WalkOK, Beside
<1>2. n \in Nat /\ n >= 2 /\ Len(r) = n /\ r # <<>>
  <2>. HIDE DEF F
  <2>1. n \in Nat /\ n >= 1 /\ n # 1 /\ Len(r) = n
    BY <1>1 DEF Beside
  <2>2. r = <<>> => Len(r) = 0
    OBVIOUS
  <2>. HIDE DEF n, r
  <2>. QED
    BY <2>1, <2>2
<1>3. r[1] = Longer(b, s[1]) /\ v.val = w.val /\ \A i \in 2..n : r[i] = s[i]
  BY DEF Beside
<1>4. r[n] = f
  <2>1. n \in 2..n
    BY <1>2
  <2>. QED
    BY <1>3, <2>1
<1>5. x.stack = Front(s) \o step.frames /\ x.val = step.val
  BY <1>1, WalkStepTop
<1>6. y.stack = Front(r) \o step.frames /\ y.val = step.val
  <2>1. FrameStep(t, r[Len(r)], v.val) = step
    BY <1>2, <1>3, <1>4
  <2>2. ~(Len(r) > StackMax)
    BY <1>2
  <2>. QED
    BY <1>2, <2>1, <2>2, WalkStepTop
<1>. HIDE DEF F
<1>7. StackLaws(F, s, n) /\ StackLaws(F, r, n)
  BY <1>1, <1>2, StackAfter
<1>8. w.val.err # "none" => Waiting(f)
  <2>1. n \in 1..n
    BY <1>2
  <2>. QED
    BY <2>1 DEF WalkOK
<1>9. f \in F
  BY <1>7 DEF StackLaws
<1>10. Steps(t, top, f, step)
  BY <1>1, <1>8, <1>9, FrameStepGood DEF F
<1>. DEFINE sf == Front(s)
            rf == Front(r)
<1>11. /\ sf \o <<>> \in Seq(F) /\ Len(sf \o <<>>) = n - 1 /\ \A i \in 1..(n - 1) : (sf \o <<>>)[i] = s[i]
       /\ \A h \in F : /\ sf \o <<h>> \in Seq(F) /\ Len(sf \o <<h>>) = n /\ (sf \o <<h>>)[n] = h
                       /\ \A i \in 1..(n - 1) : (sf \o <<h>>)[i] = s[i]
       /\ \A g, h \in F : /\ sf \o <<g, h>> \in Seq(F) /\ Len(sf \o <<g, h>>) = n + 1
                          /\ (sf \o <<g, h>>)[n] = g /\ (sf \o <<g, h>>)[n + 1] = h
                          /\ \A i \in 1..(n - 1) : (sf \o <<g, h>>)[i] = s[i]
  BY <1>7, Zenon DEF StackLaws
<1>12. /\ rf \o <<>> \in Seq(F) /\ Len(rf \o <<>>) = n - 1 /\ \A i \in 1..(n - 1) : (rf \o <<>>)[i] = r[i]
       /\ \A h \in F : /\ rf \o <<h>> \in Seq(F) /\ Len(rf \o <<h>>) = n /\ (rf \o <<h>>)[n] = h
                       /\ \A i \in 1..(n - 1) : (rf \o <<h>>)[i] = r[i]
       /\ \A g, h \in F : /\ rf \o <<g, h>> \in Seq(F) /\ Len(rf \o <<g, h>>) = n + 1
                          /\ (rf \o <<g, h>>)[n] = g /\ (rf \o <<g, h>>)[n + 1] = h
                          /\ \A i \in 1..(n - 1) : (rf \o <<g, h>>)[i] = r[i]
  BY <1>7, Zenon DEF StackLaws
<1>. HIDE DEF s, r, n, f, step, x, y, sf, rf
<1>13. \E k \in {n - 1, n, n + 1} :
         /\ x.stack \in Seq(F) /\ y.stack \in Seq(F) /\ Len(x.stack) = k /\ Len(y.stack) = k
         /\ \A i \in 1..(n - 1) : x.stack[i] = s[i] /\ y.stack[i] = r[i]
         /\ \A i \in n..k : x.stack[i] = y.stack[i]
  <2>1. CASE \E u \in Vals(t, top) : u.err # "none" /\ step = Return(u)
    <3>1. step.frames = <<>>
      BY <2>1 DEF Return
    <3>2. PICK a, c : a = sf \o <<>> /\ c = rf \o <<>>
      OBVIOUS
    <3>3. x.stack = a /\ y.stack = c
      BY <1>5, <1>6, <3>1, <3>2 DEF sf, rf
    <3>4. /\ a \in Seq(F) /\ c \in Seq(F) /\ Len(a) = n - 1 /\ Len(c) = n - 1
          /\ \A i \in 1..(n - 1) : a[i] = s[i] /\ c[i] = r[i]
      BY <1>11, <1>12, <3>2, Zenon
    <3>5. \A i \in n..(n - 1) : a[i] = c[i]
      BY <1>2
    <3>. QED
      BY <3>3, <3>4, <3>5
  <2>2. CASE \E h \in F : step = GoOn(h)
    <3>0. PICK h \in F : step = GoOn(h)
      BY <2>2
    <3>1. step.frames = <<h>>
      BY <3>0 DEF GoOn
    <3>2. PICK a, c : a = sf \o <<h>> /\ c = rf \o <<h>>
      OBVIOUS
    <3>3. x.stack = a /\ y.stack = c
      BY <1>5, <1>6, <3>1, <3>2, Zenon DEF sf, rf
    <3>4. /\ a \in Seq(F) /\ c \in Seq(F) /\ Len(a) = n /\ Len(c) = n /\ a[n] = h /\ c[n] = h
          /\ \A i \in 1..(n - 1) : a[i] = s[i] /\ c[i] = r[i]
      <4>1. a \in Seq(F) /\ Len(a) = n /\ a[n] = h /\ \A i \in 1..(n - 1) : a[i] = s[i]
        BY <1>11, <3>2, Zenon
      <4>2. c \in Seq(F) /\ Len(c) = n /\ c[n] = h /\ \A i \in 1..(n - 1) : c[i] = r[i]
        BY <1>12, <3>2, Zenon
      <4>. QED
        BY <4>1, <4>2
    <3>5. \A i \in n..n : a[i] = c[i]
      BY <1>2, <3>4
    <3>. QED
      BY <3>3, <3>4, <3>5
  <2>3. CASE \E h \in F : step = Call(f, h)
    <3>0. PICK h \in F : step = Call(f, h)
      BY <2>3
    <3>1. step.frames = <<f, h>>
      BY <3>0 DEF Call
    <3>2. PICK a, c : a = sf \o <<f, h>> /\ c = rf \o <<f, h>>
      OBVIOUS
    <3>3. x.stack = a /\ y.stack = c
      BY <1>5, <1>6, <3>1, <3>2, Zenon DEF sf, rf
    <3>4. /\ a \in Seq(F) /\ c \in Seq(F) /\ Len(a) = n + 1 /\ Len(c) = n + 1
          /\ a[n] = f /\ c[n] = f /\ a[n + 1] = h /\ c[n + 1] = h
          /\ \A i \in 1..(n - 1) : a[i] = s[i] /\ c[i] = r[i]
      <4>1. /\ a \in Seq(F) /\ Len(a) = n + 1 /\ a[n] = f /\ a[n + 1] = h
            /\ \A i \in 1..(n - 1) : a[i] = s[i]
        BY <1>9, <1>11, <3>2, Zenon
      <4>2. /\ c \in Seq(F) /\ Len(c) = n + 1 /\ c[n] = f /\ c[n + 1] = h
            /\ \A i \in 1..(n - 1) : c[i] = r[i]
        BY <1>9, <1>12, <3>2, Zenon
      <4>. QED
        BY <4>1, <4>2
    <3>5. \A i \in n..(n + 1) : a[i] = c[i]
      <4>1. \A i \in n..(n + 1) : i = n \/ i = n + 1
        BY <1>2
      <4>. QED
        BY <3>4, <4>1
    <3>. QED
      BY <3>3, <3>4, <3>5
  <2>. QED
    BY <1>10, <2>1, <2>2, <2>3 DEF Steps, F
<1>14. PICK k \in {n - 1, n, n + 1} :
         /\ x.stack \in Seq(F) /\ y.stack \in Seq(F) /\ Len(x.stack) = k /\ Len(y.stack) = k
         /\ \A i \in 1..(n - 1) : x.stack[i] = s[i] /\ y.stack[i] = r[i]
         /\ \A i \in n..k : x.stack[i] = y.stack[i]
  BY <1>13
<1>15. k \in Nat /\ k >= 1 /\ 1 \in 1..(n - 1)
  BY <1>2
<1>16. x.stack # <<>>
  <2>1. x.stack = <<>> => Len(x.stack) = 0
    OBVIOUS
  <2>. QED
    BY <1>14, <1>15, <2>1
<1>17. y.stack[1] = Longer(b, x.stack[1])
  BY <1>3, <1>14, <1>15
<1>18. ASSUME NEW i \in 2..k
       PROVE  y.stack[i] = x.stack[i]
  <2>1. CASE i < n
    <3>1. i \in 1..(n - 1) /\ i \in 2..n
      BY <1>2, <2>1
    <3>. QED
      BY <1>3, <1>14, <3>1
  <2>2. CASE i >= n
    <3>1. i \in n..k
      BY <1>2, <1>15, <2>2
    <3>. QED
      BY <1>14, <3>1
  <2>. QED
    BY <1>2, <1>15, <2>1, <2>2
<1>19. y.val = x.val
  BY <1>5, <1>6
<1>20. \A i \in 2..Len(x.stack) : y.stack[i] = x.stack[i]
  BY <1>14, <1>18
<1>. QED
  BY <1>14, <1>16, <1>17, <1>19, <1>20 DEF Beside, x, y

\* A stack of one frame, after a step.
LEMMA OneFrame ==
  ASSUME NEW F, NEW s \in Seq(F), Len(s) = 1
  PROVE  /\ Front(s) \o <<>> = <<>>
         /\ \A h : Front(s) \o <<h>> = <<h>>
         /\ \A g, h : Front(s) \o <<g, h>> = <<g, h>>
<1>1. Front(s) = SubSeq(s, 1, 1 - 1)
  BY DEF Front
<1>2. SubSeq(s, 1, 0) = <<>>
  BY SubSeqEmpty
<1>3. Front(s) = <<>>
  BY <1>1, <1>2
<1>. QED
  BY <1>3

\* Two walks side by side, of a path and of the path with a name more.
LEMMA AheadStep ==
  ASSUME NEW t, NEW top, Space(t, top), NEW b \in Names, NEW T \in Good(t, top), TypeOf(t, T.dentry) = "dir",
         b \in DOMAIN t.children[T.dentry], NEW s0, NEW s1, NEW w, NEW v,
         WalkOK(t, top, s0, w), WalkOK(t, top, s1, v), Ahead(b, T, w, v)
  PROVE  Ahead(b, T, WalkStep(t, w), WalkStep(t, v))
<1>. DEFINE x == WalkStep(t, w)
            y == WalkStep(t, v)
            n == Len(w.stack)
<1>1. CASE w.stack = <<>>
  <2>1. x = w
    BY <1>1 DEF WalkStep
  <2>2. CASE w.val.err # "ok" \/ w.val.target # T
    BY <1>1, <2>1, <2>2 DEF Ahead
  <2>3. CASE Arrived(b, T, v)
    <3>1. y.stack = <<>> /\ y.val.err = "ok"
      BY <2>3, ArrivedStep
    <3>. QED
      BY <1>1, <2>1, <3>1 DEF Ahead
  <2>4. CASE v.stack = <<>> /\ v.val.err = "ok"
    <3>1. y = v
      BY <2>4 DEF WalkStep
    <3>. QED
      BY <1>1, <2>1, <2>4, <3>1 DEF Ahead
  <2>. QED
    BY <1>1, <2>2, <2>3, <2>4 DEF Ahead, Beside
<1>2. CASE w.stack # <<>> /\ n > StackMax
  <2>1. x.stack = <<>> /\ x.val = Fail("runaway")
    BY <1>2, WalkStepTop
  <2>2. x.val.err # "ok"
    BY <2>1 DEF Fail
  <2>. QED
    BY <2>1, <2>2 DEF Ahead
<1>3. CASE w.stack # <<>> /\ ~(n > StackMax) /\ n # 1
  <2>1. Beside(b, w, v)
    BY <1>3 DEF Ahead
  <2>2. Beside(b, x, y)
    BY <1>3, <2>1, BesideAbove
  <2>. QED
    BY <2>2 DEF Ahead
<1>4. CASE w.stack # <<>> /\ ~(n > StackMax) /\ n = 1
  <2>. DEFINE f == w.stack[1]
              l == Longer(b, f)
              step == FrameStep(t, f, w.val)
              next == FrameStep(t, l, w.val)
              F == Frames(t, top)
  <2>1. /\ w.stack \in Seq(F) /\ v.stack \in Seq(F) /\ w.val \in Vals(t, top) /\ Bottom(t, top, s0, f)
        /\ w.val.err # "none" => Waiting(f)
    <3>1. 1 \in 1..Len(w.stack)
      BY <1>4
    <3>. QED
      BY <1>4, <3>1 DEF WalkOK
  <2>2. v.val = w.val /\ Len(v.stack) = 1 /\ v.stack[1] = l /\ v.stack # <<>>
    <3>1. Beside(b, w, v)
      BY <1>4 DEF Ahead
    <3>2. v.stack = <<>> => Len(v.stack) = 0
      OBVIOUS
    <3>. QED
      BY <1>4, <3>1, <3>2 DEF Beside
  <2>3. x.stack = Front(w.stack) \o step.frames /\ x.val = step.val
    <3>1. step = FrameStep(t, w.stack[Len(w.stack)], w.val)
      BY <1>4
    <3>. HIDE DEF step
    <3>. QED
      BY <1>4, <3>1, WalkStepTop
  <2>4. y.stack = Front(v.stack) \o next.frames /\ y.val = next.val
    <3>1. next = FrameStep(t, v.stack[Len(v.stack)], v.val)
      BY <2>2
    <3>2. ~(Len(v.stack) > StackMax)
      BY <1>4, <2>2
    <3>. HIDE DEF next
    <3>. QED
      BY <2>2, <3>1, <3>2, WalkStepTop
  <2>5. \/ \E u : step = Return(u) /\ u.err # "ok"
        \/ \E u : step = Return(u) /\ TypeOf(t, u.target.dentry) # "dir"
        \/ \E u : step = Return(u) /\ next = GoOn([call |-> "resolve", cur |-> u.target, segs |-> <<b>>])
        \/ \E u : /\ step = Return(u) /\ w.val = None
                  /\ l = [call |-> "resolve", cur |-> u.target, segs |-> <<b>>]
        \/ \E h : step = GoOn(h) /\ next = GoOn(Longer(b, h))
        \/ \E h \in F : step = Call(f, h) /\ next = Call(l, h)
    <3>1. Abreast(t, Frames(t, top), w.stack[1], Longer(b, w.stack[1]), w.val, b)
      BY <2>1, LongerStep
    <3>2. Abreast(t, F, f, l, w.val, b)
      BY <3>1
    <3>3. step = FrameStep(t, f, w.val) /\ next = FrameStep(t, l, w.val)
      OBVIOUS
    <3>. HIDE DEF f, l, F, step, next
    <3>. QED
      BY <3>2, <3>3, Zenon DEF Abreast
  <2>. HIDE DEF f, l, step, next, F, x, y, n
  <2>6. /\ Front(w.stack) \o <<>> = <<>>
        /\ \A h : Front(w.stack) \o <<h>> = <<h>>
        /\ \A g, h : Front(w.stack) \o <<g, h>> = <<g, h>>
    BY <1>4, <2>1, OneFrame DEF n
  <2>7. /\ Front(v.stack) \o <<>> = <<>>
        /\ \A h : Front(v.stack) \o <<h>> = <<h>>
        /\ \A g, h : Front(v.stack) \o <<g, h>> = <<g, h>>
    BY <2>1, <2>2, OneFrame
  <2>8. ASSUME NEW u, step = Return(u)
        PROVE  x.stack = <<>> /\ x.val = u
    <3>1. step.frames = <<>> /\ step.val = u
      BY <2>8 DEF Return
    <3>. QED
      BY <2>3, <2>6, <3>1
  <2>9. ASSUME NEW h, next = GoOn(h)
        PROVE  y.stack = <<h>> /\ y.val = None
    <3>1. next.frames = <<h>> /\ next.val = None
      BY <2>9 DEF GoOn
    <3>. QED
      BY <2>4, <2>7, <3>1, Zenon
  <2>10. CASE \E u : step = Return(u) /\ u.err # "ok"
    <3>1. x.stack = <<>> /\ x.val.err # "ok"
      BY <2>8, <2>10
    <3>. QED
      BY <3>1 DEF Ahead, x
  <2>11. CASE \E u : step = Return(u) /\ TypeOf(t, u.target.dentry) # "dir"
    <3>1. x.stack = <<>> /\ x.val.target # T
      BY <2>8, <2>11
    <3>. QED
      BY <3>1 DEF Ahead, x
  <2>12. CASE \E u : step = Return(u) /\ next = GoOn([call |-> "resolve", cur |-> u.target, segs |-> <<b>>])
    <3>1. PICK u : step = Return(u) /\ next = GoOn([call |-> "resolve", cur |-> u.target, segs |-> <<b>>])
      BY <2>12
    <3>2. x.stack = <<>> /\ x.val = u
      BY <2>8, <3>1
    <3>3. CASE u.target # T
      BY <3>2, <3>3 DEF Ahead, x
    <3>4. CASE u.target = T
      <4>1. PICK h : h = [call |-> "resolve", cur |-> T, segs |-> <<b>>]
        OBVIOUS
      <4>2. y.stack = <<h>> /\ y.val = None
        BY <2>9, <3>1, <3>4, <4>1
      <4>3. Arrived(b, T, y)
        BY <4>1, <4>2 DEF Arrived
      <4>. QED
        BY <3>2, <4>3 DEF Ahead, x, y
    <3>. QED
      BY <3>3, <3>4
  <2>13. CASE \E u : /\ step = Return(u) /\ w.val = None
                     /\ l = [call |-> "resolve", cur |-> u.target, segs |-> <<b>>]
    <3>1. PICK u : /\ step = Return(u) /\ w.val = None
                   /\ l = [call |-> "resolve", cur |-> u.target, segs |-> <<b>>]
      BY <2>13
    <3>2. x.stack = <<>> /\ x.val = u
      BY <2>8, <3>1
    <3>3. CASE u.target # T
      BY <3>2, <3>3 DEF Ahead, x
    <3>4. CASE u.target = T
      <4>1. v.stack = <<l>>
        <5>1. v.stack \in Seq(F) /\ Len(v.stack) = 1 /\ v.stack[1] = l
          BY <2>1, <2>2
        <5>. QED
          BY <5>1
      <4>2. Arrived(b, T, v)
        BY <2>2, <3>1, <3>4, <4>1 DEF Arrived
      <4>3. y.stack = <<>> /\ y.val.err = "ok"
        BY <4>2, ArrivedStep DEF y
      <4>. QED
        BY <3>2, <4>3 DEF Ahead, x, y
    <3>. QED
      BY <3>3, <3>4
  <2>14. CASE \E h : step = GoOn(h) /\ next = GoOn(Longer(b, h))
    <3>1. PICK h : step = GoOn(h) /\ next = GoOn(Longer(b, h))
      BY <2>14
    <3>2. step.frames = <<h>> /\ step.val = None
      BY <3>1 DEF GoOn
    <3>3. x.stack = <<h>> /\ x.val = None
      BY <2>3, <2>6, <3>2, Zenon
    <3>4. PICK g : g = Longer(b, h)
      OBVIOUS
    <3>5. y.stack = <<g>> /\ y.val = None
      BY <2>9, <3>1, <3>4
    <3>6. Beside(b, x, y)
      BY <3>3, <3>4, <3>5 DEF Beside
    <3>. QED
      BY <3>6 DEF Ahead, x, y
  <2>15. CASE \E h \in F : step = Call(f, h) /\ next = Call(l, h)
    <3>1. PICK h \in F : step = Call(f, h) /\ next = Call(l, h)
      BY <2>15
    <3>2. step.frames = <<f, h>> /\ step.val = None /\ next.frames = <<l, h>> /\ next.val = None
      BY <3>1 DEF Call
    <3>3. x.stack = <<f, h>> /\ x.val = None
      BY <2>3, <2>6, <3>2, Zenon
    <3>4. y.stack = <<l, h>> /\ y.val = None
      BY <2>4, <2>7, <3>2, Zenon
    <3>5. l = Longer(b, f)
      BY DEF l
    <3>6. Beside(b, x, y)
      <4>1. /\ <<f, h>> # <<>> /\ Len(<<f, h>>) = 2 /\ Len(<<l, h>>) = 2
            /\ <<f, h>>[1] = f /\ <<l, h>>[1] = l /\ <<f, h>>[2] = h /\ <<l, h>>[2] = h
        OBVIOUS
      <4>2. \A i \in 2..2 : i = 2
        OBVIOUS
      <4>. QED
        BY <3>3, <3>4, <3>5, <4>1, <4>2 DEF Beside
    <3>. QED
      BY <3>6 DEF Ahead, x, y
  <2>. QED
    BY <2>5, <2>10, <2>11, <2>12, <2>13, <2>14, <2>15
<1>. QED
  BY <1>1, <1>2, <1>3, <1>4

\* A path is its directory and its last name.
LEMMA DirnameStraight ==
  ASSUME NEW p, Straight(p), p.segs # <<>>
  PROVE  /\ Straight(Dirname(p)) /\ Basename(p) = p.segs[Len(p.segs)] /\ Basename(p) \in Names
         /\ p.segs = Append(Dirname(p).segs, Basename(p))
<1>. DEFINE s == p.segs
            n == Len(s)
            fr == Front(s)
<1>1. s \in Seq(Names) /\ p \in [abs : {TRUE}, segs : Seq(Names)]
  BY DEF Straight
<1>2. n \in Nat /\ n >= 1 /\ s[n] \in Names
  BY <1>1
<1>3. Basename(p) = s[n]
  BY DEF Basename, Last
<1>4. fr \in Seq(Names) /\ Len(fr) = n - 1 /\ \A i \in 1..(n - 1) : fr[i] = s[i]
  <2>1. s \in Seq(Names) /\ s # <<>>
    BY <1>1
  <2>2. fr = SubSeq(s, 1, n - 1)
    BY DEF Front
  <2>. HIDE DEF s
  <2>3. PICK m \in Nat : m = n - 1
    BY <1>2
  <2>4. \A i \in 1..m : s[i] \in Names
    BY <1>2, <2>1, <2>3
  <2>5. /\ SubSeq(s, 1, m) \in Seq(Names)
        /\ Len(SubSeq(s, 1, m)) = IF 1 <= m THEN m - 1 + 1 ELSE 0
        /\ \A i \in 1..(m - 1 + 1) : SubSeq(s, 1, m)[i] = s[1 + i - 1]
    BY <2>3, <2>4, SubSeqProperties
  <2>6. fr \in Seq(Names) /\ Len(fr) = m
    BY <2>2, <2>3, <2>5
  <2>7. \A i \in 1..m : fr[i] = s[i]
    <3>1. m - 1 + 1 = m /\ \A i \in 1..m : 1 + i - 1 = i
      BY <2>3
    <3>. QED
      BY <2>2, <2>3, <2>5, <3>1
  <2>. QED
    BY <2>3, <2>6, <2>7
<1>5. Dirname(p) \in [abs : {TRUE}, segs : Seq(Names)] /\ Dirname(p).segs = fr
  <2>. HIDE DEF fr
  <2>1. Dirname(p) = [p EXCEPT !.segs = fr]
    BY DEF Dirname, fr
  <2>. QED
    BY <1>1, <1>4, <2>1
<1>6. s = Append(fr, s[n])
  <2>. HIDE DEF fr, s
  <2>1. PICK a : a = Append(fr, s[n])
    OBVIOUS
  <2>2. a \in Seq(Names) /\ Len(a) = n /\ a[n] = s[n] /\ \A i \in 1..(n - 1) : a[i] = fr[i]
    BY <1>2, <1>4, <2>1
  <2>3. ASSUME NEW i \in 1..n
        PROVE  a[i] = s[i]
    <3>1. i = n \/ i \in 1..(n - 1)
      BY <1>2
    <3>. QED
      BY <1>4, <2>2, <3>1
  <2>4. a = s
    BY <1>1, <2>2, <2>3, SeqEqual
  <2>. QED
    BY <2>1, <2>4
<1>. QED
  BY <1>2, <1>3, <1>5, <1>6 DEF Straight

\* A name that does not resolve is not in the directory it would be made in.
LEMMA Vacancy ==
  ASSUME NEW t, NEW top, Space(t, top), NEW p, Straight(p), p.segs # <<>>,
         Resolve(t, RootPath, p).err \notin {"ok", "runaway"},
         NEW T, Resolve(t, RootPath, Dirname(p)).err = "ok", Resolve(t, RootPath, Dirname(p)).target = T,
         TypeOf(t, T.dentry) = "dir"
  PROVE  Basename(p) \notin DOMAIN t.children[T.dentry]
<1>. DEFINE q == Dirname(p)
            b == Basename(p)
            n == WalkMax
            f == ResolveFrame(RootPath, q)
            l == ResolveFrame(RootPath, p)
<1>. SUFFICES ASSUME b \in DOMAIN t.children[T.dentry]
              PROVE  FALSE
  OBVIOUS
<1>1. Straight(q) /\ b \in Names /\ p.segs = Append(q.segs, b)
  BY DirnameStraight
<1>2. T \in Good(t, top)
  <2>1. Resolve(t, RootPath, q) \in Vals(t, top)
    BY <1>1, ResolveGood
  <2>. HIDE DEF q
  <2>. QED
    BY <2>1, ValFacts DEF q
<1>3. n \in Nat
  BY VfsFacts
<1>4. PICK g : /\ DOMAIN g = 0..n /\ g[0] = [stack |-> <<f>>, val |-> None]
               /\ \A i \in 1..n : g[i] = WalkStep(t, g[i - 1])
               /\ Walk(t, f) = IF g[n].stack = <<>> THEN g[n].val ELSE Fail("runaway")
  BY <1>3, WalkSteps
<1>5. PICK h : /\ DOMAIN h = 0..n /\ h[0] = [stack |-> <<l>>, val |-> None]
               /\ \A i \in 1..n : h[i] = WalkStep(t, h[i - 1])
               /\ Walk(t, l) = IF h[n].stack = <<>> THEN h[n].val ELSE Fail("runaway")
  BY <1>3, WalkSteps
<1>6. WalkOK(t, top, q.segs, g[0]) /\ WalkOK(t, top, p.segs, h[0])
  <2>1. WalkOK(t, top, q.segs, [stack |-> <<ResolveFrame(RootPath, q)>>, val |-> None])
    <3>1. Straight(q)
      BY <1>1
    <3>. HIDE DEF q
    <3>. QED
      BY <3>1, StraightStart
  <2>2. WalkOK(t, top, p.segs, [stack |-> <<ResolveFrame(RootPath, p)>>, val |-> None])
    BY StraightStart
  <2>. HIDE DEF q
  <2>3. WalkOK(t, top, q.segs, g[0])
    BY <1>4, <2>1, Zenon DEF f
  <2>4. WalkOK(t, top, p.segs, h[0])
    BY <1>5, <2>2, Zenon DEF l
  <2>. QED
    BY <2>3, <2>4
<1>7. l = Longer(b, f)
  <2>1. f = [call |-> "resolve", cur |-> RootPath, segs |-> q.segs]
    BY <1>1, StraightStart
  <2>2. l = [call |-> "resolve", cur |-> RootPath, segs |-> p.segs]
    BY StraightStart
  <2>. QED
    BY <1>1, <2>1, <2>2 DEF Longer
<1>. HIDE DEF q, b, n, f, l
<1>8. Ahead(b, T, g[0], h[0])
  <2>1. /\ g[0].stack = <<f>> /\ g[0].val = None /\ h[0].stack = <<l>> /\ h[0].val = None
        /\ <<f>> # <<>> /\ Len(<<f>>) = 1 /\ Len(<<l>>) = 1 /\ <<f>>[1] = f /\ <<l>>[1] = l
    BY <1>4, <1>5
  <2>2. \A i \in 2..1 : FALSE
    OBVIOUS
  <2>3. Beside(b, g[0], h[0])
    BY <1>7, <2>1, <2>2 DEF Beside
  <2>. QED
    BY <2>3 DEF Ahead
<1>. DEFINE S == {k \in 0..n : /\ WalkOK(t, top, q.segs, g[k]) /\ WalkOK(t, top, p.segs, h[k])
                               /\ Ahead(b, T, g[k], h[k])}
<1>9. 0 \in S
  BY <1>3, <1>6, <1>8
<1>10. ASSUME NEW i \in 1..n, i - 1 \in S
       PROVE  i \in S
  <2>1. g[i] = WalkStep(t, g[i - 1]) /\ h[i] = WalkStep(t, h[i - 1])
    BY <1>4, <1>5
  <2>2. /\ WalkOK(t, top, q.segs, g[i - 1]) /\ WalkOK(t, top, p.segs, h[i - 1])
        /\ Ahead(b, T, g[i - 1], h[i - 1])
    BY <1>10
  <2>3. WalkOK(t, top, q.segs, g[i]) /\ WalkOK(t, top, p.segs, h[i])
    BY <2>1, <2>2, WalkStepGood
  <2>4. b \in Names /\ b \in DOMAIN t.children[T.dentry]
    BY <1>1
  <2>5. Ahead(b, T, g[i], h[i])
    BY <1>2, <2>1, <2>2, <2>4, AheadStep
  <2>6. i \in 0..n
    BY <1>3
  <2>. QED
    BY <2>3, <2>5, <2>6
<1>11. n \in S
  <2>1. S \subseteq 0..n
    OBVIOUS
  <2>. HIDE DEF S
  <2>2. S = 0..n
    BY <1>3, <1>9, <1>10, <2>1, Inductive
  <2>. QED
    BY <1>3, <2>2
<1>12. Ahead(b, T, g[n], h[n])
  BY <1>11
<1>13. Resolve(t, RootPath, q) = IF g[n].stack = <<>> THEN g[n].val ELSE Fail("runaway")
  BY <1>4 DEF Resolve, f
<1>14. Resolve(t, RootPath, p) = IF h[n].stack = <<>> THEN h[n].val ELSE Fail("runaway")
  BY <1>5 DEF Resolve, l
<1>15. Fail("runaway").err = "runaway"
  BY DEF Fail
<1>16. Resolve(t, RootPath, q).err = "ok" /\ Resolve(t, RootPath, q).target = T
  BY DEF q
<1>17. g[n].stack = <<>> /\ g[n].val.err = "ok" /\ g[n].val.target = T
  BY <1>13, <1>15, <1>16
<1>18. Arrived(b, T, h[n]) \/ (h[n].stack = <<>> /\ h[n].val.err = "ok")
  BY <1>12, <1>17 DEF Ahead, Beside
<1>19. CASE Arrived(b, T, h[n])
  <2>1. h[n].stack # <<>>
    BY <1>19 DEF Arrived
  <2>. QED
    BY <1>14, <1>15, <2>1
<1>20. CASE h[n].stack = <<>> /\ h[n].val.err = "ok"
  BY <1>14, <1>20
<1>. QED
  BY <1>18, <1>19, <1>20

-----------------------------------------------------------------------------
(* The operations keep the tree.                                           *)

\* What lib::path makes of a path.
LEMMA PathsTyped ==
  ASSUME NEW p \in Paths
  PROVE  /\ p \in [abs : BOOLEAN, segs : Words]
         /\ p.abs => Straight(p)
<1>. DEFINE W(n) == UNION {[1..k -> Names] : k \in 0..n}
            Dots(k) == [i \in 1..k |-> DotDot]
            Abs == {[abs |-> TRUE, segs |-> w] : w \in W(MaxSegments)}
            Rel(k) == {[abs |-> FALSE, segs |-> Dots(k) \o w] : w \in W(MaxSegments - k)}
<1>1. MaxSegments \in Nat
  BY FileSystemAssumption DEF VfsAssumption
<1>2. Paths = Abs \cup UNION {Rel(k) : k \in 0..MaxSegments}
  BY DEF Paths
<1>3. ASSUME NEW n \in Int, NEW w \in W(n)
      PROVE  w \in Seq(Names)
  <2>1. PICK k \in 0..n : w \in [1..k -> Names]
    BY <1>3
  <2>2. k \in Nat
    BY <2>1
  <2>. QED
    BY <2>1, <2>2
<1>4. Seq(Names) \subseteq Words
  <2>1. Names \subseteq Names \cup {DotDot}
    OBVIOUS
  <2>. QED
    BY <2>1, SeqMonotonic DEF Words
<1>5. CASE p \in Abs
  <2>. HIDE DEF W
  <2>1. PICK w \in W(MaxSegments) : p = [abs |-> TRUE, segs |-> w]
    BY <1>5
  <2>2. w \in Seq(Names) /\ w \in Words
    BY <1>1, <1>3, <1>4, <2>1
  <2>. QED
    BY <2>1, <2>2 DEF Straight
<1>6. CASE \E k \in 0..MaxSegments : p \in Rel(k)
  <2>. HIDE DEF W, Dots
  <2>1. PICK k \in 0..MaxSegments : p \in Rel(k)
    BY <1>6
  <2>2. PICK w \in W(MaxSegments - k) : p = [abs |-> FALSE, segs |-> Dots(k) \o w]
    BY <2>1
  <2>3. w \in Words
    BY <1>1, <1>3, <1>4, <2>2
  <2>4. Dots(k) \in Words
    <3>1. k \in Nat /\ DotDot \in Names \cup {DotDot}
      BY <1>1
    <3>. QED
      BY <3>1 DEF Dots, Words
  <2>5. Dots(k) \o w \in Words
    BY <2>3, <2>4, ConcatProperties DEF Words
  <2>. QED
    BY <2>2, <2>5
<1>. HIDE DEF Abs, Rel
<1>. QED
  BY <1>2, <1>5, <1>6

\* The new state of the name space has all that the old one had.
Grows(t, top, u, tup) ==
  /\ Len(u.dentries) >= Len(t.dentries) /\ Len(u.inodes) >= Len(t.inodes) /\ Len(u.mounts) >= Len(t.mounts)
  /\ \A d \in Slots(t) : u.dentries[d] = t.dentries[d] /\ tup[d] = top[d]
  /\ \A i \in 1..Len(t.inodes) : u.inodes[i].type = t.inodes[i].type
  /\ \A m \in 1..Len(t.mounts) : u.mounts[m] = t.mounts[m]

Grown(t, top, u, tup) ==
  /\ Slots(t) \subseteq Slots(u)
  /\ Good(t, top) \subseteq Good(u, tup)
  /\ \A d \in Slots(t) : TypeOf(u, d) = TypeOf(t, d)
  /\ \A m \in 2..Len(t.mounts) :
       /\ u.mounts[m].root \in Slots(u) /\ tup[u.mounts[m].root] = u.mounts[m].root
       /\ TypeOf(u, u.mounts[m].root) = "dir"
       /\ u.mounts[m].mounted_on \in Good(u, tup) /\ u.mounts[m].mounted_on.mnt < m
  /\ u.mounts[1] = [root |-> TmpfsRoot, mounted_on |-> [mnt |-> 0, dentry |-> Root]]
  /\ tup[Root] = Root /\ tup[TmpfsRoot] = TmpfsRoot /\ tup[DevtmpfsRoot] = DevtmpfsRoot
  /\ u.dentries[Root].parent = Root /\ u.dentries[Root].name = "/"
  /\ TypeOf(u, Root) = "dir" /\ TypeOf(u, DevtmpfsRoot) = "dir"
  /\ \A d \in Slots(t) : \/ d = Root
                         \/ u.dentries[d].parent = 0 /\ tup[d] = d
                         \/ u.dentries[d].parent \in Slots(u) /\ tup[d] = tup[u.dentries[d].parent]

\* All that was there is still good.
LEMMA GrowsFacts ==
  ASSUME NEW t, NEW top, Space(t, top), NEW u, NEW tup, Grows(t, top, u, tup),
         u.dentries \in Seq(DentryType), u.inodes \in Seq([type : Types, nlink : Nat]),
         u.mounts \in Seq([root : Nat, mounted_on : [mnt : Nat, dentry : Nat]])
  PROVE  Grown(t, top, u, tup)
<1>1. /\ Len(t.mounts) \in Nat /\ Len(t.mounts) >= 1 /\ Len(t.dentries) \in Nat /\ Len(t.inodes) \in Nat
      /\ Root \in Slots(t) /\ TmpfsRoot \in Slots(t) /\ DevtmpfsRoot \in Slots(t)
      /\ \A d \in Slots(t) : t.dentries[d].inode \in 1..Len(t.inodes)
      /\ \A q \in Good(t, top) : /\ q.mnt \in 1..Len(t.mounts) /\ q.dentry \in Slots(t)
                                 /\ top[q.dentry] = RootOf(t, q.mnt)
  BY TypedFacts
<1>2. Len(u.dentries) \in Nat /\ Len(u.inodes) \in Nat /\ Len(u.mounts) \in Nat
  OBVIOUS
<1>3. Slots(t) \subseteq Slots(u)
  BY <1>1, <1>2 DEF Grows, Slots
<1>4. \A m \in 1..Len(t.mounts) : RootOf(u, m) = RootOf(t, m) /\ m \in 1..Len(u.mounts)
  <2>1. Len(u.mounts) >= Len(t.mounts) /\ \A m \in 1..Len(t.mounts) : u.mounts[m] = t.mounts[m]
    BY DEF Grows
  <2>2. \A m \in 1..Len(t.mounts) : m \in 1..Len(u.mounts)
    BY <1>1, <1>2, <2>1
  <2>. QED
    BY <2>1, <2>2 DEF RootOf
<1>5. Good(t, top) \subseteq Good(u, tup)
  <2>1. ASSUME NEW q \in Good(t, top)
        PROVE  q \in Good(u, tup)
    <3>1. q \in [mnt : 1..Len(t.mounts), dentry : Slots(t)]
      BY DEF Good
    <3>2. q.mnt \in 1..Len(t.mounts) /\ q.dentry \in Slots(t) /\ top[q.dentry] = RootOf(t, q.mnt)
      BY <1>1
    <3>3. tup[q.dentry] = RootOf(u, q.mnt)
      BY <1>4, <3>2 DEF Grows
    <3>4. q \in [mnt : 1..Len(u.mounts), dentry : Slots(u)]
      BY <1>3, <1>4, <3>1
    <3>. QED
      BY <3>3, <3>4 DEF Good
  <2>. QED
    BY <2>1
<1>6. \A d \in Slots(t) : TypeOf(u, d) = TypeOf(t, d)
  BY <1>1 DEF Grows, TypeOf
<1>7. ASSUME NEW m \in 2..Len(t.mounts)
      PROVE  /\ u.mounts[m].root \in Slots(u) /\ tup[u.mounts[m].root] = u.mounts[m].root
             /\ TypeOf(u, u.mounts[m].root) = "dir"
             /\ u.mounts[m].mounted_on \in Good(u, tup) /\ u.mounts[m].mounted_on.mnt < m
  <2>1. /\ t.mounts[m].root \in Slots(t) /\ top[t.mounts[m].root] = t.mounts[m].root
        /\ TypeOf(t, t.mounts[m].root) = "dir"
        /\ t.mounts[m].mounted_on \in Good(t, top) /\ t.mounts[m].mounted_on.mnt < m
    BY DEF Space, Mounted
  <2>2. u.mounts[m] = t.mounts[m]
    <3>1. m \in 1..Len(t.mounts)
      BY <1>1
    <3>. QED
      BY <3>1 DEF Grows
  <2>. QED
    BY <1>3, <1>5, <1>6, <2>1, <2>2 DEF Grows
<1>8. u.mounts[1] = [root |-> TmpfsRoot, mounted_on |-> [mnt |-> 0, dentry |-> Root]]
  <2>1. 1 \in 1..Len(t.mounts)
    BY <1>1
  <2>. QED
    BY <2>1 DEF Grows, Space, Mounted
<1>9. /\ tup[Root] = Root /\ tup[TmpfsRoot] = TmpfsRoot /\ tup[DevtmpfsRoot] = DevtmpfsRoot
      /\ u.dentries[Root].parent = Root /\ u.dentries[Root].name = "/"
  BY <1>1 DEF Grows, Space, Rooted
<1>10. TypeOf(u, Root) = "dir" /\ TypeOf(u, DevtmpfsRoot) = "dir"
  BY <1>1, <1>6 DEF Space, Rooted
<1>11. ASSUME NEW d \in Slots(t)
       PROVE  \/ d = Root
              \/ u.dentries[d].parent = 0 /\ tup[d] = d
              \/ u.dentries[d].parent \in Slots(u) /\ tup[d] = tup[u.dentries[d].parent]
  <2>1. \/ d = Root
        \/ t.dentries[d].parent = 0 /\ top[d] = d
        \/ t.dentries[d].parent \in Slots(t) /\ top[d] = top[t.dentries[d].parent]
    BY DEF Space, Rooted
  <2>2. u.dentries[d] = t.dentries[d] /\ tup[d] = top[d]
    BY DEF Grows
  <2>. QED
    BY <1>3, <2>1, <2>2 DEF Grows
<1>. QED
  BY <1>3, <1>5, <1>6, <1>7, <1>8, <1>9, <1>10, <1>11 DEF Grown

\* A dentry more, without entries.
OneLonger(t, ds, e, d) ==
  /\ ds \in Seq(DentryType) /\ Len(ds) = d /\ d \in Nat /\ d >= 4 /\ 1..Len(ds) = Slots(t) \cup {d}
  /\ d \notin Slots(t) /\ ds[d] = e /\ \A x \in Slots(t) : ds[x] = t.dentries[x]
  /\ Len(t.dentries) < d /\ Len(t.dentries) \in Nat

\* A dentry at the end.
LEMMA OneMore ==
  ASSUME NEW t, NEW top, Space(t, top), NEW e \in DentryType
  PROVE  OneLonger(t, Append(t.dentries, e), e, Len(t.dentries) + 1)
<1>1. t.dentries \in Seq(DentryType) /\ Len(t.dentries) \in Nat /\ Len(t.dentries) >= 3
  BY DEF Space, Typed
<1>. DEFINE D == DentryType
<1>2. e \in D /\ t.dentries \in Seq(D)
  BY <1>1
<1>. HIDE DEF D
<1>. SUFFICES LET ds == Append(t.dentries, e)
                  d == Len(t.dentries) + 1
              IN  /\ ds \in Seq(D) /\ Len(ds) = d /\ d \in Nat /\ d >= 4 /\ 1..Len(ds) = Slots(t) \cup {d}
                  /\ d \notin Slots(t) /\ ds[d] = e /\ \A x \in Slots(t) : ds[x] = t.dentries[x]
                  /\ Len(t.dentries) < d /\ Len(t.dentries) \in Nat
  BY DEF OneLonger, D
<1>. QED
  BY <1>1, <1>2 DEF Slots

IsWith(f, k, v, g) ==
  DOMAIN g = DOMAIN f \cup {k} /\ g[k] = v /\ \A x \in DOMAIN f : x # k => g[x] = f[x]

LEMMA WithFacts ==
  ASSUME NEW f, NEW k, NEW v
  PROVE  IsWith(f, k, v, With(f, k, v))
  BY DEF With, IsWith

Inode == [type : Types, nlink : Nat]

\* A name in a directory, or what is taken for one.
Inserted(t, u, dir, e, nodes, d) ==
  /\ d = Len(t.dentries) + 1
  /\ u = [dentries |-> Append(t.dentries, e),
          children |-> With(With(t.children, d, << >>), dir, With(t.children[dir], e.name, d)),
          inodes |-> nodes, mounts |-> t.mounts]

\* The inodes of the old state, whose types stay.
InodesKept(t, nodes) ==
  /\ nodes \in Seq(Inode) /\ Len(nodes) \in Nat /\ Len(nodes) >= Len(t.inodes)
  /\ \A i \in 1..Len(t.inodes) : nodes[i].type = t.inodes[i].type

LEMMA InsertedFacts ==
  ASSUME NEW t, NEW top, Space(t, top), NEW dir \in Slots(t), NEW e \in DentryType, NEW nodes, NEW d, NEW u,
         Inserted(t, u, dir, e, nodes, d)
  PROVE  /\ u.dentries \in Seq(DentryType) /\ Len(u.dentries) = d /\ d \in Nat /\ d >= 4
         /\ Slots(u) = Slots(t) \cup {d} /\ d \notin Slots(t) /\ u.dentries[d] = e
         /\ \A x \in Slots(t) : u.dentries[x] = t.dentries[x]
         /\ DOMAIN u.children = Slots(u) /\ u.children[d] = << >>
         /\ u.children[dir] = With(t.children[dir], e.name, d)
         /\ \A x \in Slots(t) : x # dir => u.children[x] = t.children[x]
         /\ u.inodes = nodes /\ u.mounts = t.mounts /\ Len(t.dentries) < d
         /\ u = [dentries |-> u.dentries, children |-> u.children, inodes |-> u.inodes, mounts |-> u.mounts]
<1>. DEFINE k == With(t.children, d, << >>)
            c == With(t.children[dir], e.name, d)
            kk == With(k, dir, c)
<1>1. d = Len(t.dentries) + 1
  BY DEF Inserted
<1>2. u = [dentries |-> Append(t.dentries, e), children |-> kk, inodes |-> nodes, mounts |-> t.mounts]
  BY DEF Inserted
<1>. HIDE DEF kk
<1>3. /\ u.dentries = Append(t.dentries, e) /\ u.children = kk /\ u.inodes = nodes /\ u.mounts = t.mounts
      /\ u = [dentries |-> u.dentries, children |-> u.children, inodes |-> u.inodes, mounts |-> u.mounts]
  BY <1>2
<1>4. PICK ds : ds = Append(t.dentries, e)
  OBVIOUS
<1>5. /\ ds \in Seq(DentryType) /\ Len(ds) = d /\ d \in Nat /\ d >= 4 /\ 1..Len(ds) = Slots(t) \cup {d}
      /\ d \notin Slots(t) /\ ds[d] = e /\ \A x \in Slots(t) : ds[x] = t.dentries[x]
      /\ Len(t.dentries) < d /\ Len(t.dentries) \in Nat
  <2>1. OneLonger(t, ds, e, d)
    BY <1>1, <1>4, OneMore
  <2>. QED
    BY <2>1, Zenon DEF OneLonger
<1>6. u.dentries = ds /\ Slots(u) = Slots(t) \cup {d}
  BY <1>3, <1>4, <1>5 DEF Slots
<1>7. DOMAIN t.children = Slots(t)
  BY DEF Space, Typed
<1>8. DOMAIN k = Slots(u) /\ k[d] = << >> /\ \A x \in Slots(t) : k[x] = t.children[x]
  <2>1. /\ DOMAIN k = DOMAIN t.children \cup {d} /\ k[d] = << >>
        /\ \A x \in DOMAIN t.children : x # d => k[x] = t.children[x]
    <3>1. PICK none : none = << >>
      OBVIOUS
    <3>2. k = With(t.children, d, none)
      BY <3>1 DEF k
    <3>. HIDE DEF k
    <3>3. /\ DOMAIN k = DOMAIN t.children \cup {d} /\ k[d] = none
          /\ \A x \in DOMAIN t.children : x # d => k[x] = t.children[x]
      <4>1. IsWith(t.children, d, none, k)
        BY <3>2, WithFacts
      <4>. QED
        BY <4>1, Zenon DEF IsWith
    <3>. QED
      BY <3>1, <3>3
  <2>. HIDE DEF k
  <2>. QED
    BY <1>5, <1>6, <1>7, <2>1
<1>. HIDE DEF k, c
<1>9. DOMAIN kk = DOMAIN k \cup {dir} /\ kk[dir] = c /\ \A x \in DOMAIN k : x # dir => kk[x] = k[x]
  <2>1. kk = With(k, dir, c)
    BY DEF kk
  <2>. QED
    <3>1. IsWith(k, dir, c, kk)
      BY <2>1, WithFacts
    <3>. QED
      BY <3>1, Zenon DEF IsWith
<1>10. dir \in Slots(u) /\ dir # d /\ d \in Slots(u) /\ \A x \in Slots(t) : x \in Slots(u)
  BY <1>5, <1>6
<1>11. DOMAIN kk = Slots(u) /\ kk[d] = << >> /\ kk[dir] = c /\ \A x \in Slots(t) : x # dir => kk[x] = t.children[x]
  BY <1>8, <1>9, <1>10
<1>. QED
  BY <1>3, <1>5, <1>6, <1>11 DEF c

\* A new name keeps the tree.
LEMMA InsertSpace ==
  ASSUME NEW t, NEW top, Space(t, top), NEW dir \in Slots(t), NEW e \in DentryType, e.name \in Names,
         e.parent = dir, NEW nodes, InodesKept(t, nodes), e.inode \in 1..Len(nodes),
         NEW d, NEW u, Inserted(t, u, dir, e, nodes, d)
  PROVE  (\E tup : Space(u, tup)) /\ \A x \in Slots(t) : TypeOf(u, x) = TypeOf(t, x)
<1>1. /\ Len(t.mounts) \in Nat /\ Len(t.mounts) >= 1 /\ Len(t.dentries) \in Nat /\ Len(t.inodes) \in Nat
      /\ \A x \in Slots(t) : t.dentries[x].inode \in 1..Len(t.inodes)
  BY TypedFacts
<1>3. /\ u.dentries \in Seq(DentryType) /\ Len(u.dentries) = d /\ d \in Nat /\ d >= 4
      /\ Slots(u) = Slots(t) \cup {d} /\ d \notin Slots(t) /\ u.dentries[d] = e
      /\ Len(t.dentries) < d /\ \A x \in Slots(t) : u.dentries[x] = t.dentries[x]
  BY InsertedFacts
<1>6. /\ DOMAIN u.children = Slots(u) /\ u.children[d] = << >>
      /\ u.children[dir] = With(t.children[dir], e.name, d)
      /\ \A x \in Slots(t) : x # dir => u.children[x] = t.children[x]
  BY InsertedFacts
<1>4. DOMAIN top = Slots(t)
  BY DEF Space, Rooted
<1>2. PICK tup : tup = With(top, d, top[dir])
  OBVIOUS
<1>5. DOMAIN tup = Slots(u) /\ tup[d] = top[dir] /\ \A x \in Slots(t) : tup[x] = top[x]
  <2>1. DOMAIN tup = DOMAIN top \cup {d} /\ tup[d] = top[dir] /\ \A x \in DOMAIN top : x # d => tup[x] = top[x]
    <3>1. IsWith(top, d, top[dir], tup)
      BY <1>2, WithFacts
    <3>. QED
      BY <3>1, Zenon DEF IsWith
  <2>. QED
    BY <1>3, <1>4, <2>1
<1>7. /\ u.inodes = nodes /\ u.mounts = t.mounts /\ nodes \in Seq(Inode) /\ Len(nodes) >= Len(t.inodes)
      /\ Len(nodes) \in Nat /\ \A i \in 1..Len(t.inodes) : nodes[i].type = t.inodes[i].type
  BY InsertedFacts DEF InodesKept
<1>8. Grows(t, top, u, tup)
  <2>1. Len(u.dentries) >= Len(t.dentries) /\ Len(u.mounts) >= Len(t.mounts)
    BY <1>1, <1>3, <1>7
  <2>. QED
    BY <1>3, <1>5, <1>7, <2>1 DEF Grows
<1>9. u.mounts \in Seq([root : Nat, mounted_on : [mnt : Nat, dentry : Nat]])
  BY <1>7 DEF Space, Typed
<1>0. Grown(t, top, u, tup)
  <2>1. u.inodes \in Seq([type : Types, nlink : Nat])
    BY <1>7 DEF Inode
  <2>. QED
    BY <1>3, <1>8, <1>9, <2>1, GrowsFacts
<1>10. /\ \A x \in Slots(t) : TypeOf(u, x) = TypeOf(t, x)
       /\ tup[Root] = Root /\ tup[TmpfsRoot] = TmpfsRoot /\ tup[DevtmpfsRoot] = DevtmpfsRoot
       /\ u.dentries[Root].parent = Root /\ u.dentries[Root].name = "/"
       /\ TypeOf(u, Root) = "dir" /\ TypeOf(u, DevtmpfsRoot) = "dir"
       /\ \A x \in Slots(t) : \/ x = Root
                              \/ u.dentries[x].parent = 0 /\ tup[x] = x
                              \/ u.dentries[x].parent \in Slots(u) /\ tup[x] = tup[u.dentries[x].parent]
  BY <1>0, Zenon DEF Grown
<1>11. Mounted(u, tup)
  <2>1. /\ \A m \in 2..Len(t.mounts) :
              /\ u.mounts[m].root \in Slots(u) /\ tup[u.mounts[m].root] = u.mounts[m].root
              /\ TypeOf(u, u.mounts[m].root) = "dir"
              /\ u.mounts[m].mounted_on \in Good(u, tup) /\ u.mounts[m].mounted_on.mnt < m
        /\ u.mounts[1] = [root |-> TmpfsRoot, mounted_on |-> [mnt |-> 0, dentry |-> Root]]
    BY <1>0, Zenon DEF Grown
  <2>. QED
    <3>1. Len(u.mounts) = Len(t.mounts)
      BY <1>7
    <3>2. \A m \in 2..Len(u.mounts) :
            /\ u.mounts[m].root \in Slots(u) /\ tup[u.mounts[m].root] = u.mounts[m].root
            /\ TypeOf(u, u.mounts[m].root) = "dir"
            /\ u.mounts[m].mounted_on \in Good(u, tup) /\ u.mounts[m].mounted_on.mnt < m
      BY <2>1, <3>1
    <3>. QED
      BY <2>1, <3>2, Zenon DEF Mounted
<1>12. Rooted(u, tup)
  <2>1. dir \in Slots(u) /\ u.dentries[d].parent = dir /\ tup[d] = tup[dir]
    BY <1>3, <1>5
  <2>. QED
    BY <1>3, <1>5, <1>10, <2>1 DEF Rooted
<1>13. Typed(u)
  <2>1. u = [dentries |-> u.dentries, children |-> u.children, inodes |-> u.inodes, mounts |-> u.mounts]
    BY InsertedFacts
  <2>2. u.inodes \in Seq([type : Types, nlink : Nat])
    BY <1>7 DEF Inode
  <2>3. \A x \in Slots(u) : u.dentries[x].inode \in 1..Len(u.inodes)
    <3>2. \A x \in Slots(t) : t.dentries[x].inode \in 1..Len(nodes)
      BY <1>1, <1>7
    <3>. QED
      BY <1>3, <1>7, <3>2
  <2>4. ASSUME NEW x \in Slots(u), NEW n \in DOMAIN u.children[x]
        PROVE  /\ n \in Names /\ u.children[x][n] \in Slots(u)
               /\ u.dentries[u.children[x][n]].name = n /\ u.dentries[u.children[x][n]].parent = x
    <3>1. \A y \in Slots(t) : \A m \in DOMAIN t.children[y] :
             /\ m \in Names /\ t.children[y][m] \in Slots(t)
             /\ t.dentries[t.children[y][m]].name = m /\ t.dentries[t.children[y][m]].parent = y
      BY DEF Space, Typed
    <3>2. \A y \in Slots(t) : \A m \in DOMAIN t.children[y] :
             /\ m \in Names /\ t.children[y][m] \in Slots(u)
             /\ u.dentries[t.children[y][m]].name = m /\ u.dentries[t.children[y][m]].parent = y
      BY <1>3, <3>1
    <3>3. CASE x = d
      <4>1. DOMAIN u.children[x] = {}
        BY <1>6, <3>3
      <4>. QED
        BY <4>1
    <3>4. CASE x = dir
      <4>1. u.children[x] = With(t.children[dir], e.name, d)
        BY <1>6, <3>4
      <4>2. /\ DOMAIN u.children[x] = DOMAIN t.children[dir] \cup {e.name} /\ u.children[x][e.name] = d
            /\ \A m \in DOMAIN t.children[dir] : m # e.name => u.children[x][m] = t.children[dir][m]
        <5>1. IsWith(t.children[dir], e.name, d, u.children[x])
          BY <4>1, WithFacts
        <5>. QED
          BY <5>1, Zenon DEF IsWith
      <4>3. d \in Slots(u)
        BY <1>3
      <4>4. CASE n = e.name
        BY <1>3, <3>4, <4>2, <4>3, <4>4
      <4>5. CASE n # e.name
        BY <3>2, <3>4, <4>2, <4>5
      <4>. QED
        BY <4>4, <4>5
    <3>5. CASE x # d /\ x # dir
      <4>1. x \in Slots(t) /\ u.children[x] = t.children[x]
        BY <1>3, <1>6, <3>5
      <4>. QED
        BY <3>2, <4>1
    <3>. QED
      BY <3>3, <3>4, <3>5
  <2>5. Len(u.dentries) >= 3 /\ Len(u.mounts) >= 1
    BY <1>1, <1>3, <1>7
  <2>. QED
    BY <1>3, <1>6, <1>9, <2>1, <2>2, <2>3, <2>4, <2>5 DEF Typed
<1>. QED
  BY <1>10, <1>11, <1>12, <1>13 DEF Space

\* A mount more, of a tree that is there or of a new one.
LEMMA MountSpace ==
  ASSUME NEW t, NEW top, Space(t, top), NEW q \in Good(t, top), NEW u, NEW root,
         u.mounts = Append(t.mounts, [root |-> root, mounted_on |-> q]),
         NEW tup, Grows(t, top, u, tup), Typed(u), DOMAIN tup = Slots(u),
         root \in Slots(u), tup[root] = root, TypeOf(u, root) = "dir",
         \A d \in Slots(u) \ Slots(t) : u.dentries[d].parent = 0 /\ tup[d] = d
  PROVE  Space(u, tup)
<1>. DEFINE n == Len(t.mounts)
            M == [root : Nat, mounted_on : [mnt : Nat, dentry : Nat]]
            new == [root |-> root, mounted_on |-> q]
<1>1. /\ u.dentries \in Seq(DentryType) /\ u.inodes \in Seq([type : Types, nlink : Nat]) /\ u.mounts \in Seq(M)
  BY DEF Typed
<1>2. Grown(t, top, u, tup)
  BY <1>1, GrowsFacts
<1>3. n \in Nat /\ n >= 1 /\ q.mnt \in 1..n
  BY TypedFacts
<1>4. t.mounts \in Seq(M)
  BY DEF Space, Typed
<1>. HIDE DEF M
<1>5. Len(u.mounts) = n + 1 /\ u.mounts[n + 1] = new
  <2>. HIDE DEF new
  <2>1. u.mounts = Append(t.mounts, new)
    BY DEF new
  <2>. QED
    BY <1>3, <1>4, <2>1
<1>6. q \in Good(u, tup)
  BY <1>2 DEF Grown
<1>7. ASSUME NEW m \in 2..Len(u.mounts)
      PROVE  /\ u.mounts[m].root \in Slots(u) /\ tup[u.mounts[m].root] = u.mounts[m].root
             /\ TypeOf(u, u.mounts[m].root) = "dir"
             /\ u.mounts[m].mounted_on \in Good(u, tup) /\ u.mounts[m].mounted_on.mnt < m
  <2>1. CASE m = n + 1
    <3>1. u.mounts[m].root = root /\ u.mounts[m].mounted_on = q
      BY <1>5, <2>1
    <3>. QED
      BY <1>3, <1>6, <2>1, <3>1
  <2>2. CASE m # n + 1
    <3>1. m \in 2..Len(t.mounts)
      BY <1>3, <1>5, <2>2
    <3>. QED
      BY <1>2, <3>1, Zenon DEF Grown
  <2>. QED
    BY <2>1, <2>2
<1>8. Mounted(u, tup)
  BY <1>2, <1>7, Zenon DEF Mounted, Grown
<1>9. Rooted(u, tup)
  <2>1. /\ tup[Root] = Root /\ tup[TmpfsRoot] = TmpfsRoot /\ tup[DevtmpfsRoot] = DevtmpfsRoot
        /\ u.dentries[Root].parent = Root /\ u.dentries[Root].name = "/"
        /\ TypeOf(u, Root) = "dir" /\ TypeOf(u, DevtmpfsRoot) = "dir"
        /\ \A d \in Slots(t) : \/ d = Root
                               \/ u.dentries[d].parent = 0 /\ tup[d] = d
                               \/ u.dentries[d].parent \in Slots(u) /\ tup[d] = tup[u.dentries[d].parent]
    BY <1>2, Zenon DEF Grown
  <2>2. ASSUME NEW d \in Slots(u)
        PROVE  \/ d = Root
               \/ u.dentries[d].parent = 0 /\ tup[d] = d
               \/ u.dentries[d].parent \in Slots(u) /\ tup[d] = tup[u.dentries[d].parent]
    <3>1. CASE d \in Slots(t)
      BY <2>1, <3>1, Zenon
    <3>2. CASE d \notin Slots(t)
      BY <3>2, Zenon
    <3>. QED
      BY <3>1, <3>2
  <2>. QED
    BY <2>1, <2>2, Zenon DEF Rooted
<1>. QED
  BY <1>8, <1>9 DEF Space

\* The names of an inode, and whether it is the root of a file system.
Links(t, i) == {d \in Slots(t) : Listed(t, d) /\ t.dentries[d].inode = i}
RootIno(t, i) == \E d \in Slots(t) : t.dentries[d].inode = i /\ t.dentries[d].name \notin Names
Extra(t, i) == IF RootIno(t, i) THEN 1 ELSE 0
Clean(t) == \A d \in Slots(t) : t.children[d] # << >> => TypeOf(t, d) = "dir"

\* No link count is too small, and while all names are in directories it is
\* exact.
Linked(t) ==
  \A i \in 1..Len(t.inodes) :
    /\ t.inodes[i].nlink >= Cardinality(Links(t, i)) + Extra(t, i)
    /\ Clean(t) => t.inodes[i].nlink = Cardinality(Links(t, i)) + Extra(t, i)

\* The names of an inode can be counted.
LEMMA LinksFinite ==
  ASSUME NEW t, NEW top, Space(t, top), NEW i
  PROVE  /\ IsFiniteSet(Links(t, i)) /\ Cardinality(Links(t, i)) \in Nat
         /\ Extra(t, i) \in Nat
<1>1. Links(t, i) \subseteq 1..Len(t.dentries) /\ Len(t.dentries) \in Nat
  BY TypedFacts DEF Links, Slots
<1>2. IsFiniteSet(1..Len(t.dentries))
  BY <1>1, FS_Interval
<1>3. IsFiniteSet(Links(t, i))
  BY <1>1, <1>2, FS_Subset
<1>. QED
  BY <1>3, FS_CardinalityType DEF Extra

\* Where a dentry is listed.
LEMMA ListedAt ==
  ASSUME NEW t, NEW top, Space(t, top), NEW d
  PROVE  Listed(t, d) <=> \E dir \in Slots(t) : \E n \in DOMAIN t.children[dir] : t.children[dir][n] = d
  BY DEF Listed, Range, Space, Typed

\* The link count of an inode, 0 if it does not exist yet.
Count(t, i) == IF i \in 1..Len(t.inodes) THEN t.inodes[i].nlink ELSE 0

\* An inode that does not exist has no name.
LEMMA LinkedCount ==
  ASSUME NEW t, NEW top, Space(t, top), Linked(t), NEW i
  PROVE  /\ Count(t, i) \in Nat
         /\ Count(t, i) >= Cardinality(Links(t, i)) + Extra(t, i)
         /\ Clean(t) => Count(t, i) = Cardinality(Links(t, i)) + Extra(t, i)
<1>1. CASE i \in 1..Len(t.inodes)
  <2>1. t.inodes[i].nlink \in Nat
    <3>1. t.inodes \in Seq(Inode)
      BY DEF Space, Typed, Inode
    <3>2. t.inodes[i] \in Inode
      BY <1>1, <3>1
    <3>. QED
      BY <3>2 DEF Inode
  <2>2. Count(t, i) = t.inodes[i].nlink
    BY <1>1 DEF Count
  <2>. QED
    BY <1>1, <2>1, <2>2 DEF Linked
<1>2. CASE i \notin 1..Len(t.inodes)
  <2>1. \A d \in Slots(t) : t.dentries[d].inode # i
    BY <1>2, TypedFacts
  <2>2. Links(t, i) = {} /\ ~RootIno(t, i)
    BY <2>1 DEF Links, RootIno
  <2>3. Cardinality(Links(t, i)) = 0 /\ Extra(t, i) = 0
    BY <2>2, FS_EmptySet DEF Extra
  <2>4. Count(t, i) = 0
    BY <1>2 DEF Count
  <2>. QED
    BY <2>3, <2>4
<1>. QED
  BY <1>1, <1>2

\* A new name, and one link more of its inode.
LEMMA InsertLinked ==
  ASSUME NEW t, NEW top, Space(t, top), Linked(t), NEW dir \in Slots(t), NEW e \in DentryType, e.name \in Names,
         e.parent = dir, NEW nodes, InodesKept(t, nodes), e.inode \in 1..Len(nodes),
         NEW d, NEW u, Inserted(t, u, dir, e, nodes, d),
         TypeOf(t, dir) = "dir" => e.name \notin DOMAIN t.children[dir],
         \A i \in 1..Len(nodes) : nodes[i].nlink = Count(t, i) + (IF i = e.inode THEN 1 ELSE 0)
  PROVE  Linked(u)
<1>1. /\ Slots(u) = Slots(t) \cup {d} /\ d \notin Slots(t) /\ u.dentries[d] = e
      /\ \A x \in Slots(t) : u.dentries[x] = t.dentries[x]
      /\ u.children[d] = << >> /\ u.children[dir] = With(t.children[dir], e.name, d)
      /\ \A x \in Slots(t) : x # dir => u.children[x] = t.children[x]
      /\ u.inodes = nodes
  BY InsertedFacts
<1>2. \A x \in Slots(t) : TypeOf(u, x) = TypeOf(t, x)
  BY InsertSpace
<1>3. PICK tup : Space(u, tup)
  BY InsertSpace
<1>4. /\ DOMAIN u.children[dir] = DOMAIN t.children[dir] \cup {e.name} /\ u.children[dir][e.name] = d
      /\ \A m \in DOMAIN t.children[dir] : m # e.name => u.children[dir][m] = t.children[dir][m]
  <2>1. IsWith(t.children[dir], e.name, d, u.children[dir])
    BY <1>1, WithFacts
  <2>. QED
    BY <2>1, Zenon DEF IsWith
<1>5. DOMAIN u.children[d] = {}
  BY <1>1
<1>6. \A x \in Slots(t) : \A n \in DOMAIN t.children[x] : t.children[x][n] \in Slots(t)
  BY DEF Space, Typed
<1>7. ASSUME NEW x \in Slots(u), Listed(u, x)
      PROVE  x = d \/ Listed(t, x)
  <2>1. PICK y \in Slots(u) : \E n \in DOMAIN u.children[y] : u.children[y][n] = x
    BY <1>3, <1>7, ListedAt
  <2>2. PICK n \in DOMAIN u.children[y] : u.children[y][n] = x
    BY <2>1
  <2>3. y # d
    BY <1>5, <2>2
  <2>4. y \in Slots(t)
    BY <1>1, <2>3
  <2>5. CASE y = dir /\ n = e.name
    BY <1>4, <2>2, <2>5
  <2>6. CASE ~(y = dir /\ n = e.name)
    <3>1. n \in DOMAIN t.children[y] /\ t.children[y][n] = x
      BY <1>1, <1>4, <2>2, <2>4, <2>6
    <3>. QED
      BY <2>4, <3>1, ListedAt
  <2>. QED
    BY <2>5, <2>6
<1>8. Listed(u, d)
  <2>1. dir \in Slots(u) /\ e.name \in DOMAIN u.children[dir] /\ u.children[dir][e.name] = d
    BY <1>1, <1>4
  <2>. QED
    BY <1>3, <2>1, ListedAt
<1>9. ASSUME e.name \notin DOMAIN t.children[dir], NEW x \in Slots(t), Listed(t, x)
      PROVE  Listed(u, x)
  <2>1. PICK y \in Slots(t) : \E n \in DOMAIN t.children[y] : t.children[y][n] = x
    BY <1>9, ListedAt
  <2>2. PICK n \in DOMAIN t.children[y] : t.children[y][n] = x
    BY <2>1
  <2>3. n \in DOMAIN u.children[y] /\ u.children[y][n] = x
    <3>1. CASE y = dir
      BY <1>4, <1>9, <2>2, <3>1
    <3>2. CASE y # dir
      BY <1>1, <2>2, <3>2
    <3>. QED
      BY <3>1, <3>2
  <2>4. y \in Slots(u)
    BY <1>1
  <2>. QED
    BY <1>3, <2>3, <2>4, ListedAt
<1>10. Clean(u) => Clean(t) /\ TypeOf(t, dir) = "dir"
  <2>. SUFFICES ASSUME Clean(u)
                PROVE  Clean(t) /\ TypeOf(t, dir) = "dir"
    OBVIOUS
  <2>1. u.children[dir] # << >>
    <3>1. u.children[dir] = << >> => DOMAIN u.children[dir] = {}
      OBVIOUS
    <3>. QED
      BY <1>4, <3>1
  <2>2. TypeOf(t, dir) = "dir"
    <3>1. dir \in Slots(u) /\ TypeOf(u, dir) = TypeOf(t, dir)
      BY <1>1, <1>2
    <3>. QED
      BY <2>1, <3>1 DEF Clean
  <2>3. ASSUME NEW x \in Slots(t), t.children[x] # << >>
        PROVE  TypeOf(t, x) = "dir"
    <3>1. CASE x = dir
      BY <2>2, <3>1
    <3>2. CASE x # dir
      <4>1. x \in Slots(u) /\ u.children[x] = t.children[x] /\ TypeOf(u, x) = TypeOf(t, x)
        BY <1>1, <1>2, <3>2
      <4>. QED
        BY <2>3, <4>1 DEF Clean
    <3>. QED
      BY <3>1, <3>2
  <2>. QED
    BY <2>2, <2>3 DEF Clean
<1>11. ASSUME NEW i \in 1..Len(nodes)
       PROVE  /\ nodes[i].nlink >= Cardinality(Links(u, i)) + Extra(u, i)
              /\ Clean(u) => nodes[i].nlink = Cardinality(Links(u, i)) + Extra(u, i)
  <2>. DEFINE A == Links(t, i)
              B == Links(u, i)
              one == IF i = e.inode THEN 1 ELSE 0
  <2>1. /\ IsFiniteSet(A) /\ Cardinality(A) \in Nat /\ Extra(t, i) \in Nat
        /\ IsFiniteSet(B) /\ Cardinality(B) \in Nat
    BY <1>3, LinksFinite
  <2>2. /\ Count(t, i) \in Nat /\ Count(t, i) >= Cardinality(A) + Extra(t, i)
        /\ Clean(t) => Count(t, i) = Cardinality(A) + Extra(t, i)
    BY LinkedCount
  <2>3. Extra(u, i) = Extra(t, i)
    <3>1. RootIno(u, i) <=> RootIno(t, i)
      BY <1>1 DEF RootIno
    <3>. QED
      BY <3>1 DEF Extra
  <2>4. d \notin A
    BY <1>1 DEF Links
  <2>5. B \subseteq A \cup (IF i = e.inode THEN {d} ELSE {})
    BY <1>1, <1>7 DEF Links
  <2>6. e.name \notin DOMAIN t.children[dir] => B = A \cup (IF i = e.inode THEN {d} ELSE {})
    BY <1>1, <1>8, <1>9, <2>5 DEF Links
  <2>7. /\ IsFiniteSet(A \cup {d}) /\ Cardinality(A \cup {d}) = Cardinality(A) + 1
    BY <2>1, <2>4, FS_AddElement
  <2>. HIDE DEF A, B
  <2>8. Cardinality(B) <= Cardinality(A) + one /\ (e.name \notin DOMAIN t.children[dir] => Cardinality(B) = Cardinality(A) + one)
    <3>1. CASE i = e.inode
      <4>1. Cardinality(B) <= Cardinality(A \cup {d})
        BY <2>5, <2>7, <3>1, FS_Subset
      <4>. QED
        BY <2>1, <2>6, <2>7, <3>1, <4>1
    <3>2. CASE i # e.inode
      <4>1. Cardinality(B) <= Cardinality(A)
        <5>1. B \subseteq A
          BY <2>5, <3>2
        <5>. QED
          BY <2>1, <5>1, FS_Subset
      <4>2. e.name \notin DOMAIN t.children[dir] => B = A
        BY <2>6, <3>2
      <4>. QED
        BY <2>1, <3>2, <4>1, <4>2
    <3>. QED
      BY <3>1, <3>2
  <2>9. nodes[i].nlink = Count(t, i) + one /\ one \in Nat
    OBVIOUS
  <2>. HIDE DEF one
  <2>10. nodes[i].nlink >= Cardinality(B) + Extra(u, i)
    BY <2>1, <2>2, <2>3, <2>8, <2>9
  <2>11. Clean(u) => nodes[i].nlink = Cardinality(B) + Extra(u, i)
    <3>1. Clean(u) => Cardinality(B) = Cardinality(A) + one /\ Count(t, i) = Cardinality(A) + Extra(t, i)
      BY <1>10, <2>2, <2>8
    <3>. QED
      BY <2>1, <2>2, <2>3, <2>9, <3>1
  <2>. QED
    BY <2>10, <2>11 DEF B
<1>. QED
  BY <1>1, <1>11 DEF Linked

\* unlink() of the name b of the dentry c in a directory.
Unlinked(t, u, dir, b, ino) ==
  u = [dentries |-> t.dentries,
       children |-> [t.children EXCEPT ![dir] = [n \in DOMAIN @ \ {b} |-> @[n]]],
       inodes |-> [t.inodes EXCEPT ![ino].nlink = @ - 1],
       mounts |-> t.mounts]

OneLess(nodes, ino) == [nodes EXCEPT ![ino].nlink = nodes[ino].nlink - 1]

LEMMA UnlinkedFacts ==
  ASSUME NEW t, NEW top, Space(t, top), NEW dir \in Slots(t), NEW b, NEW ino, NEW u, Unlinked(t, u, dir, b, ino)
  PROVE  /\ u.dentries = t.dentries /\ u.mounts = t.mounts /\ Slots(u) = Slots(t)
         /\ u = [dentries |-> u.dentries, children |-> u.children, inodes |-> u.inodes, mounts |-> u.mounts]
         /\ DOMAIN u.children = Slots(t) /\ \A x \in Slots(t) : x # dir => u.children[x] = t.children[x]
         /\ DOMAIN u.children[dir] = DOMAIN t.children[dir] \ {b}
         /\ \A n \in DOMAIN t.children[dir] : n # b => u.children[dir][n] = t.children[dir][n]
         /\ u.inodes = OneLess(t.inodes, ino)
<1>. DEFINE c == [n \in DOMAIN t.children[dir] \ {b} |-> t.children[dir][n]]
            k == [t.children EXCEPT ![dir] = c]
            v == OneLess(t.inodes, ino)
<1>1. u = [dentries |-> t.dentries, children |-> k, inodes |-> v, mounts |-> t.mounts]
  BY DEF Unlinked, OneLess
<1>2. DOMAIN t.children = Slots(t)
  BY DEF Space, Typed
<1>3. DOMAIN c = DOMAIN t.children[dir] \ {b} /\ \A n \in DOMAIN t.children[dir] : n # b => c[n] = t.children[dir][n]
  OBVIOUS
<1>. HIDE DEF c
<1>4. DOMAIN k = Slots(t) /\ k[dir] = c /\ \A x \in Slots(t) : x # dir => k[x] = t.children[x]
  BY <1>2
<1>. HIDE DEF k, v
<1>5. /\ u.dentries = t.dentries /\ u.mounts = t.mounts /\ u.children = k /\ u.inodes = v
      /\ u = [dentries |-> u.dentries, children |-> u.children, inodes |-> u.inodes, mounts |-> u.mounts]
  BY <1>1
<1>6. Slots(u) = Slots(t)
  BY <1>5 DEF Slots
<1>. QED
  BY <1>3, <1>4, <1>5, <1>6 DEF v

LEMMA OneLinkLess ==
  ASSUME NEW nodes \in Seq(Inode), NEW ino \in 1..Len(nodes), nodes[ino].nlink >= 1, NEW v,
         v = OneLess(nodes, ino)
  PROVE  /\ v \in Seq(Inode) /\ Len(v) = Len(nodes)
         /\ v[ino].nlink = nodes[ino].nlink - 1 /\ \A i \in 1..Len(nodes) : i # ino => v[i] = nodes[i]
         /\ \A i \in 1..Len(nodes) : v[i].type = nodes[i].type
<1>1. nodes[ino] \in Inode
  OBVIOUS
<1>2. nodes[ino] \in [type : Types, nlink : Nat]
  BY <1>1 DEF Inode
<1>. DEFINE x == [nodes[ino] EXCEPT !.nlink = nodes[ino].nlink - 1]
<1>3. x \in [type : Types, nlink : Nat] /\ x.type = nodes[ino].type /\ x.nlink = nodes[ino].nlink - 1
  BY <1>2
<1>4. v = [nodes EXCEPT ![ino] = x]
  BY DEF OneLess
<1>5. x \in Inode
  BY <1>3 DEF Inode
<1>. HIDE DEF x
<1>. QED
  BY <1>3, <1>4, <1>5

\* The name b is in the directory, of the dentry c.
NamedIn(t, dir, b, c, ino) ==
  b \in DOMAIN t.children[dir] /\ c = t.children[dir][b] /\ ino = t.dentries[c].inode

\* unlink() takes one name and one link.
LEMMA UnlinkSpace ==
  ASSUME NEW t, NEW top, Space(t, top), Linked(t), NEW dir \in Slots(t), TypeOf(t, dir) = "dir",
         NEW b, NEW c, NEW ino, NamedIn(t, dir, b, c, ino), NEW u, Unlinked(t, u, dir, b, ino)
  PROVE  Space(u, top) /\ Linked(u)
<1>1. /\ u.dentries = t.dentries /\ u.mounts = t.mounts /\ Slots(u) = Slots(t)
      /\ u = [dentries |-> u.dentries, children |-> u.children, inodes |-> u.inodes, mounts |-> u.mounts]
      /\ DOMAIN u.children = Slots(t) /\ \A x \in Slots(t) : x # dir => u.children[x] = t.children[x]
      /\ DOMAIN u.children[dir] = DOMAIN t.children[dir] \ {b}
      /\ \A n \in DOMAIN t.children[dir] : n # b => u.children[dir][n] = t.children[dir][n]
      /\ u.inodes = OneLess(t.inodes, ino)
  BY UnlinkedFacts
<1>2. \A x \in Slots(t) : \A n \in DOMAIN t.children[x] :
        /\ n \in Names /\ t.children[x][n] \in Slots(t)
        /\ t.dentries[t.children[x][n]].name = n /\ t.dentries[t.children[x][n]].parent = x
  BY DEF Space, Typed
<1>3. c \in Slots(t) /\ ino \in 1..Len(t.inodes) /\ t.dentries[c].name = b /\ t.dentries[c].parent = dir
  BY <1>2, TypedFacts DEF NamedIn
<1>4. Listed(t, c)
  BY ListedAt DEF NamedIn
<1>5. /\ IsFiniteSet(Links(t, ino)) /\ Cardinality(Links(t, ino)) \in Nat /\ Extra(t, ino) \in Nat
      /\ Cardinality(Links(t, ino)) >= 1
  <2>1. c \in Links(t, ino)
    BY <1>3, <1>4 DEF Links, NamedIn
  <2>2. IsFiniteSet(Links(t, ino)) /\ Cardinality(Links(t, ino)) \in Nat /\ Extra(t, ino) \in Nat
    BY LinksFinite
  <2>3. Cardinality(Links(t, ino)) # 0
    BY <2>1, <2>2, FS_EmptySet
  <2>. QED
    BY <2>2, <2>3
<1>6. t.inodes \in Seq(Inode) /\ Len(t.inodes) \in Nat /\ t.inodes[ino].nlink \in Nat
  <2>1. t.inodes \in Seq(Inode)
    BY DEF Space, Typed, Inode
  <2>2. t.inodes[ino] \in Inode /\ Len(t.inodes) \in Nat
    BY <1>3, <2>1
  <2>. QED
    BY <2>1, <2>2 DEF Inode
<1>7. t.inodes[ino].nlink >= 1
  <2>1. t.inodes[ino].nlink >= Cardinality(Links(t, ino)) + Extra(t, ino)
    BY <1>3 DEF Linked
  <2>. QED
    BY <1>5, <1>6, <2>1
<1>8. /\ u.inodes \in Seq(Inode) /\ Len(u.inodes) = Len(t.inodes)
      /\ u.inodes[ino].nlink = t.inodes[ino].nlink - 1
      /\ \A i \in 1..Len(t.inodes) : i # ino => u.inodes[i] = t.inodes[i]
      /\ \A i \in 1..Len(t.inodes) : u.inodes[i].type = t.inodes[i].type
  BY <1>1, <1>3, <1>6, <1>7, OneLinkLess
<1>9. Typed(u)
  <2>1. u.inodes \in Seq([type : Types, nlink : Nat])
    BY <1>8 DEF Inode
  <2>2. ASSUME NEW x \in Slots(u), NEW n \in DOMAIN u.children[x]
        PROVE  /\ n \in Names /\ u.children[x][n] \in Slots(u)
               /\ u.dentries[u.children[x][n]].name = n /\ u.dentries[u.children[x][n]].parent = x
    <3>1. x \in Slots(t) /\ n \in DOMAIN t.children[x] /\ u.children[x][n] = t.children[x][n]
      BY <1>1, <2>2
    <3>2. /\ n \in Names /\ t.children[x][n] \in Slots(t)
          /\ t.dentries[t.children[x][n]].name = n /\ t.dentries[t.children[x][n]].parent = x
      BY <1>2, <3>1
    <3>. QED
      BY <1>1, <3>1, <3>2
  <2>3. /\ u.dentries \in Seq(DentryType) /\ Len(u.dentries) >= 3
        /\ \A d \in Slots(u) : u.dentries[d].inode \in 1..Len(u.inodes)
        /\ u.mounts \in Seq([root : Nat, mounted_on : [mnt : Nat, dentry : Nat]]) /\ Len(u.mounts) >= 1
    BY <1>1, <1>8 DEF Space, Typed
  <2>. QED
    BY <1>1, <2>1, <2>2, <2>3 DEF Typed
<1>10. Grows(t, top, u, top)
  <2>1. Len(t.dentries) \in Nat /\ Len(t.inodes) \in Nat /\ Len(t.mounts) \in Nat
    BY TypedFacts
  <2>. QED
    BY <1>1, <1>8, <2>1 DEF Grows
<1>11. Grown(t, top, u, top)
  BY <1>9, <1>10, GrowsFacts DEF Typed
<1>12. Space(u, top)
  <2>1. DOMAIN top = Slots(u)
    BY <1>1 DEF Space, Rooted
  <2>2. Rooted(u, top)
    BY <1>1, <1>11, <2>1 DEF Rooted, Grown
  <2>3. Mounted(u, top)
    BY <1>1, <1>11 DEF Mounted, Grown
  <2>. QED
    BY <1>9, <2>2, <2>3 DEF Space
<1>13. \A x \in Slots(t) : TypeOf(u, x) = TypeOf(t, x)
  BY <1>11 DEF Grown
<1>14. Clean(u) => Clean(t)
  <2>. SUFFICES ASSUME Clean(u), NEW x \in Slots(t), t.children[x] # << >>
                PROVE  TypeOf(t, x) = "dir"
    BY DEF Clean
  <2>1. CASE x = dir
    BY <2>1
  <2>2. CASE x # dir
    <3>1. x \in Slots(u) /\ u.children[x] = t.children[x] /\ TypeOf(u, x) = TypeOf(t, x)
      BY <1>1, <1>13, <2>2
    <3>. QED
      BY <3>1 DEF Clean
  <2>. QED
    BY <2>1, <2>2
<1>15. ASSUME NEW x \in Slots(t)
       PROVE  Listed(u, x) <=> Listed(t, x) /\ x # c
  <2>1. ASSUME Listed(u, x)
        PROVE  Listed(t, x) /\ x # c
    <3>1. PICK y \in Slots(u) : \E n \in DOMAIN u.children[y] : u.children[y][n] = x
      BY <1>12, <2>1, ListedAt
    <3>2. PICK n \in DOMAIN u.children[y] : u.children[y][n] = x
      BY <3>1
    <3>3. y \in Slots(t) /\ n \in DOMAIN t.children[y] /\ t.children[y][n] = x /\ ~(y = dir /\ n = b)
      BY <1>1, <3>1, <3>2
    <3>4. Listed(t, x)
      BY <3>3, ListedAt
    <3>5. t.dentries[x].name = n /\ t.dentries[x].parent = y
      BY <1>2, <3>3
    <3>. QED
      BY <1>3, <3>3, <3>4, <3>5
  <2>2. ASSUME Listed(t, x), x # c
        PROVE  Listed(u, x)
    <3>1. PICK y \in Slots(t) : \E n \in DOMAIN t.children[y] : t.children[y][n] = x
      BY <2>2, ListedAt
    <3>2. PICK n \in DOMAIN t.children[y] : t.children[y][n] = x
      BY <3>1
    <3>3. ~(y = dir /\ n = b)
      BY <2>2, <3>2 DEF NamedIn
    <3>4. y \in Slots(u) /\ n \in DOMAIN u.children[y] /\ u.children[y][n] = x
      <4>1. CASE y = dir
        BY <1>1, <3>2, <3>3, <4>1
      <4>2. CASE y # dir
        BY <1>1, <3>2, <4>2
      <4>. QED
        BY <4>1, <4>2
    <3>. QED
      BY <1>12, <3>4, ListedAt
  <2>. QED
    BY <2>1, <2>2
<1>16. ASSUME NEW i \in 1..Len(t.inodes)
       PROVE  /\ u.inodes[i].nlink >= Cardinality(Links(u, i)) + Extra(u, i)
              /\ Clean(u) => u.inodes[i].nlink = Cardinality(Links(u, i)) + Extra(u, i)
  <2>1. Extra(u, i) = Extra(t, i)
    BY <1>1 DEF Extra, RootIno
  <2>2. Links(u, i) = Links(t, i) \ {c}
    BY <1>1, <1>15 DEF Links
  <2>3. /\ Count(t, i) \in Nat /\ Count(t, i) >= Cardinality(Links(t, i)) + Extra(t, i)
        /\ Clean(t) => Count(t, i) = Cardinality(Links(t, i)) + Extra(t, i)
    BY LinkedCount
  <2>4. Count(t, i) = t.inodes[i].nlink
    BY DEF Count
  <2>5. IsFiniteSet(Links(t, i)) /\ Cardinality(Links(t, i)) \in Nat /\ Extra(t, i) \in Nat
    BY LinksFinite
  <2>6. CASE i = ino
    <3>1. c \in Links(t, i)
      BY <1>3, <1>4, <2>6 DEF Links, NamedIn
    <3>2. Cardinality(Links(u, i)) = Cardinality(Links(t, i)) - 1
      <4>1. Cardinality(Links(t, i) \ {c}) = Cardinality(Links(t, i)) - 1
        BY <2>5, <3>1, FS_RemoveElement
      <4>. QED
        BY <2>2, <4>1
    <3>3. u.inodes[i].nlink = t.inodes[i].nlink - 1
      BY <1>8, <2>6
    <3>. QED
      BY <1>14, <2>1, <2>3, <2>4, <2>5, <3>2, <3>3
  <2>7. CASE i # ino
    <3>1. c \notin Links(t, i)
      BY <2>7 DEF Links, NamedIn
    <3>2. Links(u, i) = Links(t, i)
      BY <2>2, <3>1
    <3>3. u.inodes[i] = t.inodes[i]
      BY <1>8, <2>7
    <3>. QED
      BY <1>14, <2>1, <2>3, <2>4, <3>2, <3>3
  <2>. QED
    BY <2>6, <2>7
<1>17. Linked(u)
  BY <1>8, <1>16 DEF Linked
<1>. QED
  BY <1>12, <1>17

LEMMA MountsLonger ==
  ASSUME NEW t, NEW top, Space(t, top), NEW q \in Good(t, top), NEW root \in Nat,
         NEW ms, ms = Append(t.mounts, [root |-> root, mounted_on |-> q])
  PROVE  /\ ms \in Seq([root : Nat, mounted_on : [mnt : Nat, dentry : Nat]]) /\ Len(ms) = Len(t.mounts) + 1
         /\ Len(ms) >= 1 /\ \A m \in 1..Len(t.mounts) : ms[m] = t.mounts[m]
<1>. DEFINE M == [root : Nat, mounted_on : [mnt : Nat, dentry : Nat]]
            new == [root |-> root, mounted_on |-> q]
<1>1. t.mounts \in Seq(M) /\ Len(t.mounts) \in Nat
  BY TypedFacts DEF Space, Typed
<1>2. new \in M
  <2>1. q \in [mnt : 1..Len(t.mounts), dentry : Slots(t)] /\ Len(t.dentries) \in Nat
    BY TypedFacts DEF Good
  <2>2. 1..Len(t.mounts) \subseteq Nat /\ Slots(t) \subseteq Nat
    BY <1>1, <2>1 DEF Slots
  <2>3. q \in [mnt : Nat, dentry : Nat]
    BY <2>1, <2>2
  <2>. QED
    BY <2>3
<1>3. ms = Append(t.mounts, new)
  OBVIOUS
<1>. HIDE DEF M, new
<1>4. ms \in Seq(M) /\ Len(ms) = Len(t.mounts) + 1 /\ \A m \in 1..Len(t.mounts) : ms[m] = t.mounts[m]
  BY <1>1, <1>2, <1>3
<1>. QED
  BY <1>1, <1>4 DEF M

\* A mount of devtmpfs shows the tree that is there.
LEMMA MountShared ==
  ASSUME NEW t, NEW top, Space(t, top), Linked(t), NEW q \in Good(t, top), NEW ms,
         ms = Append(t.mounts, [root |-> DevtmpfsRoot, mounted_on |-> q]),
         NEW u, u = [dentries |-> t.dentries, children |-> t.children, inodes |-> t.inodes, mounts |-> ms]
  PROVE  Space(u, top) /\ Linked(u)
<1>1. /\ u.dentries = t.dentries /\ u.children = t.children /\ u.inodes = t.inodes /\ u.mounts = ms
      /\ u = [dentries |-> u.dentries, children |-> u.children, inodes |-> u.inodes, mounts |-> u.mounts]
  OBVIOUS
<1>2. DevtmpfsRoot \in Nat
  BY DEF DevtmpfsRoot
<1>3. /\ ms \in Seq([root : Nat, mounted_on : [mnt : Nat, dentry : Nat]]) /\ Len(ms) = Len(t.mounts) + 1
      /\ Len(ms) >= 1 /\ \A m \in 1..Len(t.mounts) : ms[m] = t.mounts[m]
  BY <1>2, MountsLonger
<1>4. Slots(u) = Slots(t) /\ \A x : TypeOf(u, x) = TypeOf(t, x)
  BY <1>1 DEF Slots, TypeOf
<1>5. Typed(u)
  BY <1>1, <1>3, <1>4 DEF Space, Typed
<1>6. Grows(t, top, u, top)
  <2>1. Len(t.dentries) \in Nat /\ Len(t.inodes) \in Nat /\ Len(t.mounts) \in Nat
    BY TypedFacts
  <2>2. Len(u.mounts) >= Len(t.mounts)
    BY <1>1, <1>3, <2>1
  <2>3. Len(u.dentries) >= Len(t.dentries) /\ Len(u.inodes) >= Len(t.inodes)
    BY <1>1, <2>1
  <2>. QED
    BY <1>1, <1>3, <2>2, <2>3 DEF Grows
<1>7. /\ DOMAIN top = Slots(u) /\ DevtmpfsRoot \in Slots(u) /\ top[DevtmpfsRoot] = DevtmpfsRoot
      /\ TypeOf(u, DevtmpfsRoot) = "dir"
  BY <1>4, TypedFacts DEF Space, Rooted
<1>8. u.mounts = Append(t.mounts, [root |-> DevtmpfsRoot, mounted_on |-> q])
  BY <1>1
<1>9. \A d \in Slots(u) \ Slots(t) : u.dentries[d].parent = 0 /\ top[d] = d
  BY <1>4
<1>10. Space(u, top)
  BY <1>5, <1>6, <1>7, <1>8, <1>9, MountSpace
<1>11. Linked(u)
  <2>1. \A x : Listed(u, x) <=> Listed(t, x)
    BY <1>1 DEF Listed
  <2>2. \A i : Links(u, i) = Links(t, i) /\ (RootIno(u, i) <=> RootIno(t, i))
    BY <1>1, <1>4, <2>1 DEF Links, RootIno
  <2>3. \A i : Extra(u, i) = Extra(t, i)
    BY <2>2 DEF Extra
  <2>4. Clean(u) <=> Clean(t)
    BY <1>1, <1>4 DEF Clean
  <2>. QED
    BY <1>1, <2>2, <2>3, <2>4 DEF Linked
<1>. QED
  BY <1>10, <1>11

\* The inodes when one of them, maybe a new one, has a link more.
LinkMore(t, nodes, ino) ==
  /\ InodesKept(t, nodes) /\ ino \in 1..Len(nodes) /\ Len(nodes) \in Nat
  /\ \A i \in 1..Len(nodes) : nodes[i].nlink = Count(t, i) + (IF i = ino THEN 1 ELSE 0)

\* An inode more, with one link.
WithInode(t, type) == Append(t.inodes, [type |-> type, nlink |-> 1])

LEMMA OneInodeMore ==
  ASSUME NEW t, NEW top, Space(t, top), NEW type \in Types, NEW nodes,
         nodes = WithInode(t, type), NEW ino, ino = Len(t.inodes) + 1
  PROVE  LinkMore(t, nodes, ino) /\ Len(nodes) = ino /\ Len(t.inodes) \in Nat /\ nodes[ino].type = type
<1>. DEFINE new == [type |-> type, nlink |-> 1]
            n == Len(t.inodes)
<1>1. t.inodes \in Seq(Inode) /\ n \in Nat
  BY TypedFacts DEF Space, Typed, Inode
<1>2. new \in Inode /\ new.nlink = 1 /\ new.type = type
  BY DEF Inode
<1>3. nodes = Append(t.inodes, new)
  BY DEF WithInode
<1>. HIDE DEF new
<1>4. nodes \in Seq(Inode) /\ Len(nodes) = n + 1 /\ nodes[n + 1] = new /\ \A i \in 1..n : nodes[i] = t.inodes[i]
  BY <1>1, <1>2, <1>3
<1>5. InodesKept(t, nodes)
  BY <1>1, <1>4 DEF InodesKept
<1>6. \A i \in 1..n : t.inodes[i].nlink \in Nat
  <2>1. \A i \in 1..n : t.inodes[i] \in Inode
    BY <1>1
  <2>. QED
    BY <2>1 DEF Inode
<1>7. ASSUME NEW i \in 1..Len(nodes)
      PROVE  nodes[i].nlink = Count(t, i) + (IF i = n + 1 THEN 1 ELSE 0)
  <2>1. CASE i \in 1..n
    <3>1. i # n + 1 /\ Count(t, i) = t.inodes[i].nlink
      BY <1>1, <2>1 DEF Count
    <3>. QED
      BY <1>4, <1>6, <2>1, <3>1
  <2>2. CASE i \notin 1..n
    <3>1. i = n + 1 /\ Count(t, i) = 0
      BY <1>1, <1>4, <2>2 DEF Count
    <3>. QED
      BY <1>2, <1>4, <3>1
  <2>. QED
    BY <2>1, <2>2
<1>8. n + 1 \in 1..Len(nodes) /\ Len(nodes) \in Nat
  BY <1>1, <1>4
<1>. QED
  BY <1>1, <1>2, <1>4, <1>5, <1>7, <1>8 DEF LinkMore

LEMMA OneLinkMore ==
  ASSUME NEW t, NEW top, Space(t, top), NEW ino \in 1..Len(t.inodes), NEW nodes,
         nodes = [t.inodes EXCEPT ![ino].nlink = t.inodes[ino].nlink + 1]
  PROVE  LinkMore(t, nodes, ino)
<1>. DEFINE x == [t.inodes[ino] EXCEPT !.nlink = t.inodes[ino].nlink + 1]
            n == Len(t.inodes)
<1>1. t.inodes \in Seq(Inode) /\ n \in Nat
  BY TypedFacts DEF Space, Typed, Inode
<1>2. \A i \in 1..n : t.inodes[i] \in Inode
  BY <1>1
<1>3. x \in Inode /\ x.type = t.inodes[ino].type /\ x.nlink = t.inodes[ino].nlink + 1
  BY <1>2 DEF Inode
<1>4. nodes = [t.inodes EXCEPT ![ino] = x]
  OBVIOUS
<1>. HIDE DEF x
<1>5. nodes \in Seq(Inode) /\ Len(nodes) = n /\ nodes[ino] = x /\ \A i \in 1..n : i # ino => nodes[i] = t.inodes[i]
  BY <1>1, <1>3, <1>4
<1>6. InodesKept(t, nodes)
  BY <1>1, <1>3, <1>5 DEF InodesKept
<1>7. ASSUME NEW i \in 1..Len(nodes)
      PROVE  nodes[i].nlink = Count(t, i) + (IF i = ino THEN 1 ELSE 0)
  <2>1. Count(t, i) = t.inodes[i].nlink /\ t.inodes[i].nlink \in Nat
    BY <1>2, <1>5 DEF Count, Inode
  <2>2. CASE i = ino
    BY <1>3, <1>5, <2>1, <2>2
  <2>3. CASE i # ino
    <3>1. nodes[i].nlink = t.inodes[i].nlink
      BY <1>5, <2>3
    <3>. QED
      BY <2>1, <2>3, <3>1
  <2>. QED
    BY <2>2, <2>3
<1>. QED
  BY <1>1, <1>5, <1>6, <1>7 DEF LinkMore

\* A mount of tmpfs makes a tree.
MountedNew(t, u, q) ==
  u = [dentries |-> Append(t.dentries, Dentry(HiddenName, 0, Len(t.inodes) + 1, NoPath)),
       children |-> With(t.children, Len(t.dentries) + 1, << >>),
       inodes |-> Append(t.inodes, [type |-> "dir", nlink |-> 1]),
       mounts |-> Append(t.mounts, [root |-> Len(t.dentries) + 1, mounted_on |-> q])]

\* A new tree, whose root counts as one link.
LEMMA MountNew ==
  ASSUME NEW t, NEW top, Space(t, top), Linked(t), NEW q \in Good(t, top), NEW u, MountedNew(t, u, q)
  PROVE  (\E tup : Space(u, tup)) /\ Linked(u)
<1>1. PICK d : d = Len(t.dentries) + 1
  OBVIOUS
<1>2. PICK ino : ino = Len(t.inodes) + 1
  OBVIOUS
<1>3. PICK e : e = Dentry(HiddenName, 0, ino, NoPath)
  OBVIOUS
<1>4. PICK k : k = With(t.children, d, << >>)
  OBVIOUS
<1>5. PICK nodes : nodes = Append(t.inodes, [type |-> "dir", nlink |-> 1])
  OBVIOUS
<1>6. PICK ms : ms = Append(t.mounts, [root |-> d, mounted_on |-> q])
  OBVIOUS
<1>7. PICK tup : tup = With(top, d, d)
  OBVIOUS
<1>8. u = [dentries |-> Append(t.dentries, e), children |-> k, inodes |-> nodes, mounts |-> ms]
  BY <1>1, <1>2, <1>3, <1>4, <1>5, <1>6, Zenon DEF MountedNew
<1>9. /\ u.dentries = Append(t.dentries, e) /\ u.children = k /\ u.inodes = nodes /\ u.mounts = ms
      /\ u = [dentries |-> u.dentries, children |-> u.children, inodes |-> u.inodes, mounts |-> u.mounts]
  BY <1>8
<1>10. /\ InodesKept(t, nodes) /\ Len(nodes) = ino /\ Len(t.inodes) \in Nat /\ nodes[ino].type = "dir"
       /\ \A i \in 1..Len(nodes) : nodes[i].nlink = Count(t, i) + (IF i = ino THEN 1 ELSE 0)
  <2>1. "dir" \in Types
    BY DEF Types
  <2>. QED
    <3>1. PICK ty \in Types : ty = "dir"
      BY <2>1
    <3>2. nodes = WithInode(t, ty)
      BY <1>5, <3>1 DEF WithInode
    <3>3. LinkMore(t, nodes, ino) /\ Len(nodes) = ino /\ Len(t.inodes) \in Nat /\ nodes[ino].type = ty
      BY <1>2, <3>2, OneInodeMore
    <3>. QED
      BY <3>1, <3>3 DEF LinkMore
<1>11. ino \in Nat /\ ino \in 1..Len(nodes) /\ Len(nodes) \in Nat /\ ino \notin 1..Len(t.inodes)
  BY <1>2, <1>10
<1>12. e \in DentryType /\ e.name = HiddenName /\ e.parent = 0 /\ e.inode = ino
  <2>1. NoPath \in [abs : BOOLEAN, segs : Words]
    BY DEF NoPath, Words
  <2>. QED
    BY <1>3, <1>11, <2>1 DEF Dentry, DentryType
<1>13. /\ u.dentries \in Seq(DentryType) /\ Len(u.dentries) = d /\ d \in Nat /\ d >= 4
       /\ Slots(u) = Slots(t) \cup {d} /\ d \notin Slots(t) /\ u.dentries[d] = e
       /\ \A x \in Slots(t) : u.dentries[x] = t.dentries[x]
       /\ Len(t.dentries) < d /\ Len(t.dentries) \in Nat
  <2>1. OneLonger(t, u.dentries, e, d)
    BY <1>1, <1>9, <1>12, OneMore
  <2>. QED
    BY <2>1 DEF OneLonger, Slots
<1>14. DOMAIN t.children = Slots(t) /\ DOMAIN top = Slots(t)
  BY DEF Space, Typed, Rooted
<1>15. DOMAIN u.children = Slots(u) /\ u.children[d] = << >> /\ \A x \in Slots(t) : u.children[x] = t.children[x]
  <2>1. PICK none : none = << >>
    OBVIOUS
  <2>2. IsWith(t.children, d, none, k)
    BY <1>4, <2>1, WithFacts
  <2>3. DOMAIN k = DOMAIN t.children \cup {d} /\ k[d] = none /\ \A x \in DOMAIN t.children : x # d => k[x] = t.children[x]
    BY <2>2, Zenon DEF IsWith
  <2>. QED
    BY <1>9, <1>13, <1>14, <2>1, <2>3
<1>16. DOMAIN tup = Slots(u) /\ tup[d] = d /\ \A x \in Slots(t) : tup[x] = top[x]
  <2>1. IsWith(top, d, d, tup)
    BY <1>7, WithFacts
  <2>2. DOMAIN tup = DOMAIN top \cup {d} /\ tup[d] = d /\ \A x \in DOMAIN top : x # d => tup[x] = top[x]
    BY <2>1, Zenon DEF IsWith
  <2>. QED
    BY <1>13, <1>14, <2>2
<1>17. /\ ms \in Seq([root : Nat, mounted_on : [mnt : Nat, dentry : Nat]]) /\ Len(ms) = Len(t.mounts) + 1
       /\ Len(ms) >= 1 /\ \A m \in 1..Len(t.mounts) : ms[m] = t.mounts[m]
  <2>1. d \in Nat
    BY <1>13
  <2>. QED
    BY <1>6, <2>1, MountsLonger
<1>18. \A x \in Slots(t) : \A n \in DOMAIN t.children[x] :
         /\ n \in Names /\ t.children[x][n] \in Slots(t)
         /\ t.dentries[t.children[x][n]].name = n /\ t.dentries[t.children[x][n]].parent = x
  BY DEF Space, Typed
<1>19. DOMAIN u.children[d] = {}
  BY <1>15
<1>20. Typed(u)
  <2>1. u.inodes \in Seq([type : Types, nlink : Nat])
    BY <1>9, <1>10 DEF InodesKept, Inode
  <2>2. \A x \in Slots(u) : u.dentries[x].inode \in 1..Len(u.inodes)
    <3>1. \A x \in Slots(t) : t.dentries[x].inode \in 1..Len(t.inodes)
      BY TypedFacts
    <3>2. \A x \in Slots(t) : t.dentries[x].inode \in 1..Len(nodes)
      BY <1>10, <1>11, <3>1 DEF InodesKept
    <3>. QED
      BY <1>9, <1>11, <1>12, <1>13, <3>2
  <2>3. ASSUME NEW x \in Slots(u), NEW n \in DOMAIN u.children[x]
        PROVE  /\ n \in Names /\ u.children[x][n] \in Slots(u)
               /\ u.dentries[u.children[x][n]].name = n /\ u.dentries[u.children[x][n]].parent = x
    <3>1. x \in Slots(t) /\ n \in DOMAIN t.children[x] /\ u.children[x][n] = t.children[x][n]
      BY <1>13, <1>15, <1>19, <2>3
    <3>2. /\ n \in Names /\ t.children[x][n] \in Slots(t)
          /\ t.dentries[t.children[x][n]].name = n /\ t.dentries[t.children[x][n]].parent = x
      BY <1>18, <3>1
    <3>. QED
      BY <1>13, <3>1, <3>2
  <2>4. Len(u.dentries) >= 3
    BY <1>13
  <2>. QED
    BY <1>9, <1>13, <1>15, <1>17, <2>1, <2>2, <2>3, <2>4 DEF Typed
<1>21. Grows(t, top, u, tup)
  <2>1. Len(t.mounts) \in Nat
    BY TypedFacts
  <2>2. Len(u.mounts) >= Len(t.mounts) /\ Len(u.dentries) >= Len(t.dentries)
    BY <1>9, <1>13, <1>17, <2>1
  <2>. QED
    BY <1>9, <1>10, <1>13, <1>16, <1>17, <2>2 DEF Grows, InodesKept
<1>22. Grown(t, top, u, tup)
  BY <1>20, <1>21, GrowsFacts DEF Typed
<1>23. TypeOf(u, d) = "dir" /\ \A x \in Slots(t) : TypeOf(u, x) = TypeOf(t, x)
  BY <1>9, <1>10, <1>12, <1>13, <1>22 DEF TypeOf, Grown
<1>24. Space(u, tup)
  <2>1. u.mounts = Append(t.mounts, [root |-> d, mounted_on |-> q])
    BY <1>6, <1>9
  <2>2. d \in Slots(u)
    BY <1>13
  <2>3. \A x \in Slots(u) \ Slots(t) : u.dentries[x].parent = 0 /\ tup[x] = x
    BY <1>12, <1>13, <1>16
  <2>. QED
    BY <1>16, <1>20, <1>21, <1>23, <2>1, <2>2, <2>3, MountSpace
<1>25. \A x \in Slots(u) : Listed(u, x) <=> (x \in Slots(t) /\ Listed(t, x))
  <2>1. ASSUME NEW x \in Slots(u), Listed(u, x)
        PROVE  x \in Slots(t) /\ Listed(t, x)
    <3>1. PICK y \in Slots(u) : \E n \in DOMAIN u.children[y] : u.children[y][n] = x
      BY <1>24, <2>1, ListedAt
    <3>2. PICK n \in DOMAIN u.children[y] : u.children[y][n] = x
      BY <3>1
    <3>3. y \in Slots(t) /\ n \in DOMAIN t.children[y] /\ t.children[y][n] = x
      BY <1>13, <1>15, <1>19, <3>2
    <3>. QED
      BY <1>18, <3>3, ListedAt
  <2>2. ASSUME NEW x \in Slots(t), Listed(t, x)
        PROVE  Listed(u, x)
    <3>1. PICK y \in Slots(t) : \E n \in DOMAIN t.children[y] : t.children[y][n] = x
      BY <2>2, ListedAt
    <3>2. y \in Slots(u) /\ \E n \in DOMAIN u.children[y] : u.children[y][n] = x
      BY <1>13, <1>15, <3>1
    <3>. QED
      BY <1>24, <3>2, ListedAt
  <2>. QED
    BY <2>1, <2>2
<1>26. Clean(u) => Clean(t)
  BY <1>13, <1>15, <1>23 DEF Clean
<1>27. ASSUME NEW i \in 1..Len(nodes)
       PROVE  /\ nodes[i].nlink >= Cardinality(Links(u, i)) + Extra(u, i)
              /\ Clean(u) => nodes[i].nlink = Cardinality(Links(u, i)) + Extra(u, i)
  <2>1. Links(u, i) = Links(t, i)
    BY <1>13, <1>25 DEF Links
  <2>2. Extra(u, i) = Extra(t, i) + (IF i = ino THEN 1 ELSE 0)
    <3>1. ~RootIno(t, ino)
      BY <1>11, TypedFacts DEF RootIno
    <3>2. HiddenName \notin Names
      BY VfsFacts
    <3>3. RootIno(u, i) <=> (RootIno(t, i) \/ i = ino)
      BY <1>12, <1>13, <3>2 DEF RootIno
    <3>. QED
      BY <3>1, <3>3 DEF Extra
  <2>3. /\ Count(t, i) \in Nat /\ Count(t, i) >= Cardinality(Links(t, i)) + Extra(t, i)
        /\ Clean(t) => Count(t, i) = Cardinality(Links(t, i)) + Extra(t, i)
    BY LinkedCount
  <2>4. Cardinality(Links(t, i)) \in Nat /\ Extra(t, i) \in Nat
    BY LinksFinite
  <2>5. nodes[i].nlink = Count(t, i) + (IF i = ino THEN 1 ELSE 0)
    BY <1>10
  <2>6. PICK one \in Nat : one = IF i = ino THEN 1 ELSE 0
    OBVIOUS
  <2>. QED
    BY <1>26, <2>1, <2>2, <2>3, <2>4, <2>5, <2>6
<1>28. Linked(u)
  BY <1>9, <1>27 DEF Linked
<1>. QED
  BY <1>24, <1>28

-----------------------------------------------------------------------------
(* The invariant of the name space.                                        *)

TreeOK(t) == (\E top : Space(t, top)) /\ Linked(t)

LEMMA AbsStraight ==
  ASSUME NEW p \in AbsPaths
  PROVE  Straight(p)
  BY PathsTyped DEF AbsPaths

\* create(), symlink() and link() alike.
LEMMA InsertStep ==
  ASSUME TreeOK(ns), NEW p \in AbsPaths, Creatable(p), NEW ino, NEW to \in [abs : BOOLEAN, segs : Words],
         NEW nodes, LinkMore(ns, nodes, ino), ns' = Insert(p, ino, to, nodes)
  PROVE  TreeOK(ns')
<1>1. PICK top : Space(ns, top)
  BY DEF TreeOK
<1>2. Straight(p) /\ p.segs # <<>> /\ Linked(ns)
  BY AbsStraight DEF Creatable, TreeOK
<1>3. PICK q : q = Dirname(p)
  OBVIOUS
<1>4. Straight(q) /\ Basename(p) \in Names
  BY <1>2, <1>3, DirnameStraight
<1>5. PICK r : r = Resolve(ns, RootPath, q)
  OBVIOUS
<1>6. r.err = "ok" /\ DirectoryOf(p) = r
  BY <1>3, <1>5 DEF Creatable, DirectoryOf
<1>7. r.target \in Good(ns, top)
  <2>1. r \in Vals(ns, top)
    BY <1>1, <1>4, <1>5, ResolveGood
  <2>. QED
    BY <1>6, <2>1, ValFacts
<1>8. PICK dir : dir = r.target.dentry
  OBVIOUS
<1>9. dir \in Slots(ns) /\ Len(ns.dentries) \in Nat
  BY <1>1, <1>7, <1>8, TypedFacts
<1>10. PICK b : b = Basename(p)
  OBVIOUS
<1>11. TypeOf(ns, dir) = "dir" => b \notin DOMAIN ns.children[dir]
  <2>1. Resolve(ns, RootPath, p).err \notin {"ok", "runaway"}
    BY DEF Creatable, Vacant
  <2>2. PICK T : T = r.target
    OBVIOUS
  <2>3. Resolve(ns, RootPath, Dirname(p)).err = "ok" /\ Resolve(ns, RootPath, Dirname(p)).target = T
    BY <1>3, <1>5, <1>6, <2>2
  <2>4. TypeOf(ns, T.dentry) = "dir" => Basename(p) \notin DOMAIN ns.children[T.dentry]
    BY <1>1, <1>2, <2>1, <2>3, Vacancy
  <2>. QED
    BY <1>8, <1>10, <2>2, <2>4
<1>12. PICK e : e = Dentry(b, dir, ino, to)
  OBVIOUS
<1>13. /\ InodesKept(ns, nodes) /\ ino \in 1..Len(nodes) /\ Len(nodes) \in Nat
       /\ \A i \in 1..Len(nodes) : nodes[i].nlink = Count(ns, i) + (IF i = ino THEN 1 ELSE 0)
  BY DEF LinkMore
<1>14. e \in DentryType /\ e.name = b /\ e.parent = dir /\ e.inode = ino /\ b \in Names
  <2>1. dir \in Nat /\ ino \in Nat /\ b \in Names \cup {"/", HiddenName} /\ b \in Names
    BY <1>4, <1>9, <1>10, <1>13 DEF Slots
  <2>. QED
    BY <1>12, <2>1 DEF Dentry, DentryType
<1>15. PICK d : d = Len(ns.dentries) + 1
  OBVIOUS
<1>16. Inserted(ns, ns', dir, e, nodes, d)
  <2>1. PICK ds : ds = Append(ns.dentries, e)
    OBVIOUS
  <2>2. PICK ch : ch = With(With(ns.children, d, << >>), dir, With(ns.children[dir], b, d))
    OBVIOUS
  <2>3. ns' = [ns EXCEPT !.dentries = ds, !.children = ch, !.inodes = nodes]
    BY <1>6, <1>8, <1>10, <1>12, <1>15, <2>1, <2>2 DEF Insert
  <2>4. ns = [dentries |-> ns.dentries, children |-> ns.children, inodes |-> ns.inodes, mounts |-> ns.mounts]
    BY <1>1 DEF Space, Typed
  <2>5. ns' = [dentries |-> ds, children |-> ch, inodes |-> nodes, mounts |-> ns.mounts]
    BY <2>3, <2>4
  <2>6. e.name = b
    BY <1>14
  <2>. QED
    BY <1>15, <2>1, <2>2, <2>5, <2>6, Zenon DEF Inserted
<1>17. PICK u : u = ns'
  OBVIOUS
<1>18. Inserted(ns, u, dir, e, nodes, d)
  BY <1>16, <1>17
<1>19. e.name \in Names /\ e.inode \in 1..Len(nodes)
  BY <1>13, <1>14
<1>20. \E tup : Space(u, tup)
  BY <1>1, <1>9, <1>13, <1>14, <1>18, <1>19, InsertSpace
<1>21. Linked(u)
  <2>1. TypeOf(ns, dir) = "dir" => e.name \notin DOMAIN ns.children[dir]
    BY <1>11, <1>14
  <2>2. \A i \in 1..Len(nodes) : nodes[i].nlink = Count(ns, i) + (IF i = e.inode THEN 1 ELSE 0)
    BY <1>13, <1>14
  <2>. QED
    BY <1>1, <1>2, <1>9, <1>13, <1>14, <1>18, <1>19, <2>1, <2>2, InsertLinked
<1>. QED
  BY <1>17, <1>20, <1>21 DEF TreeOK

LEMMA CreateStep ==
  ASSUME TreeOK(ns), NEW p \in AbsPaths, NEW type \in {"dir", "reg"}, Create(p, type)
  PROVE  TreeOK(ns')
<1>1. PICK top : Space(ns, top)
  BY DEF TreeOK
<1>2. PICK nodes : nodes = WithInode(ns, type)
  OBVIOUS
<1>3. PICK ino : ino = Len(ns.inodes) + 1
  OBVIOUS
<1>4. type \in Types
  BY DEF Types
<1>5. LinkMore(ns, nodes, ino)
  BY <1>1, <1>2, <1>3, <1>4, OneInodeMore
<1>6. NoPath \in [abs : BOOLEAN, segs : Words]
  BY DEF NoPath, Words
<1>7. Creatable(p) /\ ns' = Insert(p, ino, NoPath, nodes)
  BY <1>2, <1>3 DEF Create, NewInode, WithInode
<1>. QED
  BY <1>5, <1>6, <1>7, InsertStep

LEMMA SymlinkStep ==
  ASSUME TreeOK(ns), NEW p \in AbsPaths, NEW target \in LinkTargets, Symlink(p, target)
  PROVE  TreeOK(ns')
<1>1. PICK top : Space(ns, top)
  BY DEF TreeOK
<1>2. PICK type \in Types : type = "lnk"
  BY DEF Types
<1>3. PICK nodes : nodes = WithInode(ns, type)
  OBVIOUS
<1>4. PICK ino : ino = Len(ns.inodes) + 1
  OBVIOUS
<1>5. LinkMore(ns, nodes, ino)
  BY <1>1, <1>3, <1>4, OneInodeMore
<1>6. target \in [abs : BOOLEAN, segs : Words]
  BY VfsFacts, PathsTyped
<1>7. Creatable(p) /\ ns' = Insert(p, ino, target, nodes)
  BY <1>2, <1>3, <1>4 DEF Symlink, NewInode, WithInode
<1>. QED
  BY <1>5, <1>6, <1>7, InsertStep

LEMMA LinkStep ==
  ASSUME TreeOK(ns), NEW p \in AbsPaths, NEW target \in AbsPaths, NEW follow_links, Link(p, target, follow_links)
  PROVE  TreeOK(ns')
<1>1. PICK top : Space(ns, top)
  BY DEF TreeOK
<1>2. PICK res : res = Resolve(ns, RootPath, target)
  OBVIOUS
<1>3. PICK ino : ino = ns.dentries[res.target.dentry].inode
  OBVIOUS
<1>4. PICK nodes : nodes = [ns.inodes EXCEPT ![ino].nlink = ns.inodes[ino].nlink + 1]
  OBVIOUS
<1>5. Creatable(p) /\ res.err = "ok" /\ ns' = Insert(p, ino, NoPath, nodes)
  BY <1>2, <1>3, <1>4 DEF Link
<1>6. res \in Vals(ns, top)
  BY <1>1, <1>2, AbsStraight, ResolveGood
<1>7. res.target \in Good(ns, top)
  BY <1>5, <1>6, ValFacts
<1>8. ino \in 1..Len(ns.inodes)
  BY <1>1, <1>3, <1>7, TypedFacts
<1>9. LinkMore(ns, nodes, ino)
  BY <1>1, <1>4, <1>8, OneLinkMore
<1>10. NoPath \in [abs : BOOLEAN, segs : Words]
  BY DEF NoPath, Words
<1>. QED
  BY <1>5, <1>9, <1>10, InsertStep

LEMMA UnlinkStep ==
  ASSUME TreeOK(ns), NEW p \in AbsPaths, Unlink(p)
  PROVE  TreeOK(ns')
<1>1. PICK top : Space(ns, top)
  BY DEF TreeOK
<1>2. PICK res : res = Resolve(ns, RootPath, p)
  OBVIOUS
<1>3. PICK ino : ino = ns.dentries[res.target.dentry].inode
  OBVIOUS
<1>4. PICK dir : dir = res.parent.dentry
  OBVIOUS
<1>5. PICK b : b = Basename(p)
  OBVIOUS
<1>6. p.segs # <<>> /\ res.err = "ok" /\ Unlinkable(res.target) /\ Straight(p) /\ Linked(ns)
  BY <1>2, AbsStraight DEF Unlink, TreeOK
<1>7. res \in Vals(ns, top) /\ Ended(ns, p.segs, res)
  BY <1>1, <1>2, <1>6, ResolveGood
<1>8. res.parent \in Good(ns, top) /\ res.target \in Good(ns, top)
  BY <1>6, <1>7, ValFacts
<1>9. dir \in Slots(ns)
  BY <1>1, <1>4, <1>8, TypedFacts
<1>10. b = p.segs[Len(p.segs)]
  BY <1>5, <1>6, DirnameStraight
<1>11. PICK at : at = [res.parent EXCEPT !.dentry = ns.children[res.parent.dentry][b]]
  OBVIOUS
<1>12. TypeOf(ns, dir) = "dir" /\ b \in DOMAIN ns.children[dir] /\ res.target = OnTop(ns, at)
  BY <1>4, <1>6, <1>7, <1>10, <1>11 DEF Ended
<1>13. at \in Good(ns, top)
  BY <1>1, <1>4, <1>8, <1>11, <1>12, ChildGood
<1>14. res.target = at
  <2>1. OnTop(ns, at) # at => /\ OnTop(ns, at).dentry = ns.mounts[OnTop(ns, at).mnt].root
                              /\ TypeOf(ns, OnTop(ns, at).dentry) = "dir"
    BY <1>1, <1>13, OnTopGood
  <2>. QED
    BY <1>6, <1>12, <2>1 DEF Unlinkable
<1>15. PICK c : c = res.target.dentry
  OBVIOUS
<1>16. c = ns.children[dir][b]
  <2>1. res.parent \in [mnt : 1..Len(ns.mounts), dentry : Slots(ns)]
    BY <1>8 DEF Good
  <2>. QED
    BY <1>4, <1>11, <1>14, <1>15, <2>1
<1>17. NamedIn(ns, dir, b, c, ino)
  BY <1>3, <1>12, <1>15, <1>16 DEF NamedIn
<1>18. Unlinked(ns, ns', dir, b, ino)
  <2>1. PICK ch : ch = [ns.children EXCEPT ![dir] = [n \in DOMAIN ns.children[dir] \ {b} |-> ns.children[dir][n]]]
    OBVIOUS
  <2>2. PICK nodes : nodes = [ns.inodes EXCEPT ![ino].nlink = ns.inodes[ino].nlink - 1]
    OBVIOUS
  <2>3. ns = [dentries |-> ns.dentries, children |-> ns.children, inodes |-> ns.inodes, mounts |-> ns.mounts]
    BY <1>1 DEF Space, Typed
  <2>4. ns' = [[ns EXCEPT !.inodes = nodes] EXCEPT !.children = ch]
    BY <1>2, <1>3, <1>4, <1>5, <2>1, <2>2, <2>3 DEF Unlink
  <2>5. ns' = [dentries |-> ns.dentries, children |-> ch, inodes |-> nodes, mounts |-> ns.mounts]
    BY <2>3, <2>4
  <2>. QED
    BY <2>1, <2>2, <2>5 DEF Unlinked
<1>19. PICK u : u = ns'
  OBVIOUS
<1>20. Space(u, top) /\ Linked(u)
  BY <1>1, <1>6, <1>9, <1>12, <1>17, <1>18, <1>19, UnlinkSpace
<1>. QED
  BY <1>19, <1>20 DEF TreeOK

LEMMA MountStep ==
  ASSUME TreeOK(ns), NEW p \in AbsPaths, NEW fstype, Mount(p, fstype)
  PROVE  TreeOK(ns')
<1>1. PICK top : Space(ns, top)
  BY DEF TreeOK
<1>2. PICK res : res = Resolve(ns, RootPath, p)
  OBVIOUS
<1>3. PICK q : q = res.target
  OBVIOUS
<1>4. res.err = "ok" /\ Straight(p) /\ Linked(ns)
  BY <1>2, AbsStraight DEF Mount, TreeOK
<1>5. res \in Vals(ns, top)
  BY <1>1, <1>2, <1>4, ResolveGood
<1>6. q \in Good(ns, top)
  BY <1>3, <1>4, <1>5, ValFacts
<1>7. ns = [dentries |-> ns.dentries, children |-> ns.children, inodes |-> ns.inodes, mounts |-> ns.mounts]
  BY <1>1 DEF Space, Typed
<1>8. CASE ns' = [ns EXCEPT !.mounts = Append(ns.mounts, [root |-> DevtmpfsRoot, mounted_on |-> q])]
  <2>1. PICK ms : ms = Append(ns.mounts, [root |-> DevtmpfsRoot, mounted_on |-> q])
    OBVIOUS
  <2>2. ns' = [dentries |-> ns.dentries, children |-> ns.children, inodes |-> ns.inodes, mounts |-> ms]
    BY <1>7, <1>8, <2>1
  <2>3. PICK u : u = ns'
    OBVIOUS
  <2>4. u = [dentries |-> ns.dentries, children |-> ns.children, inodes |-> ns.inodes, mounts |-> ms]
    BY <2>2, <2>3
  <2>5. Space(u, top) /\ Linked(u)
    BY <1>1, <1>4, <1>6, <2>1, <2>4, MountShared
  <2>. QED
    BY <2>3, <2>5 DEF TreeOK
<1>9. CASE MountedNew(ns, ns', q)
  <2>1. PICK u : u = ns'
    OBVIOUS
  <2>2. MountedNew(ns, u, q)
    BY <1>9, <2>1
  <2>3. (\E tup : Space(u, tup)) /\ Linked(u)
    BY <1>1, <1>4, <1>6, <2>2, MountNew
  <2>. QED
    BY <2>1, <2>3 DEF TreeOK
<1>10. \/ ns' = [ns EXCEPT !.mounts = Append(ns.mounts, [root |-> DevtmpfsRoot, mounted_on |-> q])]
       \/ MountedNew(ns, ns', q)
  BY <1>2, <1>3 DEF Mount, MountedNew, NewInode
<1>. QED
  BY <1>8, <1>9, <1>10

\* The roots before anything is mounted.
LEMMA TreeInitially ==
  ASSUME Init
  PROVE  TreeOK(ns)
<1>. DEFINE e1 == [name |-> "/", parent |-> Root, inode |-> 1, symlinked_to |-> NoPath]
            e2 == [name |-> HiddenName, parent |-> 0, inode |-> 2, symlinked_to |-> NoPath]
            e3 == [name |-> HiddenName, parent |-> 0, inode |-> 3, symlinked_to |-> NoPath]
            m1 == [root |-> TmpfsRoot, mounted_on |-> [mnt |-> 0, dentry |-> Root]]
            node == [type |-> "dir", nlink |-> 1]
            ds == <<e1, e2, e3>>
            ch == [d \in 1..3 |-> << >>]
            nodes == [i \in 1..3 |-> node]
            ms == <<m1>>
            M == [root : Nat, mounted_on : [mnt : Nat, dentry : Nat]]
<1>1. ns = [dentries |-> ds, children |-> ch, inodes |-> nodes, mounts |-> ms]
  BY DEF Init
<1>2. NoPath \in [abs : BOOLEAN, segs : Words]
  BY DEF NoPath, Words
<1>3. e1 \in DentryType /\ e2 \in DentryType /\ e3 \in DentryType
  BY <1>2 DEF DentryType, Root
<1>4. /\ e1.name = "/" /\ e1.parent = 1 /\ e1.inode = 1 /\ e2.name = HiddenName /\ e2.parent = 0 /\ e2.inode = 2
      /\ e3.name = HiddenName /\ e3.parent = 0 /\ e3.inode = 3
  BY DEF Root
<1>5. m1 \in M
  BY DEF TmpfsRoot, Root
<1>6. node \in Inode /\ node.type = "dir" /\ node.nlink = 1
  BY DEF Inode, Types
<1>. HIDE DEF e1, e2, e3, m1, node, M
<1>7. ds \in Seq(DentryType) /\ Len(ds) = 3 /\ ds[1] = e1 /\ ds[2] = e2 /\ ds[3] = e3
  <2>. HIDE DEF DentryType
  <2>. QED
    BY <1>3
<1>8. ms \in Seq(M) /\ Len(ms) = 1 /\ ms[1] = m1
  BY <1>5
<1>9. nodes \in Seq(Inode) /\ Len(nodes) = 3 /\ \A i \in 1..3 : nodes[i] = node
  BY <1>6
<1>10. DOMAIN ch = 1..3 /\ \A d \in 1..3 : ch[d] = << >> /\ DOMAIN ch[d] = {}
  OBVIOUS
<1>. HIDE DEF ds, ms, nodes, ch
<1>11. ns.dentries = ds /\ ns.children = ch /\ ns.inodes = nodes /\ ns.mounts = ms
  BY <1>1
<1>20. ns = [dentries |-> ns.dentries, children |-> ns.children, inodes |-> ns.inodes, mounts |-> ns.mounts]
  BY <1>1
<1>21. Len(ns.dentries) = 3 /\ Len(ns.inodes) = 3 /\ Len(ns.mounts) = 1
  BY <1>7, <1>8, <1>9, <1>11
<1>12. Slots(ns) = 1..3
  BY <1>7, <1>11 DEF Slots
<1>13. \A d \in 1..3 : ns.dentries[d].inode = d /\ ns.dentries[d].name \notin Names
  BY <1>4, <1>7, <1>11, VfsFacts
<1>14. \A d \in 1..3 : TypeOf(ns, d) = "dir"
  BY <1>6, <1>9, <1>11, <1>13 DEF TypeOf
<1>15. PICK top : top = [d \in 1..3 |-> d]
  OBVIOUS
<1>16. Typed(ns)
  <2>1. ns.inodes \in Seq([type : Types, nlink : Nat])
    BY <1>9, <1>11 DEF Inode
  <2>2. ns.mounts \in Seq([root : Nat, mounted_on : [mnt : Nat, dentry : Nat]]) /\ Len(ns.mounts) >= 1
    <3>1. ns.mounts \in Seq(M)
      BY <1>8, <1>11, Zenon
    <3>2. Len(ns.mounts) >= 1
      BY <1>21
    <3>. QED
      BY <3>1, <3>2, Zenon DEF M
  <2>3. ns.dentries \in Seq(DentryType) /\ Len(ns.dentries) >= 3 /\ Len(ns.inodes) = 3
    <3>1. ns.dentries \in Seq(DentryType)
      BY <1>7, <1>11, Zenon
    <3>2. Len(ns.dentries) >= 3 /\ Len(ns.inodes) = 3
      BY <1>21
    <3>. QED
      BY <3>1, <3>2
  <2>. QED
    BY <1>10, <1>11, <1>20, <1>12, <1>13, <2>1, <2>2, <2>3 DEF Typed
<1>17. Rooted(ns, top)
  <2>1. Root = 1 /\ TmpfsRoot = 2 /\ DevtmpfsRoot = 3
    BY DEF Root, TmpfsRoot, DevtmpfsRoot
  <2>2. DOMAIN top = 1..3 /\ \A d \in 1..3 : top[d] = d
    BY <1>15
  <2>3. /\ ns.dentries[1].parent = 1 /\ ns.dentries[1].name = "/"
        /\ ns.dentries[2].parent = 0 /\ ns.dentries[3].parent = 0
    BY <1>4, <1>7, <1>11
  <2>4. \A d \in 1..3 : d = 1 \/ d = 2 \/ d = 3
    OBVIOUS
  <2>. QED
    BY <1>12, <1>14, <2>1, <2>2, <2>3, <2>4 DEF Rooted
<1>18. Mounted(ns, top)
  <2>1. ns.mounts[1] = [root |-> TmpfsRoot, mounted_on |-> [mnt |-> 0, dentry |-> Root]]
    BY <1>8, <1>11 DEF m1
  <2>2. \A m \in 2..Len(ns.mounts) : FALSE
    BY <1>21
  <2>. QED
    BY <2>1, <2>2, Zenon DEF Mounted
<1>19. Linked(ns)
  <2>1. \A d : ~Listed(ns, d)
    BY <1>10, <1>11 DEF Listed, Range
  <2>2. \A i : Links(ns, i) = {}
    BY <2>1 DEF Links
  <2>3. \A i \in 1..3 : Extra(ns, i) = 1
    BY <1>12, <1>13 DEF Extra, RootIno
  <2>4. Cardinality({}) = 0
    BY FS_EmptySet
  <2>5. \A i \in 1..3 : ns.inodes[i].nlink = 1
    BY <1>6, <1>9, <1>11
  <2>. QED
    <3>1. \A i \in 1..3 : Cardinality(Links(ns, i)) + Extra(ns, i) = 1
      BY <2>2, <2>3, <2>4
    <3>2. \A i \in 1..3 : ns.inodes[i].nlink >= Cardinality(Links(ns, i)) + Extra(ns, i)
      BY <2>5, <3>1
    <3>. QED
      BY <1>21, <2>5, <3>1, <3>2 DEF Linked
<1>. QED
  BY <1>16, <1>17, <1>18, <1>19 DEF TreeOK, Space

\* Every operation keeps the tree.
LEMMA TreeStep ==
  ASSUME TreeOK(ns), [FileSystemNext]_allVars
  PROVE  TreeOK(ns')
<1>1. CASE Next
  <2>1. CASE \E p \in {q \in AbsPaths : Creatable(q)} :
               \/ \E type \in {"dir", "reg"} : Create(p, type)
               \/ \E target \in LinkTargets : Symlink(p, target)
               \/ \E target \in AbsPaths, follow_links \in BOOLEAN : Link(p, target, follow_links)
    BY <2>1, CreateStep, SymlinkStep, LinkStep
  <2>2. CASE \E p \in AbsPaths : Unlink(p)
    BY <2>2, UnlinkStep
  <2>3. CASE \E p \in AbsPaths, fstype \in {"tmpfs", "devtmpfs"} : Mount(p, fstype)
    BY <2>3, MountStep
  <2>. QED
    BY <1>1, <2>1, <2>2, <2>3 DEF Next
<1>2. CASE ns' = ns
  BY <1>2
<1>. QED
  BY <1>1, <1>2 DEF FileSystemNext, allVars

\* What the invariant says of the link counts and the parents of the names.
LEMMA TreeOKSound ==
  ASSUME TreeOK(ns)
  PROVE  TreeSound
<1>1. PICK top : Space(ns, top)
  BY DEF TreeOK
<1>2. /\ Len(ns.mounts) \in Nat /\ Len(ns.dentries) \in Nat /\ Len(ns.inodes) \in Nat
      /\ \A d \in Slots(ns) : ns.dentries[d] \in DentryType /\ ns.dentries[d].inode \in 1..Len(ns.inodes)
      /\ TmpfsRoot \in Slots(ns)
  BY <1>1, TypedFacts
<1>3. /\ DOMAIN ns.dentries = Slots(ns) /\ DOMAIN ns.children = Slots(ns)
      /\ DOMAIN ns.inodes = 1..Len(ns.inodes) /\ DOMAIN ns.mounts = 1..Len(ns.mounts)
  <2>1. ns.dentries \in Seq(DentryType) /\ DOMAIN ns.children = Slots(ns)
    BY <1>1 DEF Space, Typed
  <2>2. ns.inodes \in Seq(Inode)
    BY <1>1 DEF Space, Typed, Inode
  <2>3. PICK M : ns.mounts \in Seq(M)
    BY <1>1 DEF Space, Typed
  <2>. HIDE DEF DentryType
  <2>. QED
    BY <2>1, <2>2, <2>3 DEF Slots
<1>4. TypeOK
  <2>1. ASSUME NEW d \in Slots(ns)
        PROVE  /\ ns.dentries[d].name \in Names \cup {"/", HiddenName}
               /\ ns.dentries[d].parent \in Slots(ns) \cup {0}
               /\ ns.dentries[d].inode \in 1..Len(ns.inodes)
    <3>1. ns.dentries[d].name \in Names \cup {"/", HiddenName}
      BY <1>2 DEF DentryType
    <3>2. ns.dentries[d].parent \in Slots(ns) \cup {0}
      BY <1>1 DEF Space, Rooted
    <3>. QED
      BY <1>2, <3>1, <3>2
  <2>2. ASSUME NEW i \in 1..Len(ns.inodes)
        PROVE  ns.inodes[i].type \in Types /\ ns.inodes[i].nlink \in Nat
    <3>1. ns.inodes \in Seq(Inode)
      BY <1>1 DEF Space, Typed, Inode
    <3>2. ns.inodes[i] \in Inode
      BY <3>1
    <3>. QED
      BY <3>2 DEF Inode
  <2>3. ASSUME NEW m \in 1..Len(ns.mounts)
        PROVE  ns.mounts[m].root \in Slots(ns)
    <3>1. CASE m = 1
      BY <1>1, <1>2, <3>1 DEF Space, Mounted
    <3>2. CASE m # 1
      <4>1. m \in 2..Len(ns.mounts)
        BY <1>2, <3>2
      <4>. QED
        BY <1>1, <4>1 DEF Space, Mounted
    <3>. QED
      BY <3>1, <3>2
  <2>. QED
    BY <1>3, <2>1, <2>2, <2>3 DEF TypeOK
<1>5. \A dir \in DOMAIN ns.children : \A n \in DOMAIN ns.children[dir] :
        ns.dentries[ns.children[dir][n]].name = n /\ ns.dentries[ns.children[dir][n]].parent = dir
  BY <1>1, <1>3 DEF Space, Typed
<1>6. ASSUME \A d \in DOMAIN ns.children : ns.children[d] # << >> => TypeOf(ns, d) = "dir",
             NEW i \in DOMAIN ns.inodes
      PROVE  ns.inodes[i].nlink = Cardinality(LinksTo(i)) + (IF IsRoot(i) THEN 1 ELSE 0)
  <2>1. Clean(ns)
    BY <1>3, <1>6 DEF Clean
  <2>2. LinksTo(i) = Links(ns, i) /\ (IsRoot(i) <=> RootIno(ns, i))
    BY <1>3 DEF LinksTo, Links, IsRoot, RootIno
  <2>3. ns.inodes[i].nlink = Cardinality(Links(ns, i)) + Extra(ns, i)
    BY <1>3, <1>6, <2>1 DEF TreeOK, Linked
  <2>. QED
    BY <2>2, <2>3 DEF Extra
<1>. QED
  BY <1>4, <1>5, <1>6 DEF TreeSound

\* create(), symlink(), link(), unlink() and mount() keep the tree: what is in
\* a directory has that name and that parent, and while nothing was put under
\* a file that is no directory the link counts are the numbers of names.
THEOREM TreeSoundInvariant ==
  FileSystemSpec => []TreeSound
<1>. DEFINE I == TreeOK(ns)
<1>1. FileSystemInit => I
  BY TreeInitially DEF FileSystemInit
<1>2. I /\ [FileSystemNext]_allVars => I'
  BY TreeStep
<1>3. I => TreeSound
  BY TreeOKSound
<1>. HIDE DEF I
<1>. QED
  BY <1>1, <1>2, <1>3, PTL DEF FileSystemSpec
=============================================================================
