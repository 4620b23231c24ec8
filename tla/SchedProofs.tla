---------------------------- MODULE SchedProofs -----------------------------
(***************************************************************************)
(* Proofs about module Sched for every set of workers, every bound on the  *)
(* sleeping times and the run times, and one CPU. (With two CPUs the       *)
(* property is false, as the run with MCSchedTwoCpus.cfg shows.)           *)
(*                                                                         *)
(* That a thread is in one place is inductive once its status tells which  *)
(* place: "ready" is a queue or the hands of schedule(), "sleeping" is the *)
(* sleep queue or a reaper on its own way there, "running" is the CPU. A   *)
(* wake_up(), in a thread or in an interrupt handler, changes the status   *)
(* of a worker that is not on the CPU: one that is there on its way to     *)
(* sleep holds its sleep_lock until schedule() releases it.                *)
(*                                                                         *)
(* The loop of sleeper() and the lowest vruntime are inductions over data. *)
(* They are proved by a least counterexample: a nonempty set of naturals   *)
(* has a least element (LeastNatural).                                     *)
(***************************************************************************)
EXTENDS Sched, FiniteSetTheorems, SequenceTheorems, TLAPS

\* No thread stands twice in q.
Once(q) == \A i, j \in DOMAIN q : q[i] = q[j] => i = j

\* The thread that schedule() took out of the run queue.
InHand(c) == IF pick[c] = running[c] THEN {} ELSE {pick[c]} \ {Idle}

\* TypeOK, with queues that are sequences.
SchedTypes ==
  /\ TypeOK
  /\ runq \in [Cpus -> Seq(Threads)] /\ sleepq \in [Cpus -> Seq(MaySleep)]

\* The two queues and the hands of schedule() share no thread, and the status
\* of a thread fits the place where it is.
Placed(c) ==
  /\ Once(runq[c]) /\ Once(sleepq[c])
  /\ Range(runq[c]) \cap Range(sleepq[c]) = {}
  /\ InHand(c) \cap Range(runq[c]) = {} /\ InHand(c) \cap Range(sleepq[c]) = {}
  /\ \A t \in Range(runq[c]) : status[t] = "ready"
  /\ \A t \in InHand(c) : status[t] = "ready"
  /\ \A t \in Range(sleepq[c]) : status[t] \in {"sleeping", "ready"}

\* The status of a thread tells where it is.
Known(c) ==
  \A t \in Threads :
    /\ pc[t] = "new" <=> status[t] = "not_ready"
    /\ status[t] = "ready" => t \in Range(runq[c]) \union Range(sleepq[c]) \union InHand(c)
    /\ status[t] = "sleeping" =>
         (t \in Range(sleepq[c]) /\ pc[t] = "yielding") \/ pc[t] \in {"dozing", "linking"}
    /\ status[t] = "running" => running[c] = t
    /\ pc[t] \in {"dozing", "linking"} =>
         status[t] = "sleeping" /\ t \notin Range(sleepq[c]) /\ t \notin Workers

\* What the CPU runs, and where it is in schedule().
OnCpu(c) ==
  /\ running[c] # Idle => status[running[c]] \in {"running", "sleeping"}
  /\ schedPc[c] # "switch" => pick[c] = Idle
  /\ pick[c] = running[c] /\ pick[c] # Idle => status[pick[c]] = "running"

\* Who is in wake_up() runs, and wakes a worker.
Waking(c) ==
  /\ \A u \in Threads : pc[u] \in {"signalling", "waking"} => target[u] \in Workers
  /\ \A u \in Threads : pc[u] = "waking" =>
       running[c] = u /\ schedPc[c] = "run" /\ status[u] = "running"
  /\ schedPc[c] = "handler" => irqTarget \in Workers

\* A held sleep_lock belongs to the thread that is still on its way off the CPU,
\* and a worker on its way off the CPU holds it.
LockLeft(c) ==
  /\ \A t \in Threads : sleepLock[t] =>
       running[c] = t /\ status[t] = "sleeping" /\ schedPc[c] # "switch"
  /\ \A t \in Workers : running[c] = t /\ status[t] = "sleeping" /\ schedPc[c] # "switch" => sleepLock[t]

\* The inductive invariant.
SchedInv(c) ==
  SchedTypes /\ ~panicked /\ Placed(c) /\ Known(c) /\ OnCpu(c) /\ Waking(c) /\ LockLeft(c)

-----------------------------------------------------------------------------
(* Numbers and sequences *)

\* The principle of the least natural number.
LEMMA LeastNatural ==
  ASSUME NEW T, T \subseteq Nat, T # {}
  PROVE  \E x \in T : \A y \in T : x <= y
<1>. DEFINE R == OpToRel(<, Nat)
<1>1. IsWellFoundedOn(R, Nat)
  BY NatLessThanWellFounded
<1>2. \E x \in T : \A y \in T : ~ (<<y, x>> \in R)
  <2>. HIDE DEF R
  <2>. QED BY <1>1, WFMin
<1>3. \A x, y \in Nat : y < x => <<y, x>> \in R
  BY DEF OpToRel
<1>. HIDE DEF R
<1>4. PICK x \in T : \A y \in T : ~ (<<y, x>> \in R)
  BY <1>2
<1>5. ASSUME NEW y \in T PROVE x <= y
  <2>1. x \in Nat /\ y \in Nat /\ ~ (y < x)
    BY <1>3, <1>4
  <2>. QED
    BY <2>1
<1>. QED
  BY <1>4, <1>5

\* What InsertAt of SequencesExt returns, index by index.
LEMMA InsertAtFacts ==
  ASSUME NEW S, NEW q \in Seq(S), NEW e \in S, NEW k \in 1 .. Len(q) + 1
  PROVE  /\ InsertAt(q, k, e) \in Seq(S) /\ Len(InsertAt(q, k, e)) = Len(q) + 1
         /\ \A i \in 1 .. Len(q) + 1 :
              InsertAt(q, k, e)[i] = IF i < k THEN q[i] ELSE IF i = k THEN e ELSE q[i - 1]
<1>. DEFINE a == SubSeq(q, 1, k - 1)
            b == SubSeq(q, k, Len(q))
<1>1. Len(q) \in Nat
  OBVIOUS
<1>2. /\ a \in Seq(S) /\ Len(a) = k - 1 /\ \A i \in 1 .. k - 1 : a[i] = q[i]
  <2>1. CASE k = 1
    <3>1. a = <<>>
      BY <1>1, <2>1, SubSeqProperties
    <3>. QED
      BY <2>1, <3>1
  <2>2. CASE k # 1
    BY <1>1, <2>2, SubSeqProperties
  <2>. QED
    BY <2>1, <2>2
<1>3. /\ b \in Seq(S) /\ Len(b) = Len(q) - k + 1 /\ \A i \in 1 .. Len(q) - k + 1 : b[i] = q[k + i - 1]
  BY <1>1, SubSeqProperties
<1>4. InsertAt(q, k, e) = (a \o <<e>>) \o b
  BY DEF InsertAt
<1>. HIDE DEF a, b
<1>5. /\ a \o <<e>> \in Seq(S) /\ Len(a \o <<e>>) = k
      /\ \A i \in 1 .. k : (a \o <<e>>)[i] = IF i < k THEN q[i] ELSE e
  BY <1>1, <1>2
<1>6. PICK c \in Seq(S) : c = a \o <<e>>
  BY <1>5
<1>k. k \in Nat /\ k >= 1 /\ k <= Len(q) + 1
  BY <1>1
<1>7. c \o b \in Seq(S) /\ Len(c \o b) = Len(q) + 1
  <2>1. c \o b \in Seq(S) /\ Len(c \o b) = Len(c) + Len(b)
    BY <1>3, <1>6, ConcatProperties
  <2>2. Len(c) = k
    BY <1>5, <1>6
  <2>. QED
    BY <1>1, <1>3, <1>k, <2>1, <2>2
<1>8. ASSUME NEW i \in 1 .. Len(q) + 1
      PROVE  (c \o b)[i] = IF i < k THEN q[i] ELSE IF i = k THEN e ELSE q[i - 1]
  <2>1. CASE i <= k
    BY <1>1, <1>3, <1>5, <1>6, <2>1
  <2>2. CASE i > k
    <3>1. (c \o b)[i] = b[i - k]
      BY <1>1, <1>3, <1>5, <1>6, <2>2
    <3>2. i - k \in 1 .. Len(q) - k + 1
      BY <1>1, <2>2
    <3>. QED
      BY <1>1, <1>3, <2>2, <3>1, <3>2
  <2>3. i \in Nat
    BY <1>1
  <2>4. i <= k \/ i > k
    BY <1>k, <2>3
  <2>. QED
    BY <2>1, <2>2, <2>4
<1>. QED
  BY <1>4, <1>6, <1>7, <1>8

\* rbtree::insert adds the thread to the tree, whatever the keys.
LEMMA InsertByFacts ==
  ASSUME NEW S, NEW q \in Seq(S), NEW t \in S, NEW key, Once(q), t \notin Range(q)
  PROVE  /\ InsertBy(q, t, key) \in Seq(S) /\ Once(InsertBy(q, t, key))
         /\ Range(InsertBy(q, t, key)) = Range(q) \union {t}
<1>. DEFINE lower == {i \in 1 .. Len(q) : key[q[i]] <= key[t]}
<1>1. Len(q) \in Nat /\ DOMAIN q = 1 .. Len(q)
  OBVIOUS
<1>2. 1 + Cardinality(lower) \in 1 .. Len(q) + 1
  <2>1. IsFiniteSet(1 .. Len(q)) /\ Cardinality(1 .. Len(q)) = Len(q)
    BY <1>1, FS_Interval
  <2>2. IsFiniteSet(lower) /\ Cardinality(lower) <= Cardinality(1 .. Len(q))
    BY <2>1, FS_Subset
  <2>3. Cardinality(lower) \in Nat
    BY <2>2, FS_CardinalityType
  <2>. QED
    BY <1>1, <2>1, <2>2, <2>3
<1>3. PICK k \in 1 .. Len(q) + 1 : InsertBy(q, t, key) = InsertAt(q, k, t)
  BY <1>2 DEF InsertBy
<1>4. PICK r : r = InsertAt(q, k, t)
  OBVIOUS
<1>k. k \in Nat /\ k >= 1 /\ k <= Len(q) + 1
  BY <1>1
<1>5. /\ r \in Seq(S) /\ Len(r) = Len(q) + 1
      /\ \A i \in 1 .. Len(q) + 1 : r[i] = IF i < k THEN q[i] ELSE IF i = k THEN t ELSE q[i - 1]
  BY <1>4, InsertAtFacts, SMTT(40)
<1>6. DOMAIN r = 1 .. Len(q) + 1
  BY <1>5
<1>7. \A i \in 1 .. Len(q) : q[i] # t
  BY <1>1 DEF Range
<1>8. Once(r)
  <2>. SUFFICES ASSUME NEW i \in 1 .. Len(q) + 1, NEW j \in 1 .. Len(q) + 1, r[i] = r[j], i < j
       PROVE  FALSE
    BY <1>1, <1>6 DEF Once
  <2>1. i \in Nat /\ j \in Nat /\ i >= 1 /\ j >= 1 /\ i <= Len(q) + 1 /\ j <= Len(q) + 1
    BY <1>1
  <2>2. CASE i < k /\ j < k
    BY <1>1, <1>5, <1>k, <2>1, <2>2 DEF Once
  <2>3. CASE i < k /\ j > k
    <3>1. i \in 1 .. Len(q) /\ j - 1 \in 1 .. Len(q) /\ q[i] = q[j - 1]
      BY <1>1, <1>5, <1>k, <2>1, <2>3
    <3>. QED
      BY <1>1, <1>k, <2>1, <2>3, <3>1 DEF Once
  <2>4. CASE i > k
    <3>1. i - 1 \in 1 .. Len(q) /\ j - 1 \in 1 .. Len(q) /\ q[i - 1] = q[j - 1]
      BY <1>1, <1>5, <1>k, <2>1, <2>4
    <3>. QED
      BY <1>1, <1>k, <2>1, <2>4, <3>1 DEF Once
  <2>5. CASE i = k \/ j = k
    BY <1>1, <1>5, <1>7, <1>k, <2>1, <2>5
  <2>. QED
    BY <1>k, <2>1, <2>2, <2>3, <2>4, <2>5
<1>9. Range(r) = Range(q) \union {t}
  <2>1. ASSUME NEW i \in 1 .. Len(q) + 1 PROVE r[i] \in Range(q) \union {t}
    <3>1. i < k => i \in 1 .. Len(q)
      BY <1>1, <1>k
    <3>2. i > k => i - 1 \in 1 .. Len(q)
      BY <1>1, <1>k
    <3>3. i < k \/ i = k \/ i > k
      BY <1>1, <1>k
    <3>. QED
      BY <1>1, <1>5, <3>1, <3>2, <3>3 DEF Range
  <2>2. ASSUME NEW i \in 1 .. Len(q) PROVE \E j \in 1 .. Len(q) + 1 : r[j] = q[i]
    <3>1. CASE i < k
      BY <1>1, <1>k, <1>5, <3>1
    <3>2. CASE i >= k
      <4>1. i + 1 \in 1 .. Len(q) + 1 /\ r[i + 1] = q[i]
        BY <1>1, <1>k, <1>5, <3>2
      <4>. QED
        BY <4>1
    <3>. QED
      BY <1>1, <1>k, <3>1, <3>2
  <2>3. r[k] = t
    BY <1>1, <1>k, <1>5
  <2>. QED
    BY <1>1, <1>k, <1>6, <2>1, <2>2, <2>3 DEF Range
<1>. QED
  BY <1>3, <1>4, <1>5, <1>8, <1>9

\* Rebase keeps a vruntime natural: the lowest one that competes is one of them.
LEMMA RebaseType ==
  ASSUME NEW v \in [Threads -> Nat], NEW c, NEW rq \in Seq(Threads), NEW r \in Threads \union {Idle}
  PROVE  Rebase(v, c, rq, r) \in [Threads -> Nat]
<1>. DEFINE competing == Range(rq) \union ({r} \ {Idle})
            values == {v[t] : t \in competing}
            low == Least(values)
<1>1. competing \subseteq Threads
  BY DEF Range
<1>2. ASSUME competing # {} PROVE low \in Nat
  <2>1. values \subseteq Nat /\ values # {}
    BY <1>1, <1>2
  <2>. HIDE DEF values
  <2>2. \E m \in values : \A n \in values : m <= n
    BY <2>1, LeastNatural
  <2>3. low \in values
    BY <2>2 DEF Least
  <2>. QED
    BY <2>1, <2>3
<1>3. MaxLag \in Nat
  BY Bounds
<1>4. CASE competing = {}
  BY <1>4 DEF Rebase
<1>5. CASE competing # {}
  <2>1. Rebase(v, c, rq, r) =
          [t \in Threads |-> IF home[t] # c THEN v[t]
                            ELSE IF v[t] - low + MaxLag < 0 THEN 0 ELSE v[t] - low + MaxLag]
    BY <1>5 DEF Rebase
  <2>2. low \in Nat
    BY <1>2, <1>5
  <2>. HIDE DEF low
  <2>. QED
    BY <1>3, <2>1, <2>2
<1>. QED
  BY <1>4, <1>5

-----------------------------------------------------------------------------
(* The loop of sleeper() *)

\* The states of the loop of sleeper(), one for each node it has passed.
Sweeps(after, q, rq, key) ==
  /\ Swept(q, rq, key) = after[Len(q)]
  /\ after[0] = [asleep |-> <<>>, queue |-> rq]
  /\ \A n \in 1 .. Len(q) :
       after[n] = IF Due(q[n])
                  THEN [after[n - 1] EXCEPT !.queue = InsertBy(@, q[n], key)]
                  ELSE [after[n - 1] EXCEPT !.asleep = Append(@, q[n])]

\* The recursion has a solution: there is no least length without one.
LEMMA SweptDefined ==
  ASSUME NEW q \in Seq(MaySleep), NEW rq, NEW key
  PROVE  \E after : Sweeps(after, q, rq, key)
<1>. DEFINE Step(g, n) == IF Due(q[n])
                          THEN [g[n - 1] EXCEPT !.queue = InsertBy(@, q[n], key)]
                          ELSE [g[n - 1] EXCEPT !.asleep = Append(@, q[n])]
            Body(g, n) == CASE n = 0 -> [asleep |-> <<>>, queue |-> rq]
                            [] n > 0 /\ Due(q[n]) -> [g[n - 1] EXCEPT !.queue = InsertBy(@, q[n], key)]
                            [] OTHER -> [g[n - 1] EXCEPT !.asleep = Append(@, q[n])]
            Solves(g, m) == g = [n \in 0 .. m |-> Body(g, n)]
            after == CHOOSE g : Solves(g, Len(q))
            T == {m \in Nat : ~ \E g : Solves(g, m)}
<1>0. Len(q) \in Nat
  OBVIOUS
<1>1. Swept(q, rq, key) = after[Len(q)]
  BY DEF Swept
<1>2. \A g : Body(g, 0) = [asleep |-> <<>>, queue |-> rq]
  OBVIOUS
<1>3. ASSUME NEW g, NEW n \in Nat, n # 0 PROVE Body(g, n) = Step(g, n)
  BY <1>3
<1>4. ASSUME NEW g, NEW h, NEW n \in Nat, n # 0, g[n - 1] = h[n - 1] PROVE Body(g, n) = Body(h, n)
  BY <1>4
<1>. HIDE DEF Body
<1>5. T = {}
  <2>. SUFFICES ASSUME T # {} PROVE FALSE
    OBVIOUS
  <2>1. T \subseteq Nat
    OBVIOUS
  <2>2. PICK m \in T : \A k \in T : m <= k
    <3>. HIDE DEF T
    <3>. QED
      BY <2>1, LeastNatural
  <2>3. m \in Nat /\ ~ \E g : Solves(g, m)
    OBVIOUS
  <2>4. CASE m = 0
    <3>1. Solves([n \in 0 .. 0 |-> [asleep |-> <<>>, queue |-> rq]], 0)
      BY <1>2
    <3>. QED
      BY <2>3, <2>4, <3>1
  <2>5. CASE m # 0
    <3>1. m - 1 \in Nat /\ m - 1 \notin T
      BY <2>2, <2>3, <2>5
    <3>2. PICK g : g = [n \in 0 .. m - 1 |-> Body(g, n)]
      BY <3>1
    <3>. DEFINE h == [n \in 0 .. m |-> IF n < m THEN g[n] ELSE Body(g, m)]
    <3>3. \A n \in 0 .. m - 1 : h[n] = g[n] /\ g[n] = Body(g, n)
      <4>1. \A n \in 0 .. m - 1 : n \in 0 .. m /\ n < m
        BY <2>3
      <4>2. \A n \in 0 .. m - 1 : h[n] = g[n]
        BY <4>1
      <4>3. \A n \in 0 .. m - 1 : g[n] = Body(g, n)
        BY <3>2, Zenon
      <4>. QED
        BY <4>2, <4>3
    <3>4. h[m] = Body(g, m)
      BY <2>3
    <3>5. ASSUME NEW n \in 0 .. m PROVE h[n] = Body(h, n)
      <4>1. CASE n = 0
        <5>1. 0 \in 0 .. m - 1
          BY <3>1
        <5>. QED
          BY <1>2, <3>3, <4>1, <5>1
      <4>2. CASE n # 0
        <5>1. n \in Nat /\ n - 1 \in 0 .. m - 1
          BY <2>3, <4>2
        <5>2. Body(g, n) = Body(h, n)
          BY <1>4, <3>3, <4>2, <5>1
        <5>3. h[n] = Body(g, n)
          <6>1. n = m \/ n \in 0 .. m - 1
            BY <2>3, <5>1
          <6>. HIDE DEF h
          <6>. QED
            BY <3>3, <3>4, <6>1
        <5>. QED
          BY <5>2, <5>3
      <4>. QED
        BY <4>1, <4>2
    <3>6. Solves(h, m)
      BY <3>5
    <3>. QED
      BY <2>3, <3>6
  <2>. QED
    BY <2>4, <2>5
<1>6. after = [n \in 0 .. Len(q) |-> Body(after, n)]
  <2>1. \E g : Solves(g, Len(q))
    BY <1>0, <1>5
  <2>. QED
    BY <2>1
<1>. HIDE DEF after
<1>7. after[0] = [asleep |-> <<>>, queue |-> rq]
  <2>1. 0 \in 0 .. Len(q)
    BY <1>0
  <2>. QED
    BY <1>2, <1>6, <2>1
<1>8. \A n \in 1 .. Len(q) : after[n] = Step(after, n)
  <2>. SUFFICES ASSUME NEW n \in 1 .. Len(q) PROVE after[n] = Step(after, n)
    OBVIOUS
  <2>1. n \in 0 .. Len(q) /\ n \in Nat /\ n # 0
    BY <1>0
  <2>. HIDE DEF Step
  <2>. QED
    BY <1>3, <1>6, <2>1
<1>. QED
  BY <1>1, <1>7, <1>8, Zenon DEF Sweeps

\* Appending a thread that is not in the sequence.
LEMMA AppendOnce ==
  ASSUME NEW S, NEW q \in Seq(S), NEW t \in S, Once(q), t \notin Range(q)
  PROVE  /\ Append(q, t) \in Seq(S) /\ Once(Append(q, t))
         /\ Range(Append(q, t)) = Range(q) \union {t}
<1>1. Len(q) \in Nat /\ DOMAIN q = 1 .. Len(q)
  OBVIOUS
<1>2. PICK r : r = Append(q, t)
  OBVIOUS
<1>3. /\ r \in Seq(S) /\ DOMAIN r = 1 .. Len(q) + 1 /\ r[Len(q) + 1] = t
      /\ \A i \in 1 .. Len(q) : r[i] = q[i]
  BY <1>2, AppendProperties
<1>4. \A i \in 1 .. Len(q) : q[i] # t
  BY <1>1 DEF Range
<1>5. \A i \in 1 .. Len(q) + 1 : i \in 1 .. Len(q) \/ i = Len(q) + 1
  BY <1>1
<1>6. Once(r)
  BY <1>1, <1>3, <1>4, <1>5 DEF Once
<1>7. Range(r) = Range(q) \union {t}
  <2>1. \A i \in 1 .. Len(q) : i \in 1 .. Len(q) + 1
    BY <1>1
  <2>2. Len(q) + 1 \in 1 .. Len(q) + 1
    BY <1>1
  <2>. QED
    BY <1>1, <1>3, <1>5, <2>1, <2>2 DEF Range
<1>. QED
  BY <1>2, <1>3, <1>6, <1>7

\* The loop leaves z asleep and makes r of the run queue rq.
SweptTo(q, rq, key, z, r) ==
  /\ z \in Seq(MaySleep) /\ r \in Seq(Threads)
  /\ Swept(q, rq, key) = [asleep |-> z, queue |-> r]
  /\ Once(z) /\ Range(z) = {t \in Range(q) : ~Due(t)}
  /\ Once(r) /\ Range(r) = Range(rq) \union {t \in Range(q) : Due(t)}

\* No thread is lost or doubled by the loop, by the same induction.
LEMMA SweptFacts ==
  ASSUME NEW q \in Seq(MaySleep), NEW rq \in Seq(Threads), NEW key, Once(q), Once(rq),
         Range(q) \cap Range(rq) = {}
  PROVE  \E z, r : SweptTo(q, rq, key, z, r)
<1>. DEFINE First(n) == {q[i] : i \in 1 .. n}
            Good(z, r, n) ==
              /\ z \in Seq(MaySleep) /\ r \in Seq(Threads)
              /\ Once(z) /\ Range(z) = {t \in First(n) : ~Due(t)}
              /\ Once(r) /\ Range(r) = Range(rq) \union {t \in First(n) : Due(t)}
<1>r. PICK after : Sweeps(after, q, rq, key)
  BY SweptDefined
<1>1. /\ Swept(q, rq, key) = after[Len(q)]
      /\ after[0] = [asleep |-> <<>>, queue |-> rq]
      /\ \A n \in 1 .. Len(q) :
           after[n] = IF Due(q[n])
                      THEN [after[n - 1] EXCEPT !.queue = InsertBy(@, q[n], key)]
                      ELSE [after[n - 1] EXCEPT !.asleep = Append(@, q[n])]
  BY <1>r, Zenon DEF Sweeps
<1>. DEFINE Fine(n) == \E z, r : Good(z, r, n) /\ after[n] = [asleep |-> z, queue |-> r]
            T == {n \in 0 .. Len(q) : ~Fine(n)}
<1>2. Len(q) \in Nat /\ DOMAIN q = 1 .. Len(q) /\ Range(q) = First(Len(q))
  BY DEF Range
<1>3. Fine(0)
  <2>1. <<>> \in Seq(MaySleep) /\ Once(<<>>) /\ Range(<<>>) = {} /\ First(0) = {}
    BY DEF Once, Range
  <2>2. Good(<<>>, rq, 0)
    BY <2>1
  <2>. HIDE DEF Good
  <2>. QED
    BY <1>1, <2>2
<1>4. ASSUME NEW n \in 1 .. Len(q), Fine(n - 1) PROVE Fine(n)
  <2>1. PICK z, r : Good(z, r, n - 1) /\ after[n - 1] = [asleep |-> z, queue |-> r]
    BY <1>4
  <2>2. n \in Nat /\ n >= 1 /\ n <= Len(q) /\ q[n] \in MaySleep /\ q[n] \in Threads
    BY <1>2 DEF Threads
  <2>3. First(n) = First(n - 1) \union {q[n]}
    <3>1. \A i \in 1 .. n : i \in 1 .. n - 1 \/ i = n
      BY <2>2
    <3>2. \A i \in 1 .. n - 1 : i \in 1 .. n
      BY <2>2
    <3>. QED
      BY <2>2, <3>1, <3>2
  <2>4. q[n] \notin First(n - 1)
    <3>1. \A i \in 1 .. n - 1 : i \in 1 .. Len(q) /\ i # n
      BY <1>2, <2>2
    <3>. QED
      BY <1>2, <3>1 DEF Once
  <2>5. q[n] \in Range(q) /\ q[n] \notin Range(rq)
    BY <1>2 DEF Range
  <2>6. /\ z \in Seq(MaySleep) /\ r \in Seq(Threads)
        /\ Once(z) /\ Range(z) = {t \in First(n - 1) : ~Due(t)}
        /\ Once(r) /\ Range(r) = Range(rq) \union {t \in First(n - 1) : Due(t)}
    BY <2>1
  <2>. HIDE DEF First
  <2>7. CASE Due(q[n])
    <3>1. PICK s : s = InsertBy(r, q[n], key)
      OBVIOUS
    <3>2. q[n] \notin Range(r)
      BY <2>4, <2>5, <2>6
    <3>3. s \in Seq(Threads) /\ Once(s) /\ Range(s) = Range(r) \union {q[n]}
      BY <2>2, <2>6, <3>1, <3>2, InsertByFacts
    <3>4. Range(z) = {t \in First(n) : ~Due(t)}
      BY <2>3, <2>6, <2>7
    <3>5. Range(s) = Range(rq) \union {t \in First(n) : Due(t)}
      BY <2>3, <2>6, <2>7, <3>3
    <3>6. Good(z, s, n)
      BY <2>6, <3>3, <3>4, <3>5
    <3>7. after[n] = [asleep |-> z, queue |-> s]
      <4>1. after[n] = [after[n - 1] EXCEPT !.queue = InsertBy(@, q[n], key)]
        BY <1>1, <2>7, Zenon
      <4>2. PICK a : a = after[n - 1]
        OBVIOUS
      <4>3. a = [asleep |-> z, queue |-> r] /\ after[n] = [a EXCEPT !.queue = InsertBy(@, q[n], key)]
        BY <2>1, <4>1, <4>2, Zenon
      <4>. QED
        BY <3>1, <4>3
    <3>. HIDE DEF Good
    <3>. QED
      BY <3>6, <3>7
  <2>8. CASE ~Due(q[n])
    <3>1. PICK s : s = Append(z, q[n])
      OBVIOUS
    <3>2. q[n] \notin Range(z)
      BY <2>4, <2>6
    <3>3. s \in Seq(MaySleep) /\ Once(s) /\ Range(s) = Range(z) \union {q[n]}
      BY <2>2, <2>6, <3>1, <3>2, AppendOnce
    <3>4. Range(s) = {t \in First(n) : ~Due(t)}
      BY <2>3, <2>6, <2>8, <3>3
    <3>5. Range(r) = Range(rq) \union {t \in First(n) : Due(t)}
      BY <2>3, <2>6, <2>8
    <3>6. Good(s, r, n)
      BY <2>6, <3>3, <3>4, <3>5
    <3>7. after[n] = [asleep |-> s, queue |-> r]
      <4>1. after[n] = [after[n - 1] EXCEPT !.asleep = Append(@, q[n])]
        BY <1>1, <2>8, Zenon
      <4>2. PICK a : a = after[n - 1]
        OBVIOUS
      <4>3. a = [asleep |-> z, queue |-> r] /\ after[n] = [a EXCEPT !.asleep = Append(@, q[n])]
        BY <2>1, <4>1, <4>2, Zenon
      <4>. QED
        BY <3>1, <4>3
    <3>. HIDE DEF Good
    <3>. QED
      BY <3>6, <3>7
  <2>. QED
    BY <2>7, <2>8
<1>. HIDE DEF Fine
<1>5. T = {}
  <2>. SUFFICES ASSUME T # {} PROVE FALSE
    OBVIOUS
  <2>1. T \subseteq Nat
    OBVIOUS
  <2>2. PICK m \in T : \A k \in T : m <= k
    <3>. HIDE DEF T
    <3>. QED
      BY <2>1, LeastNatural
  <2>3. m \in Nat /\ m <= Len(q) /\ m # 0 /\ ~Fine(m)
    BY <1>2, <1>3
  <2>4. m \in 1 .. Len(q) /\ m - 1 \in 0 .. Len(q) /\ m - 1 \notin T
    BY <1>2, <2>2, <2>3
  <2>. QED
    BY <1>4, <2>3, <2>4
<1>6. Fine(Len(q))
  BY <1>2, <1>5
<1>. QED
  BY <1>1, <1>2, <1>6 DEF Fine, SweptTo

\* How often a thread stands in a queue without doubles.
LEMMA TimesOnce ==
  ASSUME NEW S, NEW q \in Seq(S), Once(q), NEW t
  PROVE  Times(q, t) = IF t \in Range(q) THEN 1 ELSE 0
<1>. DEFINE at == {i \in 1 .. Len(q) : q[i] = t}
<1>1. DOMAIN q = 1 .. Len(q)
  OBVIOUS
<1>2. CASE t \in Range(q)
  <2>1. PICK k \in 1 .. Len(q) : q[k] = t
    BY <1>1, <1>2 DEF Range
  <2>2. at = {k}
    BY <1>1, <2>1 DEF Once
  <2>3. Cardinality({k}) = 1
    BY FS_Singleton
  <2>. QED
    BY <1>2, <2>2, <2>3 DEF Times
<1>3. CASE t \notin Range(q)
  <2>1. at = {}
    BY <1>1, <1>3 DEF Range
  <2>2. Cardinality({}) = 0
    BY FS_EmptySet
  <2>. QED
    BY <1>3, <2>1, <2>2 DEF Times
<1>. QED
  BY <1>2, <1>3

-----------------------------------------------------------------------------
(* The invariant *)

\* What the invariant says of the single CPU, in one place.
LEMMA SchedFacts ==
  ASSUME NEW c, Cpus = {c}, SchedInv(c)
  PROVE  /\ c \in Cpus /\ Bsp = c /\ Idle \notin Threads
         /\ Workers \subseteq MaySleep /\ MaySleep \subseteq Threads /\ Workers \subseteq Threads
         /\ Sleeper[c] \in Threads /\ Sleeper[c] \notin MaySleep
         /\ Reaper[c] \in MaySleep /\ Reaper[c] \notin Workers
         /\ SchedTypes /\ TypeOK /\ ~panicked
         /\ Placed(c) /\ Known(c) /\ OnCpu(c) /\ Waking(c) /\ LockLeft(c)
         /\ \A t \in Threads : home[t] = c
         /\ runq[c] \in Seq(Threads) /\ sleepq[c] \in Seq(MaySleep)
         /\ Range(runq[c]) \subseteq Threads /\ Range(sleepq[c]) \subseteq MaySleep
         /\ running[c] \in Threads \union {Idle} /\ pick[c] \in Threads \union {Idle}
<1>1. SchedTypes /\ TypeOK
  BY DEF SchedInv, SchedTypes
<1>2. c \in Cpus /\ Bsp = c /\ \A t \in Threads : home[t] = c
  BY <1>1, BspIsCpu DEF TypeOK
<1>3. /\ Idle \notin Threads /\ Workers \subseteq MaySleep /\ MaySleep \subseteq Threads
      /\ Sleeper[c] \in Threads /\ Sleeper[c] \notin MaySleep
      /\ Reaper[c] \in MaySleep /\ Reaper[c] \notin Workers
  BY <1>2, IdleApart, SleeperPerCpu, ReaperPerCpu DEF Threads, MaySleep
<1>4. /\ runq[c] \in Seq(Threads) /\ sleepq[c] \in Seq(MaySleep)
      /\ Range(runq[c]) \subseteq Threads /\ Range(sleepq[c]) \subseteq MaySleep
  BY <1>1, <1>2 DEF SchedTypes, TypeOK
<1>5. running[c] \in Threads \union {Idle} /\ pick[c] \in Threads \union {Idle}
  BY <1>1, <1>2 DEF TypeOK
<1>. QED
  BY <1>1, <1>2, <1>3, <1>4, <1>5 DEF SchedInv

\* On its only CPU a thread that executes is in no queue; nobody is in wake_up()
\* and no sleep_lock is held.
LEMMA ExecFacts ==
  ASSUME NEW c, Cpus = {c}, SchedInv(c), NEW u \in Threads, Executes(u, c)
  PROVE  /\ running[c] = u /\ status[u] = "running" /\ pc[u] = "run" /\ schedPc[c] = "run"
         /\ pick[c] = Idle /\ InHand(c) = {}
         /\ u \notin Range(runq[c]) /\ u \notin Range(sleepq[c])
         /\ \A t \in Threads : pc[t] # "waking" /\ ~sleepLock[t]
<1>1. running[c] = u /\ schedPc[c] = "run" /\ pc[u] = "run" /\ u # Idle
  BY SchedFacts DEF Executes, At
<1>2. status[u] = "running"
  BY <1>1, SchedFacts DEF OnCpu, Known
<1>3. pick[c] = Idle /\ InHand(c) = {}
  BY <1>1, SchedFacts DEF OnCpu, InHand
<1>4. u \notin Range(runq[c]) /\ u \notin Range(sleepq[c])
  BY <1>2, SchedFacts DEF Placed
<1>5. ASSUME NEW t \in Threads PROVE pc[t] # "waking" /\ ~sleepLock[t]
  BY <1>1, <1>2, SchedFacts DEF Waking, LockLeft
<1>. QED
  BY <1>1, <1>2, <1>3, <1>4, <1>5

\* The invariant implies the property.
LEMMA SchedInvSound ==
  ASSUME NEW c, Cpus = {c}, SchedInv(c)
  PROVE  SchedSafe
<1>1. InOnePlace
  <2>. SUFFICES ASSUME NEW t \in Threads, pc[t] # "new"
       PROVE  Times(runq[c], t) + Times(sleepq[c], t)
                + (IF pick[c] = t /\ running[c] # t THEN 1 ELSE 0)
                = IF status[t] = "running" \/ pc[t] \in {"dozing", "linking"} THEN 0 ELSE 1
    BY SchedFacts DEF InOnePlace
  <2>1. /\ Times(runq[c], t) = IF t \in Range(runq[c]) THEN 1 ELSE 0
        /\ Times(sleepq[c], t) = IF t \in Range(sleepq[c]) THEN 1 ELSE 0
    BY SchedFacts, TimesOnce DEF Placed
  <2>2. pick[c] = t /\ running[c] # t <=> t \in InHand(c)
    BY SchedFacts DEF InHand
  <2>3. status[t] \in {"ready", "running", "sleeping"}
    BY SchedFacts DEF TypeOK, Known
  <2>4. /\ status[t] = "running" => t \notin Range(runq[c]) \union Range(sleepq[c]) \union InHand(c)
        /\ status[t] = "sleeping" => /\ t \in Range(sleepq[c]) <=> pc[t] \notin {"dozing", "linking"}
                                     /\ t \notin Range(runq[c]) \union InHand(c)
        /\ status[t] # "sleeping" => pc[t] \notin {"dozing", "linking"}
        /\ status[t] = "ready" => t \in Range(runq[c]) \union Range(sleepq[c]) \union InHand(c)
        /\ ~(t \in Range(runq[c]) /\ t \in Range(sleepq[c]))
        /\ ~(t \in Range(runq[c]) /\ t \in InHand(c)) /\ ~(t \in Range(sleepq[c]) /\ t \in InHand(c))
    BY SchedFacts DEF Placed, Known
  <2>. HIDE DEF InHand
  <2>. QED
    BY <2>1, <2>2, <2>3, <2>4
<1>2. SleepLockOnWayOut
  BY SchedFacts DEF SleepLockOnWayOut, LockLeft
<1>. QED
  BY <1>1, <1>2, SchedFacts DEF SchedSafe, NoSchedulerPanic

\* It holds when the scheduler starts.
LEMMA SchedInit ==
  ASSUME NEW c, Cpus = {c}, Init
  PROVE  SchedInv(c)
<1>. DEFINE s == Sleeper[c]
            e == Reaper[c]
<1>1. PICK w \in Workers, h \in [Workers -> Cpus] :
        /\ home = [t \in Threads |-> IF t \in Workers THEN h[t]
                                     ELSE CHOOSE d \in Cpus : t \in {Sleeper[d], Reaper[d]}]
        /\ status = [t \in Threads |-> IF t \in {w} \union (Threads \ Workers)
                                       THEN "ready" ELSE "not_ready"]
        /\ pc = [t \in Threads |-> IF t \in {w} \union (Threads \ Workers) THEN "run" ELSE "new"]
        /\ runq = [d \in Cpus |-> (IF h[w] = d THEN <<w>> ELSE <<>>) \o <<Reaper[d], Sleeper[d]>>]
        /\ sleepq = [d \in Cpus |-> <<>>] /\ running = [d \in Cpus |-> Idle]
        /\ schedPc = [d \in Cpus |-> "run"] /\ pick = [d \in Cpus |-> Idle]
        /\ vruntime = [t \in Threads |-> IF t \in {w} \union (Threads \ Workers)
                                         THEN MaxLag ELSE 0]
        /\ until = [t \in Threads |-> NoTimeout] /\ sleepLock = [t \in Threads |-> FALSE]
        /\ listed = {} /\ target = [t \in Threads |-> Idle] /\ irqTarget = Idle
        /\ torn = FALSE /\ panicked = FALSE
  BY DEF Init
<1>2. /\ Threads = Workers \union {e, s} /\ s \notin Workers /\ e \notin Workers /\ e # s
      /\ Idle \notin Threads
  BY SleeperPerCpu, ReaperPerCpu, IdleApart DEF Threads, MaySleep
<1>. HIDE DEF s, e
<1>3. /\ w \in Threads /\ s \in Threads /\ e \in Threads /\ w # s /\ w # e
      /\ h[w] = c /\ c \in Cpus
  BY <1>2
<1>4. sleepq[c] = <<>> /\ running[c] = Idle /\ pick[c] = Idle /\ schedPc[c] = "run"
  BY <1>1, <1>3
<1>5. runq[c] \in Seq(Threads) /\ Range(runq[c]) = {w, e, s} /\ Once(runq[c])
  <2>1. PICK a \in Seq(Threads), b \in Seq(Threads) : a = <<w>> /\ b = <<e, s>>
    <3>1. <<w>> \in Seq(Threads) /\ <<e, s>> \in Seq(Threads)
      BY <1>3
    <3>. QED
      BY <3>1
  <2>2. runq[c] = a \o b
    BY <1>1, <1>3, <2>1 DEF s, e
  <2>3. Len(a) = 1 /\ Len(b) = 2 /\ a[1] = w /\ b[1] = e /\ b[2] = s
    BY <2>1
  <2>4. /\ a \o b \in Seq(Threads) /\ DOMAIN (a \o b) = {1, 2, 3}
        /\ (a \o b)[1] = w /\ (a \o b)[2] = e /\ (a \o b)[3] = s
    <3>0. /\ a \o b \in Seq(Threads) /\ Len(a \o b) = Len(a) + Len(b)
          /\ \A i \in 1 .. Len(a) + Len(b) : (a \o b)[i] = IF i <= Len(a) THEN a[i] ELSE b[i - Len(a)]
      BY ConcatProperties
    <3>1. Len(a \o b) = 3 /\ \A i \in 1 .. 3 : (a \o b)[i] = IF i <= 1 THEN a[i] ELSE b[i - 1]
      BY <2>3, <3>0
    <3>2. (a \o b)[1] = w /\ (a \o b)[2] = e /\ (a \o b)[3] = s
      BY <2>3, <3>1
    <3>. QED
      BY <3>0, <3>1, <3>2
  <2>5. Range(runq[c]) = {w, e, s}
    BY <2>2, <2>4 DEF Range
  <2>6. Once(runq[c])
    <3>. DEFINE q == a \o b
    <3>1. q[1] = w /\ q[2] = e /\ q[3] = s /\ DOMAIN q = {1, 2, 3} /\ w # e /\ w # s /\ e # s
      BY <1>2, <1>3, <2>4
    <3>. HIDE DEF q
    <3>2. ASSUME NEW i \in {1, 2, 3}, NEW j \in {1, 2, 3}, q[i] = q[j]
          PROVE  i = j
      BY <3>1, <3>2
    <3>3. Once(q)
      BY <3>1, <3>2 DEF Once
    <3>. QED
      BY <2>2, <3>3 DEF q
  <2>. QED
    BY <2>2, <2>4, <2>5, <2>6
<1>6. <<>> \in Seq(MaySleep) /\ Range(<<>>) = {} /\ Once(<<>>)
  BY DEF Range, Once
<1>7. runq \in [Cpus -> Seq(Threads)] /\ sleepq \in [Cpus -> Seq(MaySleep)]
  <2>1. DOMAIN runq = Cpus /\ runq = [d \in Cpus |-> runq[d]]
    BY <1>1
  <2>. QED
    BY <1>1, <1>5, <1>6, <2>1
<1>8. TypeOK
  <2>1. home \in [Threads -> Cpus]
    <3>1. \A t \in Threads \ Workers : (CHOOSE d \in Cpus : t \in {Sleeper[d], Reaper[d]}) \in Cpus
      BY <1>2, <1>3 DEF s, e
    <3>. QED
      BY <1>1, <3>1
  <2>2. /\ status \in [Threads -> {"not_ready", "ready", "running", "sleeping"}]
        /\ pc \in [Threads -> Places]
        /\ vruntime \in [Threads -> Nat]
    BY <1>1, Bounds DEF Places
  <2>3. /\ until \in [Threads -> {NoTimeout} \union 0 .. MaxSleep]
        /\ sleepLock \in [Threads -> BOOLEAN] /\ panicked \in BOOLEAN
    BY <1>1
  <2>4. (\A d \in Cpus : Range(runq[d]) \subseteq Threads)
        /\ \A d \in Cpus : Range(sleepq[d]) \subseteq MaySleep
    BY <1>3, <1>4, <1>5, <1>6
  <2>. QED
    BY <1>1, <2>1, <2>2, <2>3, <2>4 DEF TypeOK
<1>9. (\A t \in {w, e, s} : status[t] = "ready" /\ pc[t] = "run")
      /\ \A t \in Threads \ {w, e, s} : status[t] = "not_ready" /\ pc[t] = "new"
  BY <1>1, <1>2, <1>3
<1>10. InHand(c) = {}
  BY <1>4 DEF InHand
<1>11. Placed(c) /\ Known(c)
  BY <1>4, <1>5, <1>6, <1>9, <1>10 DEF Placed, Known
<1>12. OnCpu(c) /\ Waking(c) /\ LockLeft(c)
  <2>1. OnCpu(c)
    BY <1>4 DEF OnCpu
  <2>2. \A t \in Threads : pc[t] \in {"run", "new"}
    BY <1>9
  <2>3. Waking(c)
    BY <1>4, <2>2 DEF Waking
  <2>4. \A t \in Threads : ~sleepLock[t] /\ t # running[c]
    BY <1>1, <1>2, <1>4
  <2>5. LockLeft(c)
    BY <1>2, <2>4 DEF LockLeft
  <2>. QED
    BY <2>1, <2>3, <2>5
<1>. QED
  BY <1>1, <1>7, <1>8, <1>11, <1>12 DEF SchedInv, SchedTypes

-----------------------------------------------------------------------------
(* Its preservation, action by action *)

\* spawn(): a new worker enters the run queue.
LEMMA SchedSpawn ==
  ASSUME NEW c, Cpus = {c}, SchedInv(c), NEW u \in Workers, NEW t \in Workers, Spawn(u, c, t)
  PROVE  SchedInv(c)'
<1>1. u \in Threads /\ t \in Threads /\ home[t] = c /\ c \in Cpus
  BY SchedFacts
<1>2. PICK v : v = [vruntime EXCEPT ![t] = 0]
  OBVIOUS
<1>3. /\ Executes(u, c) /\ pc[t] = "new" /\ pc' = [pc EXCEPT ![t] = "run"]
      /\ status' = [status EXCEPT ![t] = "ready"]
      /\ runq' = [runq EXCEPT ![c] = InsertBy(runq[c], t, v)]
      /\ vruntime' = Rebase(v, c, runq'[c], running[c])
      /\ UNCHANGED <<home, sleepq, running, schedPc, pick, until, sleepLock, listed, target, irqTarget,
                     torn, panicked>>
  BY <1>1, <1>2 DEF Spawn
<1>4. status[t] = "not_ready" /\ t # u /\ t # running[c]
  BY <1>1, <1>3, ExecFacts, SchedFacts DEF Known
<1>5. t \notin Range(runq[c]) /\ t \notin Range(sleepq[c])
  BY <1>4, SchedFacts DEF Placed
<1>6. PICK q : q = InsertBy(runq[c], t, v)
  OBVIOUS
<1>7. q \in Seq(Threads) /\ Once(q) /\ Range(q) = Range(runq[c]) \union {t}
  BY <1>1, <1>5, <1>6, SchedFacts, InsertByFacts DEF Placed
<1>8. runq'[c] = q /\ runq' \in [Cpus -> Seq(Threads)]
  BY <1>1, <1>3, <1>6, <1>7, SchedFacts DEF SchedTypes
<1>9. /\ \A x \in Threads : status'[x] = IF x = t THEN "ready" ELSE status[x]
      /\ \A x \in Threads : pc'[x] = IF x = t THEN "run" ELSE pc[x]
      /\ status' \in [Threads -> {"not_ready", "ready", "running", "sleeping"}]
      /\ pc' \in [Threads -> Places]
  BY <1>1, <1>3, SchedFacts DEF TypeOK, Places
<1>10. vruntime' \in [Threads -> Nat]
  <2>1. v \in [Threads -> Nat]
    BY <1>1, <1>2, SchedFacts DEF TypeOK
  <2>. QED
    BY <1>3, <1>7, <1>8, <2>1, SchedFacts, RebaseType
<1>11. SchedTypes'
  <2>1. \A d \in Cpus : Range(runq'[d]) \subseteq Threads
    BY <1>1, <1>7, <1>8, SchedFacts
  <2>. QED
    BY <1>3, <1>8, <1>9, <1>10, <2>1, SchedFacts DEF SchedTypes, TypeOK
<1>12. InHand(c) = {} /\ InHand(c)' = {}
  BY <1>1, <1>3, ExecFacts DEF InHand
<1>13. Placed(c)'
  <2>1. Placed(c) /\ Range(runq[c]) \subseteq Threads /\ Range(sleepq[c]) \subseteq Threads
    BY SchedFacts
  <2>2. /\ Once(sleepq[c]) /\ Range(q) \cap Range(sleepq[c]) = {}
        /\ \A x \in Range(q) : status'[x] = "ready"
    BY <1>1, <1>5, <1>7, <1>9, <2>1 DEF Placed
  <2>3. \A x \in Range(sleepq[c]) : status'[x] \in {"sleeping", "ready"}
    BY <1>5, <1>9, <2>1 DEF Placed
  <2>. QED
    BY <1>3, <1>7, <1>8, <1>12, <2>2, <2>3 DEF Placed
<1>14. Known(c)'
  BY <1>1, <1>3, <1>4, <1>7, <1>8, <1>9, <1>12, SchedFacts DEF Known
<1>15. OnCpu(c)'
  BY <1>3, <1>4, <1>9, SchedFacts DEF OnCpu
<1>16. Waking(c)'
  BY <1>1, <1>3, <1>4, <1>9, SchedFacts DEF Waking
<1>17. LockLeft(c)'
  BY <1>1, <1>3, <1>4, <1>9, SchedFacts DEF LockLeft
<1>. QED
  BY <1>3, <1>11, <1>13, <1>14, <1>15, <1>16, <1>17, SchedFacts DEF SchedInv

\* A worker enters the sleep queue and yields, with its sleep_lock held.
LEMMA SchedSleep ==
  ASSUME NEW c, Cpus = {c}, SchedInv(c), NEW t \in Workers,
         NEW ms \in {NoTimeout} \union 1 .. MaxSleep, Sleep(t, c, ms)
  PROVE  SchedInv(c)'
<1>1. t \in Threads /\ c \in Cpus
  BY SchedFacts
<1>2. PICK key : AsleepIn(sleepq[c], t, ms) = InsertBy(sleepq[c], t, key)
  BY DEF AsleepIn
<1>3. /\ Executes(t, c) /\ sleepLock' = [sleepLock EXCEPT ![t] = TRUE]
      /\ status' = [status EXCEPT ![t] = "sleeping"] /\ until' = [until EXCEPT ![t] = ms]
      /\ sleepq' = [sleepq EXCEPT ![c] = InsertBy(sleepq[c], t, key)]
      /\ listed' = IF ms = NoTimeout THEN listed \union {t} ELSE listed
      /\ pc' = [pc EXCEPT ![t] = "yielding"]
      /\ UNCHANGED <<home, runq, running, schedPc, pick, vruntime, target, irqTarget, torn, panicked>>
  BY <1>2 DEF Sleep, Deadline
<1>4. /\ running[c] = t /\ status[t] = "running" /\ pc[t] = "run" /\ schedPc[c] = "run"
      /\ pick[c] = Idle /\ InHand(c) = {} /\ t \notin Range(runq[c]) /\ t \notin Range(sleepq[c])
      /\ \A x \in Threads : pc[x] # "waking" /\ ~sleepLock[x]
  BY <1>1, <1>3, ExecFacts
<1>5. PICK q : q = InsertBy(sleepq[c], t, key)
  OBVIOUS
<1>6. q \in Seq(MaySleep) /\ Once(q) /\ Range(q) = Range(sleepq[c]) \union {t}
  BY <1>4, <1>5, SchedFacts, InsertByFacts DEF Placed
<1>7. sleepq'[c] = q /\ sleepq' \in [Cpus -> Seq(MaySleep)]
  BY <1>1, <1>3, <1>5, <1>6, SchedFacts DEF SchedTypes
<1>8. /\ \A x \in Threads : status'[x] = IF x = t THEN "sleeping" ELSE status[x]
      /\ \A x \in Threads : pc'[x] = IF x = t THEN "yielding" ELSE pc[x]
      /\ status' \in [Threads -> {"not_ready", "ready", "running", "sleeping"}]
      /\ pc' \in [Threads -> Places]
  BY <1>1, <1>3, SchedFacts DEF TypeOK, Places
<1>9. /\ \A x \in Threads : until'[x] = IF x = t THEN ms ELSE until[x]
      /\ until' \in [Threads -> {NoTimeout} \union 0 .. MaxSleep]
  <2>1. ms \in {NoTimeout} \union 0 .. MaxSleep
    BY Bounds
  <2>. QED
    BY <1>1, <1>3, <2>1, SchedFacts DEF TypeOK
<1>10. sleepLock' \in [Threads -> BOOLEAN] /\ \A x \in Threads : sleepLock'[x] <=> x = t
  <2>1. sleepLock \in [Threads -> BOOLEAN]
    BY SchedFacts DEF TypeOK
  <2>. QED
    BY <1>1, <1>3, <1>4, <2>1
<1>11. SchedTypes'
  <2>1. \A d \in Cpus : Range(sleepq'[d]) \subseteq MaySleep
    BY <1>6, <1>7, SchedFacts
  <2>2. listed' \subseteq Workers
    BY <1>3, SchedFacts DEF TypeOK
  <2>. QED
    BY <1>3, <1>7, <1>8, <1>9, <1>10, <2>1, <2>2, SchedFacts DEF SchedTypes, TypeOK
<1>12. InHand(c)' = {}
  BY <1>3, <1>4 DEF InHand
<1>13. Placed(c)'
  <2>1. Placed(c) /\ Range(runq[c]) \subseteq Threads /\ Range(sleepq[c]) \subseteq Threads
    BY SchedFacts
  <2>2. /\ Once(runq[c]) /\ Range(runq[c]) \cap Range(q) = {}
        /\ \A x \in Range(runq[c]) : status'[x] = "ready"
    BY <1>4, <1>6, <1>8, <2>1 DEF Placed
  <2>3. \A x \in Range(q) : status'[x] \in {"sleeping", "ready"}
    BY <1>1, <1>6, <1>8, <2>1 DEF Placed
  <2>. QED
    BY <1>3, <1>6, <1>7, <1>12, <2>2, <2>3 DEF Placed
<1>14. Known(c)'
  BY <1>1, <1>3, <1>4, <1>6, <1>7, <1>8, <1>12, SchedFacts DEF Known
<1>15. OnCpu(c)'
  BY <1>1, <1>3, <1>4, <1>8, SchedFacts DEF OnCpu
<1>16. Waking(c)'
  BY <1>1, <1>3, <1>4, <1>8, SchedFacts DEF Waking
<1>17. LockLeft(c)'
  BY <1>1, <1>3, <1>4, <1>8, <1>10, SchedFacts DEF LockLeft
<1>. QED
  BY <1>3, <1>11, <1>13, <1>14, <1>15, <1>16, <1>17, SchedFacts DEF SchedInv

\* A step that leaves the queues, the statuses and the CPU alone.
LEMMA SchedStill ==
  ASSUME NEW c, Cpus = {c}, SchedInv(c),
         UNCHANGED <<status, runq, sleepq, running, schedPc, pick, sleepLock, panicked>>
  PROVE  /\ InHand(c)' = InHand(c) /\ Placed(c)' /\ OnCpu(c)' /\ LockLeft(c)' /\ ~panicked'
<1>1. InHand(c)' = InHand(c)
  BY DEF InHand
<1>2. Placed(c)'
  <2>1. Placed(c) /\ runq'[c] = runq[c] /\ sleepq'[c] = sleepq[c] /\ status' = status
    BY SchedFacts
  <2>. HIDE DEF InHand
  <2>. QED
    BY <1>1, <2>1, Zenon DEF Placed
<1>. QED
  BY <1>1, <1>2, SchedFacts DEF OnCpu, LockLeft

\* A waiter is taken off the list; its wake_up() is to come.
LEMMA SchedSignal ==
  ASSUME NEW c, Cpus = {c}, SchedInv(c), NEW u \in Workers, NEW t \in Workers, Signal(u, c, t)
  PROVE  SchedInv(c)'
<1>1. u \in Threads /\ t \in Threads /\ c \in Cpus
  BY SchedFacts
<1>2. /\ Executes(u, c) /\ t \in listed /\ listed' = listed \ {t}
      /\ target' = [target EXCEPT ![u] = t] /\ pc' = [pc EXCEPT ![u] = "signalling"]
      /\ UNCHANGED <<home, status, runq, sleepq, running, schedPc, pick, vruntime, until, sleepLock,
                     irqTarget, torn, panicked>>
  BY DEF Signal
<1>3. /\ running[c] = u /\ status[u] = "running" /\ pc[u] = "run" /\ schedPc[c] = "run"
  BY <1>1, <1>2, ExecFacts
<1>5. /\ \A x \in Threads : pc'[x] = IF x = u THEN "signalling" ELSE pc[x]
      /\ pc' \in [Threads -> Places]
      /\ \A x \in Threads : target'[x] = IF x = u THEN t ELSE target[x]
      /\ target' \in [Threads -> Threads \union {Idle}]
  BY <1>1, <1>2, SchedFacts DEF TypeOK, Places
<1>6. InHand(c)' = InHand(c) /\ Placed(c)' /\ OnCpu(c)' /\ LockLeft(c)' /\ ~panicked'
  BY <1>2, SchedStill
<1>7. SchedTypes'
  <2>1. listed' \subseteq Workers
    BY <1>2, SchedFacts DEF TypeOK
  <2>. QED
    BY <1>2, <1>5, <2>1, SchedFacts DEF SchedTypes, TypeOK
<1>8. Known(c)'
  BY <1>1, <1>2, <1>3, <1>5, <1>6, SchedFacts DEF Known
<1>9. Waking(c)'
  BY <1>2, <1>5, SchedFacts DEF Waking
<1>. QED
  BY <1>6, <1>7, <1>8, <1>9 DEF SchedInv

\* The interrupts go off at the door of wake_up().
LEMMA SchedEnterWakeUp ==
  ASSUME NEW c, Cpus = {c}, SchedInv(c), NEW u \in Workers, EnterWakeUp(u)
  PROVE  SchedInv(c)'
<1>1. u \in Threads /\ home[u] = c /\ u # Idle
  BY SchedFacts
<1>2. /\ running[c] = u /\ schedPc[c] = "run" /\ pc[u] = "signalling"
      /\ pc' = [pc EXCEPT ![u] = "waking"]
      /\ UNCHANGED <<home, status, runq, sleepq, running, schedPc, pick, vruntime, until, sleepLock,
                     listed, target, irqTarget, torn, panicked>>
  BY <1>1 DEF EnterWakeUp, At
<1>3. status[u] = "running"
  BY <1>1, <1>2, SchedFacts DEF OnCpu, Known
<1>4. /\ \A x \in Threads : pc'[x] = IF x = u THEN "waking" ELSE pc[x]
      /\ pc' \in [Threads -> Places]
  BY <1>1, <1>2, SchedFacts DEF TypeOK, Places
<1>5. InHand(c)' = InHand(c) /\ Placed(c)' /\ OnCpu(c)' /\ LockLeft(c)' /\ ~panicked'
  BY <1>2, SchedStill
<1>6. SchedTypes'
  BY <1>2, <1>4, SchedFacts DEF SchedTypes, TypeOK
<1>7. Known(c)'
  BY <1>1, <1>2, <1>3, <1>4, <1>5, SchedFacts DEF Known
<1>8. Waking(c)'
  BY <1>2, <1>3, <1>4, SchedFacts DEF Waking
<1>. QED
  BY <1>5, <1>6, <1>7, <1>8 DEF SchedInv

\* What wake_up() does to a worker whose sleep_lock it got.
LEMMA SchedWoken ==
  ASSUME NEW c, Cpus = {c}, SchedInv(c), NEW t \in Workers, ~sleepLock[t], schedPc[c] # "switch",
         status' = Woken(t), UNCHANGED <<runq, sleepq, running, pick, sleepLock>>
  PROVE  /\ status' \in [Threads -> {"not_ready", "ready", "running", "sleeping"}]
         /\ \A x \in Threads : \/ status'[x] = status[x]
                               \/ /\ x = t /\ x # running[c] /\ x \in Range(sleepq[c])
                                  /\ pc[x] = "yielding"
                                  /\ status[x] = "sleeping" /\ status'[x] = "ready"
         /\ InHand(c)' = InHand(c) /\ Placed(c)'
<1>1. t \in Threads /\ (running[c] # t \/ status[t] # "sleeping")
  BY SchedFacts DEF LockLeft
<1>2. t \in Threads /\ c \in Cpus
  BY SchedFacts
<1>3. CASE status[t] # "sleeping"
  <2>1. status' = status
    BY <1>3 DEF Woken
  <2>2. InHand(c)' = InHand(c)
    BY DEF InHand
  <2>3. Placed(c)'
    <3>1. Placed(c) /\ runq'[c] = runq[c] /\ sleepq'[c] = sleepq[c]
      BY SchedFacts
    <3>. HIDE DEF InHand
    <3>. QED
      BY <2>1, <2>2, <3>1, Zenon DEF Placed
  <2>. QED
    BY <2>1, <2>2, <2>3, SchedFacts DEF TypeOK
<1>4. CASE status[t] = "sleeping"
  <2>1. t # running[c] /\ t \in Range(sleepq[c]) /\ pc[t] = "yielding"
    BY <1>1, <1>2, <1>4, SchedFacts DEF Known
  <2>2. /\ \A x \in Threads : status'[x] = IF x = t THEN "ready" ELSE status[x]
        /\ status' \in [Threads -> {"not_ready", "ready", "running", "sleeping"}]
    BY <1>2, <1>4, SchedFacts DEF TypeOK, Woken
  <2>3. InHand(c)' = InHand(c)
    BY DEF InHand
  <2>4. Placed(c)'
    <3>1. \A x \in Range(runq[c]) \union InHand(c) : x \in Threads
      BY SchedFacts DEF InHand
    <3>2. t \notin Range(runq[c]) /\ t \notin InHand(c)
      BY <2>1, SchedFacts DEF Placed
    <3>. QED
      BY <2>2, <2>3, <3>1, <3>2, SchedFacts DEF Placed
  <2>. QED
    BY <1>4, <2>1, <2>2, <2>3, <2>4
<1>. QED
  BY <1>3, <1>4

\* wake_up() of a thread makes its target due.
LEMMA SchedWakeUp ==
  ASSUME NEW c, Cpus = {c}, SchedInv(c), NEW u \in Workers, WakeUp(u)
  PROVE  SchedInv(c)'
<1>1. u \in Threads /\ c \in Cpus
  BY SchedFacts
<1>2. PICK t : t = target[u]
  OBVIOUS
<1>3. /\ pc[u] = "waking" /\ ~sleepLock[t] /\ status' = Woken(t)
      /\ target' = [target EXCEPT ![u] = Idle] /\ pc' = [pc EXCEPT ![u] = "run"]
      /\ UNCHANGED <<home, runq, sleepq, running, schedPc, pick, vruntime, until, sleepLock, listed,
                     irqTarget, torn, panicked>>
  BY <1>2 DEF WakeUp
<1>4. running[c] = u /\ schedPc[c] = "run" /\ status[u] = "running" /\ t \in Workers
  BY <1>1, <1>2, <1>3, SchedFacts DEF Waking
<1>5. /\ status' \in [Threads -> {"not_ready", "ready", "running", "sleeping"}]
      /\ \A x \in Threads : \/ status'[x] = status[x]
                            \/ /\ x # running[c] /\ x \in Range(sleepq[c]) /\ pc[x] = "yielding"
                               /\ status[x] = "sleeping" /\ status'[x] = "ready"
      /\ InHand(c)' = InHand(c) /\ Placed(c)'
  BY <1>3, <1>4, SchedWoken
<1>6. /\ \A x \in Threads : pc'[x] = IF x = u THEN "run" ELSE pc[x]
      /\ pc' \in [Threads -> Places]
      /\ \A x \in Threads : x # u => target'[x] = target[x]
      /\ target' \in [Threads -> Threads \union {Idle}]
  BY <1>1, <1>3, SchedFacts DEF TypeOK, Places
<1>7. SchedTypes'
  BY <1>3, <1>5, <1>6, SchedFacts DEF SchedTypes, TypeOK
<1>8. Known(c)'
  BY <1>1, <1>3, <1>4, <1>5, <1>6, SchedFacts DEF Known
<1>9. OnCpu(c)'
  BY <1>1, <1>3, <1>4, <1>5, SchedFacts DEF OnCpu
<1>10. Waking(c)'
  BY <1>3, <1>4, <1>6, SchedFacts DEF Waking
<1>11. LockLeft(c)'
  BY <1>1, <1>3, <1>4, <1>5, SchedFacts DEF LockLeft
<1>. QED
  BY <1>3, <1>5, <1>7, <1>8, <1>9, <1>10, <1>11, SchedFacts DEF SchedInv

\* The same in two steps of an interrupt handler.
LEMMA SchedHandlerSignal ==
  ASSUME NEW c, Cpus = {c}, SchedInv(c), NEW t \in Workers, HandlerSignal(t)
  PROVE  SchedInv(c)'
<1>1. t \in Threads /\ c \in Cpus /\ Bsp = c
  BY SchedFacts
<1>2. /\ schedPc[c] = "run" /\ (running[c] # Idle => pc[running[c]] # "waking")
      /\ listed' = listed \ {t} /\ irqTarget' = t
      /\ schedPc' = [schedPc EXCEPT ![c] = "handler"]
      /\ UNCHANGED <<home, status, runq, sleepq, running, pick, vruntime, until, sleepLock, target, pc,
                     torn, panicked>>
  BY <1>1 DEF HandlerSignal, InterruptsOn
<1>3. schedPc'[c] = "handler" /\ schedPc' \in [Cpus -> {"run", "switch", "handler"}]
  BY <1>1, <1>2, SchedFacts DEF TypeOK
<1>4. SchedTypes'
  <2>1. listed' \subseteq Workers
    BY <1>2, SchedFacts DEF TypeOK
  <2>. QED
    BY <1>1, <1>2, <1>3, <2>1, SchedFacts DEF SchedTypes, TypeOK
<1>5. InHand(c)' = InHand(c)
  BY <1>2 DEF InHand
<1>6. Placed(c)'
  <2>1. Placed(c) /\ runq'[c] = runq[c] /\ sleepq'[c] = sleepq[c] /\ status' = status
    BY <1>2, SchedFacts
  <2>. HIDE DEF InHand
  <2>. QED
    BY <1>5, <2>1, Zenon DEF Placed
<1>7. Known(c)'
  BY <1>2, <1>5, SchedFacts DEF Known
<1>8. OnCpu(c)'
  BY <1>2, <1>3, SchedFacts DEF OnCpu
<1>9. Waking(c)'
  <2>1. \A u \in Threads : pc[u] # "waking"
    BY <1>2, SchedFacts DEF Waking
  <2>. QED
    BY <1>2, <1>3, <2>1, SchedFacts DEF Waking
<1>10. LockLeft(c)'
  BY <1>2, <1>3, SchedFacts DEF LockLeft
<1>. QED
  BY <1>2, <1>4, <1>6, <1>7, <1>8, <1>9, <1>10, SchedFacts DEF SchedInv

LEMMA SchedHandlerWakeUp ==
  ASSUME NEW c, Cpus = {c}, SchedInv(c), HandlerWakeUp
  PROVE  SchedInv(c)'
<1>1. c \in Cpus /\ Bsp = c
  BY SchedFacts
<1>2. PICK t : t = irqTarget
  OBVIOUS
<1>3. /\ schedPc[c] = "handler" /\ ~sleepLock[t] /\ status' = Woken(t) /\ irqTarget' = Idle
      /\ schedPc' = [schedPc EXCEPT ![c] = "run"]
      /\ UNCHANGED <<home, runq, sleepq, running, pick, vruntime, until, sleepLock, listed, target, pc,
                     torn, panicked>>
  BY <1>1, <1>2 DEF HandlerWakeUp
<1>4. t \in Workers /\ \A u \in Threads : pc[u] # "waking"
  BY <1>2, <1>3, SchedFacts DEF Waking
<1>5. /\ status' \in [Threads -> {"not_ready", "ready", "running", "sleeping"}]
      /\ \A x \in Threads : \/ status'[x] = status[x]
                            \/ /\ x # running[c] /\ x \in Range(sleepq[c]) /\ pc[x] = "yielding"
                               /\ status[x] = "sleeping" /\ status'[x] = "ready"
      /\ InHand(c)' = InHand(c) /\ Placed(c)'
  BY <1>3, <1>4, SchedWoken
<1>6. schedPc'[c] = "run" /\ schedPc' \in [Cpus -> {"run", "switch", "handler"}]
  BY <1>1, <1>3, SchedFacts DEF TypeOK
<1>7. SchedTypes'
  BY <1>3, <1>5, <1>6, SchedFacts DEF SchedTypes, TypeOK
<1>8. Known(c)'
  BY <1>3, <1>5, SchedFacts DEF Known
<1>9. OnCpu(c)'
  <2>1. running[c] \in Threads \union {Idle} /\ (running[c] # Idle => status'[running[c]] = status[running[c]])
    BY <1>5, SchedFacts
  <2>2. pick[c] = Idle
    BY <1>3, SchedFacts DEF OnCpu
  <2>. QED
    BY <1>3, <2>1, <2>2, SchedFacts DEF OnCpu
<1>10. Waking(c)'
  BY <1>3, <1>4, <1>6, SchedFacts DEF Waking
<1>11. LockLeft(c)'
  BY <1>3, <1>5, <1>6, SchedFacts DEF LockLeft
<1>. QED
  BY <1>3, <1>5, <1>7, <1>8, <1>9, <1>10, <1>11, SchedFacts DEF SchedInv

-----------------------------------------------------------------------------
(* The reaper *)

LEMMA SchedReaperDoze ==
  ASSUME NEW c, Cpus = {c}, SchedInv(c), ReaperDoze(c)
  PROVE  SchedInv(c)'
<1>1. PICK t \in MaySleep : t = Reaper[c] /\ t \in Threads /\ t \notin Workers /\ c \in Cpus
  BY SchedFacts
<1>2. /\ Executes(t, c) /\ status' = [status EXCEPT ![t] = "sleeping"]
      /\ pc' = [pc EXCEPT ![t] = "dozing"]
      /\ UNCHANGED <<home, runq, sleepq, running, schedPc, pick, vruntime, until, sleepLock, listed,
                     target, irqTarget, torn, panicked>>
  BY <1>1 DEF ReaperDoze
<1>3. /\ running[c] = t /\ status[t] = "running" /\ pc[t] = "run" /\ schedPc[c] = "run"
      /\ pick[c] = Idle /\ InHand(c) = {} /\ t \notin Range(runq[c]) /\ t \notin Range(sleepq[c])
      /\ \A x \in Threads : pc[x] # "waking" /\ ~sleepLock[x]
  BY <1>1, <1>2, ExecFacts
<1>4. /\ \A x \in Threads : status'[x] = IF x = t THEN "sleeping" ELSE status[x]
      /\ \A x \in Threads : pc'[x] = IF x = t THEN "dozing" ELSE pc[x]
      /\ status' \in [Threads -> {"not_ready", "ready", "running", "sleeping"}]
      /\ pc' \in [Threads -> Places]
  BY <1>1, <1>2, SchedFacts DEF TypeOK, Places
<1>5. SchedTypes'
  BY <1>2, <1>4, SchedFacts DEF SchedTypes, TypeOK
<1>6. InHand(c)' = {}
  BY <1>2, <1>3 DEF InHand
<1>7. Placed(c)'
  <2>1. Placed(c) /\ Range(runq[c]) \subseteq Threads /\ Range(sleepq[c]) \subseteq Threads
    BY SchedFacts
  <2>. QED
    BY <1>2, <1>3, <1>4, <1>6, <2>1 DEF Placed
<1>8. Known(c)'
  BY <1>1, <1>2, <1>3, <1>4, <1>6, SchedFacts DEF Known
<1>9. OnCpu(c)'
  BY <1>1, <1>2, <1>3, <1>4, SchedFacts DEF OnCpu
<1>10. Waking(c)'
  BY <1>1, <1>2, <1>3, <1>4, SchedFacts DEF Waking
<1>11. LockLeft(c)'
  BY <1>1, <1>2, <1>3, <1>4, SchedFacts DEF LockLeft
<1>. QED
  BY <1>2, <1>5, <1>7, <1>8, <1>9, <1>10, <1>11, SchedFacts DEF SchedInv

LEMMA SchedReaperLink ==
  ASSUME NEW c, Cpus = {c}, SchedInv(c), ReaperLink(c)
  PROVE  SchedInv(c)'
<1>1. PICK t \in MaySleep : t = Reaper[c] /\ t \in Threads
  BY SchedFacts
<1>2. /\ pc[t] = "dozing" /\ pc' = [pc EXCEPT ![t] = "linking"]
      /\ UNCHANGED <<home, status, runq, sleepq, running, schedPc, pick, vruntime, until, sleepLock,
                     listed, target, irqTarget, torn, panicked>>
  BY <1>1 DEF ReaperLink, At
<1>3. /\ \A x \in Threads : pc'[x] = IF x = t THEN "linking" ELSE pc[x]
      /\ pc' \in [Threads -> Places]
  BY <1>1, <1>2, SchedFacts DEF TypeOK, Places
<1>4. InHand(c)' = InHand(c) /\ Placed(c)' /\ OnCpu(c)' /\ LockLeft(c)' /\ ~panicked'
  BY <1>2, SchedStill
<1>5. SchedTypes'
  BY <1>2, <1>3, SchedFacts DEF SchedTypes, TypeOK
<1>6. Known(c)'
  BY <1>1, <1>2, <1>3, <1>4, SchedFacts DEF Known
<1>7. Waking(c)'
  BY <1>2, <1>3, SchedFacts DEF Waking
<1>. QED
  BY <1>4, <1>5, <1>6, <1>7 DEF SchedInv

LEMMA SchedReaperInsert ==
  ASSUME NEW c, Cpus = {c}, SchedInv(c), ReaperInsert(c)
  PROVE  SchedInv(c)'
<1>1. PICK t \in MaySleep : t = Reaper[c] /\ t \in Threads /\ t \notin Workers /\ c \in Cpus
  BY SchedFacts
<1>2. PICK key : AsleepIn(sleepq[c], t, NoTimeout) = InsertBy(sleepq[c], t, key)
  BY DEF AsleepIn
<1>3. /\ running[c] = t /\ schedPc[c] = "run" /\ pc[t] = "linking"
      /\ sleepq' = [sleepq EXCEPT ![c] = InsertBy(sleepq[c], t, key)]
      /\ pc' = [pc EXCEPT ![t] = "yielding"]
      /\ UNCHANGED <<home, status, runq, running, schedPc, pick, vruntime, until, sleepLock, listed,
                     target, irqTarget, torn, panicked>>
  BY <1>1, <1>2 DEF ReaperInsert, At
<1>4. /\ status[t] = "sleeping" /\ pick[c] = Idle /\ InHand(c) = {}
      /\ t \notin Range(runq[c]) /\ t \notin Range(sleepq[c])
  BY <1>1, <1>3, SchedFacts DEF Known, OnCpu, Placed, InHand
<1>5. PICK q : q = InsertBy(sleepq[c], t, key)
  OBVIOUS
<1>6. q \in Seq(MaySleep) /\ Once(q) /\ Range(q) = Range(sleepq[c]) \union {t}
  BY <1>4, <1>5, SchedFacts, InsertByFacts DEF Placed
<1>7. sleepq'[c] = q /\ sleepq' \in [Cpus -> Seq(MaySleep)]
  BY <1>1, <1>3, <1>5, <1>6, SchedFacts DEF SchedTypes
<1>8. /\ \A x \in Threads : pc'[x] = IF x = t THEN "yielding" ELSE pc[x]
      /\ pc' \in [Threads -> Places]
  BY <1>1, <1>3, SchedFacts DEF TypeOK, Places
<1>9. SchedTypes'
  <2>1. \A d \in Cpus : Range(sleepq'[d]) \subseteq MaySleep
    BY <1>6, <1>7, SchedFacts
  <2>. QED
    BY <1>3, <1>7, <1>8, <2>1, SchedFacts DEF SchedTypes, TypeOK
<1>10. InHand(c)' = {}
  BY <1>3, <1>4 DEF InHand
<1>11. Placed(c)'
  <2>1. Placed(c)
    BY SchedFacts
  <2>. QED
    BY <1>3, <1>4, <1>6, <1>7, <1>10, <2>1 DEF Placed
<1>12. Known(c)'
  BY <1>1, <1>3, <1>4, <1>6, <1>7, <1>8, <1>10, SchedFacts DEF Known
<1>13. OnCpu(c)'
  BY <1>3, SchedFacts DEF OnCpu
<1>14. Waking(c)'
  BY <1>3, <1>8, SchedFacts DEF Waking
<1>15. LockLeft(c)'
  BY <1>3, SchedFacts DEF LockLeft
<1>. QED
  BY <1>3, <1>9, <1>11, <1>12, <1>13, <1>14, <1>15, SchedFacts DEF SchedInv

-----------------------------------------------------------------------------
(* schedule() and sleeper() *)

\* The first of a queue and the rest.
LEMMA TailOnce ==
  ASSUME NEW S, NEW q \in Seq(S), q # <<>>, Once(q)
  PROVE  /\ Head(q) \in S /\ Head(q) \in Range(q) /\ Tail(q) \in Seq(S) /\ Once(Tail(q))
         /\ Range(Tail(q)) = Range(q) \ {Head(q)}
<1>1. Len(q) \in Nat /\ Len(q) >= 1 /\ DOMAIN q = 1 .. Len(q) /\ Head(q) = q[1] /\ 1 \in 1 .. Len(q)
  OBVIOUS
<1>2. PICK r : r = Tail(q)
  OBVIOUS
<1>3. r \in Seq(S) /\ DOMAIN r = 1 .. Len(q) - 1 /\ \A i \in 1 .. Len(q) - 1 : r[i] = q[i + 1]
  BY <1>1, <1>2, HeadTailProperties
<1>4. \A i \in 1 .. Len(q) - 1 : i + 1 \in 1 .. Len(q) /\ i + 1 # 1 /\ i \in Nat
  BY <1>1
<1>5. \A i \in 1 .. Len(q) : i # 1 => i - 1 \in 1 .. Len(q) - 1 /\ (i - 1) + 1 = i
  BY <1>1
<1>6. Once(r)
  <2>. SUFFICES ASSUME NEW i \in 1 .. Len(q) - 1, NEW j \in 1 .. Len(q) - 1, r[i] = r[j] PROVE i = j
    BY <1>3 DEF Once
  <2>1. q[i + 1] = q[j + 1]
    BY <1>3
  <2>2. i + 1 = j + 1
    BY <1>1, <1>4, <2>1 DEF Once
  <2>. QED
    BY <1>4, <2>2
<1>7. Range(r) = Range(q) \ {Head(q)}
  <2>1. ASSUME NEW i \in 1 .. Len(q) - 1 PROVE r[i] \in Range(q) \ {Head(q)}
    BY <1>1, <1>3, <1>4 DEF Range, Once
  <2>2. ASSUME NEW i \in 1 .. Len(q), q[i] # Head(q) PROVE \E j \in 1 .. Len(q) - 1 : r[j] = q[i]
    <3>1. i # 1 /\ i - 1 \in 1 .. Len(q) - 1 /\ (i - 1) + 1 = i
      BY <1>1, <1>5, <2>2
    <3>2. r[i - 1] = q[(i - 1) + 1]
      BY <1>3, <3>1
    <3>. QED
      BY <3>1, <3>2
  <2>3. ASSUME NEW x \in Range(r) PROVE x \in Range(q) \ {Head(q)}
    BY <1>3, <2>1 DEF Range
  <2>4. ASSUME NEW x \in Range(q) \ {Head(q)} PROVE x \in Range(r)
    <3>1. PICK i \in 1 .. Len(q) : x = q[i]
      BY <1>1 DEF Range
    <3>2. PICK j \in 1 .. Len(q) - 1 : r[j] = q[i]
      BY <2>2, <3>1
    <3>. QED
      BY <1>3, <3>1, <3>2 DEF Range
  <2>. QED
    BY <2>3, <2>4
<1>8. Head(q) \in Range(q) /\ Head(q) \in S
  BY <1>1 DEF Range
<1>. QED
  BY <1>2, <1>3, <1>6, <1>7, <1>8

\* The first half of schedule(): the next thread leaves the run queue, the
\* sleep_lock of a current thread that sleeps is released.
LEMMA SchedInterrupt ==
  ASSUME NEW c, Cpus = {c}, SchedInv(c), Interrupt(c)
  PROVE  SchedInv(c)'
<1>. DEFINE cur == running[c]
            q == runq[c]
<1>1. PICK next : next = IF q # <<>> THEN Head(q)
                         ELSE IF cur # Idle /\ status[cur] = "running" THEN cur ELSE Idle
  OBVIOUS
<1>2. c \in Cpus /\ schedPc[c] = "run" /\ pick[c] = Idle /\ InHand(c) = {}
      /\ cur \in Threads \union {Idle} /\ (cur # Idle => pc[cur] # "waking")
  BY SchedFacts DEF Interrupt, InterruptsOn, OnCpu, InHand
<1>3. q # <<>> => /\ Head(q) \in Threads /\ Head(q) \in Range(q) /\ status[Head(q)] = "ready"
                  /\ Tail(q) \in Seq(Threads) /\ Once(Tail(q)) /\ Range(Tail(q)) = Range(q) \ {Head(q)}
  BY SchedFacts, TailOnce DEF Placed
<1>4. /\ runq' = [runq EXCEPT ![c] = IF q = <<>> THEN q ELSE Tail(q)]
      /\ pick' = [pick EXCEPT ![c] = next] /\ sleepLock' = SleepLockLeft(cur)
      /\ schedPc' = [schedPc EXCEPT ![c] = "switch"]
      /\ torn' \in BOOLEAN
      /\ UNCHANGED <<panicked, home, status, sleepq, running, vruntime, until, listed, target, irqTarget,
                     pc>>
  BY <1>1, <1>3 DEF Interrupt
<1>5. /\ next \in Threads \union {Idle} /\ pick'[c] = next /\ schedPc'[c] = "switch"
      /\ pick' \in [Cpus -> Threads \union {Idle}] /\ schedPc' \in [Cpus -> {"run", "switch", "handler"}]
  BY <1>1, <1>2, <1>3, <1>4, SchedFacts DEF TypeOK
<1>6. PICK r : r = IF q = <<>> THEN q ELSE Tail(q)
  OBVIOUS
<1>7. /\ r \in Seq(Threads) /\ Once(r) /\ runq'[c] = r /\ runq' \in [Cpus -> Seq(Threads)]
      /\ Range(r) = IF q = <<>> THEN Range(q) ELSE Range(q) \ {Head(q)}
  <2>1. r \in Seq(Threads) /\ Once(r)
    BY <1>3, <1>6, SchedFacts DEF Placed
  <2>2. Range(r) = IF q = <<>> THEN Range(q) ELSE Range(q) \ {Head(q)}
    BY <1>3, <1>6
  <2>. QED
    BY <1>2, <1>4, <1>6, <2>1, <2>2, SchedFacts DEF SchedTypes
<1>8. sleepLock' \in [Threads -> BOOLEAN] /\ \A t \in Threads : ~sleepLock'[t]
  <2>1. sleepLock \in [Threads -> BOOLEAN]
    BY SchedFacts DEF TypeOK
  <2>2. \A t \in Threads : sleepLock[t] => t = cur /\ status[cur] = "sleeping"
    BY SchedFacts DEF LockLeft
  <2>3. CASE cur # Idle /\ status[cur] = "sleeping"
    <3>1. sleepLock' = [sleepLock EXCEPT ![cur] = FALSE]
      BY <1>4, <2>3 DEF SleepLockLeft
    <3>. QED
      BY <1>2, <2>1, <2>2, <2>3, <3>1
  <2>4. CASE ~(cur # Idle /\ status[cur] = "sleeping")
    <3>1. sleepLock' = sleepLock
      BY <1>4, <2>4 DEF SleepLockLeft
    <3>2. \A t \in Threads : t # Idle
      BY SchedFacts
    <3>. QED
      BY <2>1, <2>2, <2>4, <3>1, <3>2
  <2>. QED
    BY <2>3, <2>4
<1>9. SchedTypes'
  <2>1. \A d \in Cpus : Range(runq'[d]) \subseteq Threads
    BY <1>3, <1>7, SchedFacts
  <2>. QED
    BY <1>4, <1>5, <1>7, <1>8, <2>1, SchedFacts DEF SchedTypes, TypeOK
<1>10. InHand(c)' = IF q = <<>> THEN {} ELSE {Head(q)}
  <2>1. CASE q = <<>>
    BY <1>1, <1>4, <1>5, <2>1 DEF InHand
  <2>2. CASE q # <<>>
    <3>1. Head(q) # cur /\ Head(q) # Idle
      BY <1>3, <2>2, SchedFacts DEF OnCpu
    <3>. QED
      BY <1>1, <1>4, <1>5, <2>2, <3>1 DEF InHand
  <2>. QED
    BY <2>1, <2>2
<1>11. Placed(c)'
  <2>1. Placed(c) /\ sleepq'[c] = sleepq[c] /\ status' = status
    BY <1>4, SchedFacts
  <2>2. CASE q = <<>>
    BY <1>7, <1>10, <2>1, <2>2 DEF Placed
  <2>3. CASE q # <<>>
    BY <1>3, <1>7, <1>10, <2>1, <2>3 DEF Placed
  <2>. QED
    BY <2>2, <2>3
<1>12. Known(c)'
  <2>1. Range(r) \union InHand(c)' = Range(q)
    BY <1>3, <1>7, <1>10
  <2>. QED
    BY <1>2, <1>4, <1>7, <2>1, SchedFacts DEF Known
<1>13. OnCpu(c)'
  <2>1. next = cur /\ next # Idle => status[next] = "running"
    BY <1>1, <1>3, SchedFacts DEF OnCpu
  <2>. QED
    BY <1>4, <1>5, <2>1, SchedFacts DEF OnCpu
<1>14. Waking(c)'
  <2>1. \A u \in Threads : pc[u] # "waking"
    BY <1>2, SchedFacts DEF Waking
  <2>. QED
    BY <1>4, <1>5, <2>1, SchedFacts DEF Waking
<1>15. LockLeft(c)'
  BY <1>5, <1>8 DEF LockLeft
<1>. QED
  BY <1>4, <1>9, <1>11, <1>12, <1>13, <1>14, <1>15, SchedFacts DEF SchedInv

\* The second half: the current thread goes back unless it sleeps, the one
\* taken runs.
LEMMA SchedSwitch ==
  ASSUME NEW c, Cpus = {c}, SchedInv(c), NEW d \in 1 .. MaxRun, Switch(c, d)
  PROVE  SchedInv(c)'
<1>1. PICK cur, next, v : cur = running[c] /\ next = pick[c] /\ v = Charged(cur, d)
  OBVIOUS
<1>. DEFINE back == cur # Idle /\ next # cur /\ status[cur] # "sleeping"
<1>2. /\ schedPc[c] = "switch"
      /\ runq' = IF back THEN [runq EXCEPT ![c] = InsertBy(runq[c], cur, v)] ELSE runq
      /\ status' = [t \in Threads |-> IF t = next THEN "running"
                                      ELSE IF t = cur /\ back THEN "ready" ELSE status[t]]
      /\ running' = [running EXCEPT ![c] = next]
      /\ vruntime' = Rebase(v, c, runq'[c], next)
      /\ pc' = [t \in Threads |-> IF t = next /\ pc[t] = "yielding" THEN "run" ELSE pc[t]]
      /\ schedPc' = [schedPc EXCEPT ![c] = "run"] /\ pick' = [pick EXCEPT ![c] = Idle]
      /\ UNCHANGED <<home, sleepq, until, sleepLock, listed, target, irqTarget, torn, panicked>>
  BY <1>1 DEF Switch, Requeued
<1>3. c \in Cpus /\ cur \in Threads \union {Idle} /\ next \in Threads \union {Idle} /\ Idle \notin Threads
  BY <1>1, SchedFacts
<1>4. /\ \A t \in Threads : pc[t] # "waking" /\ ~sleepLock[t]
  BY <1>2, SchedFacts DEF Waking, LockLeft
<1>5. v \in [Threads -> Nat]
  <2>1. vruntime \in [Threads -> Nat] /\ d \in Nat
    BY SchedFacts, Bounds DEF TypeOK
  <2>. QED
    BY <1>1, <1>3, <2>1 DEF Charged
<1>6. back => /\ cur \in Threads /\ status[cur] = "running" /\ cur \notin Range(runq[c])
              /\ cur \notin Range(sleepq[c])
  BY <1>1, <1>3, SchedFacts DEF OnCpu, Placed
<1>7. next # Idle => /\ next \in Threads /\ status[next] \in {"ready", "running"}
                     /\ next \notin Range(runq[c]) /\ next \notin Range(sleepq[c])
  <2>. SUFFICES ASSUME next # Idle
       PROVE  /\ next \in Threads /\ status[next] \in {"ready", "running"}
              /\ next \notin Range(runq[c]) /\ next \notin Range(sleepq[c])
    OBVIOUS
  <2>1. CASE next = cur
    BY <1>1, <1>3, <2>1, SchedFacts DEF OnCpu, Placed
  <2>2. CASE next # cur
    <3>1. next \in InHand(c)
      BY <1>1, <2>2 DEF InHand
    <3>. QED
      BY <1>3, <3>1, SchedFacts DEF Placed
  <2>. QED
    BY <2>1, <2>2
<1>8. /\ \A t \in InHand(c) : t = next
  BY <1>1 DEF InHand
<1>9. PICK r : r = IF back THEN InsertBy(runq[c], cur, v) ELSE runq[c]
  OBVIOUS
<1>10. /\ r \in Seq(Threads) /\ Once(r) /\ Range(r) = IF back THEN Range(runq[c]) \union {cur} ELSE Range(runq[c])
  <2>1. CASE back
    BY <1>6, <1>9, <2>1, SchedFacts, InsertByFacts DEF Placed
  <2>2. CASE ~back
    BY <1>9, <2>2, SchedFacts DEF Placed
  <2>. QED
    BY <2>1, <2>2
<1>11. runq'[c] = r /\ runq' \in [Cpus -> Seq(Threads)]
  BY <1>2, <1>3, <1>9, <1>10, SchedFacts DEF SchedTypes
<1>12. vruntime' \in [Threads -> Nat]
  BY <1>2, <1>3, <1>5, <1>10, <1>11, RebaseType
<1>13. running'[c] = next /\ schedPc'[c] = "run" /\ pick'[c] = Idle
       /\ running' \in [Cpus -> Threads \union {Idle}] /\ pick' \in [Cpus -> Threads \union {Idle}]
       /\ schedPc' \in [Cpus -> {"run", "switch", "handler"}]
  BY <1>2, <1>3, SchedFacts DEF TypeOK
<1>14. status' \in [Threads -> {"not_ready", "ready", "running", "sleeping"}]
       /\ pc' \in [Threads -> Places]
  BY <1>2, SchedFacts DEF TypeOK, Places
<1>15. SchedTypes'
  <2>1. \A e \in Cpus : Range(runq'[e]) \subseteq Threads
    BY <1>6, <1>10, <1>11, SchedFacts
  <2>. QED
    BY <1>2, <1>11, <1>12, <1>13, <1>14, <2>1, SchedFacts DEF SchedTypes, TypeOK
<1>16. InHand(c)' = {}
  BY <1>13 DEF InHand
<1>17. \A t \in Threads : /\ t = next => status'[t] = "running"
                          /\ t # next /\ t = cur /\ back => status'[t] = "ready"
                          /\ t # next /\ ~(t = cur /\ back) => status'[t] = status[t]
                          /\ pc'[t] = IF t = next /\ pc[t] = "yielding" THEN "run" ELSE pc[t]
  BY <1>2
<1>18. Range(runq[c]) \subseteq Threads /\ Range(sleepq[c]) \subseteq Threads
  BY SchedFacts
<1>19. Placed(c)'
  <2>1. Placed(c) /\ sleepq'[c] = sleepq[c]
    BY <1>2, SchedFacts
  <2>2. \A t \in Range(r) : status'[t] = "ready"
    <3>. SUFFICES ASSUME NEW t \in Range(r) PROVE status'[t] = "ready"
      OBVIOUS
    <3>1. CASE back /\ t = cur
      BY <1>6, <1>17, <3>1
    <3>2. CASE ~(back /\ t = cur)
      <4>1. t \in Range(runq[c]) /\ t \in Threads /\ t # next
        BY <1>3, <1>7, <1>10, <1>18, <3>2
      <4>. QED
        BY <1>17, <2>1, <3>2, <4>1 DEF Placed
    <3>. QED
      BY <3>1, <3>2
  <2>3. \A t \in Range(sleepq[c]) : status'[t] \in {"sleeping", "ready"}
    <3>. SUFFICES ASSUME NEW t \in Range(sleepq[c]) PROVE status'[t] \in {"sleeping", "ready"}
      OBVIOUS
    <3>1. t \in Threads /\ t # next /\ ~(t = cur /\ back)
      BY <1>3, <1>6, <1>7, <1>18
    <3>. QED
      BY <1>17, <2>1, <3>1 DEF Placed
  <2>4. Range(r) \cap Range(sleepq[c]) = {}
    BY <1>6, <1>10, <2>1 DEF Placed
  <2>. QED
    BY <1>10, <1>11, <1>16, <2>1, <2>2, <2>3, <2>4 DEF Placed
<1>20. Known(c)'
  <2>. SUFFICES ASSUME NEW t \in Threads
       PROVE  /\ pc'[t] = "new" <=> status'[t] = "not_ready"
              /\ status'[t] = "ready" => t \in Range(r) \union Range(sleepq[c])
              /\ status'[t] = "sleeping" =>
                   (t \in Range(sleepq[c]) /\ pc'[t] = "yielding") \/ pc'[t] \in {"dozing", "linking"}
              /\ status'[t] = "running" => next = t
              /\ pc'[t] \in {"dozing", "linking"} =>
                   status'[t] = "sleeping" /\ t \notin Range(sleepq[c]) /\ t \notin Workers
    BY <1>2, <1>11, <1>13, <1>16 DEF Known
  <2>1. CASE t = next
    <3>1. status[t] \in {"ready", "running"} /\ status'[t] = "running"
      BY <1>3, <1>7, <1>17, <2>1
    <3>2. pc[t] \notin {"new", "dozing", "linking"}
      BY <3>1, SchedFacts DEF Known
    <3>. QED
      BY <1>17, <2>1, <3>1, <3>2
  <2>2. CASE t # next /\ t = cur /\ back
    <3>1. status'[t] = "ready" /\ pc'[t] = pc[t] /\ t \in Range(r)
      BY <1>10, <1>17, <2>2
    <3>2. pc[t] \notin {"new", "dozing", "linking"}
      BY <1>6, <2>2, SchedFacts DEF Known
    <3>. QED
      BY <3>1, <3>2
  <2>3. CASE t # next /\ ~(t = cur /\ back)
    <3>1. status'[t] = status[t] /\ pc'[t] = pc[t]
      BY <1>17, <2>3
    <3>2. status[t] # "running"
      BY <1>1, <1>3, <2>3, SchedFacts DEF Known
    <3>3. t \notin InHand(c) /\ Range(runq[c]) \subseteq Range(r)
      BY <1>8, <1>10, <2>3
    <3>. QED
      BY <3>1, <3>2, <3>3, SchedFacts DEF Known
  <2>. QED
    BY <2>1, <2>2, <2>3
<1>21. OnCpu(c)'
  BY <1>3, <1>7, <1>13, <1>17 DEF OnCpu
<1>22. Waking(c)'
  <2>1. \A t \in Threads : /\ pc'[t] # "waking"
                           /\ pc'[t] = "signalling" => pc[t] = "signalling"
    BY <1>4, <1>17
  <2>. QED
    BY <1>2, <1>13, <2>1, SchedFacts DEF Waking
<1>23. LockLeft(c)'
  <2>1. next # Idle => next \in Threads /\ status'[next] = "running"
    BY <1>3, <1>17
  <2>. QED
    BY <1>2, <1>3, <1>4, <1>13, <2>1, SchedFacts DEF LockLeft
<1>. QED
  BY <1>2, <1>15, <1>19, <1>20, <1>21, <1>22, <1>23, SchedFacts DEF SchedInv

\* One round of sleeper().
LEMMA SchedSleeperRound ==
  ASSUME NEW c, Cpus = {c}, SchedInv(c), SleeperRound(c)
  PROVE  SchedInv(c)'
<1>. DEFINE s == Sleeper[c]
<1>1. PICK q, timed : q = sleepq[c] /\ timed = {t \in Range(q) : Due(t) /\ until[t] # NoTimeout}
  OBVIOUS
<1>2. PICK v : v = [t \in Threads |-> IF t \in timed THEN vruntime[q[1]] ELSE vruntime[t]]
  OBVIOUS
<1>3. s \in Threads /\ s \notin MaySleep /\ c \in Cpus /\ MaySleep \subseteq Threads
  BY SchedFacts
<1>4. /\ running[c] = s /\ status[s] = "running" /\ pc[s] = "run" /\ schedPc[c] = "run"
      /\ pick[c] = Idle /\ InHand(c) = {} /\ s \notin Range(runq[c]) /\ s \notin Range(q)
      /\ \A t \in Threads : pc[t] # "waking" /\ ~sleepLock[t]
  BY <1>1, <1>3, ExecFacts DEF SleeperRound
<1>5. /\ q \in Seq(MaySleep) /\ Once(q) /\ Range(q) \subseteq MaySleep
      /\ runq[c] \in Seq(Threads) /\ Once(runq[c]) /\ Range(runq[c]) \subseteq Threads
      /\ Range(q) \cap Range(runq[c]) = {}
      /\ \A t \in Range(q) : status[t] \in {"sleeping", "ready"}
  BY <1>1, SchedFacts DEF Placed
<1>a. PICK z, r : SweptTo(q, runq[c], v, z, r)
  BY <1>5, SweptFacts
<1>6. /\ z \in Seq(MaySleep) /\ r \in Seq(Threads)
      /\ Swept(q, runq[c], v) = [asleep |-> z, queue |-> r]
      /\ Once(z) /\ Range(z) = {t \in Range(q) : ~Due(t)}
      /\ Once(r) /\ Range(r) = Range(runq[c]) \union {t \in Range(q) : Due(t)}
  BY <1>a, Zenon DEF SweptTo
<1>7. /\ sleepq' = [sleepq EXCEPT ![c] = z] /\ runq' = [runq EXCEPT ![c] = r]
      /\ status' = [t \in Threads |-> IF t \in timed THEN "ready" ELSE status[t]]
      /\ until' = [t \in Threads |-> IF t \in timed THEN NoTimeout ELSE until[t]]
      /\ vruntime' = Rebase(v, c, runq'[c], running[c])
      /\ pc' = [pc EXCEPT ![s] = "yielding"]
      /\ UNCHANGED <<panicked, home, running, schedPc, pick, sleepLock, listed, target, irqTarget,
                     torn>>
  <2>1. ~ \E t \in Range(q) : until[t] = NoTimeout /\ status[t] = "running"
    BY <1>5
  <2>2. Swept(q, runq[c], v).asleep = z /\ Swept(q, runq[c], v).queue = r
    BY <1>6
  <2>. QED
    BY <1>1, <1>2, <2>1, <2>2 DEF SleeperRound
<1>8. /\ sleepq'[c] = z /\ sleepq' \in [Cpus -> Seq(MaySleep)]
      /\ runq'[c] = r /\ runq' \in [Cpus -> Seq(Threads)]
  BY <1>3, <1>6, <1>7, SchedFacts DEF SchedTypes
<1>9. /\ \A t \in Threads : status'[t] = IF t \in timed THEN "ready" ELSE status[t]
      /\ \A t \in Threads : pc'[t] = IF t = s THEN "yielding" ELSE pc[t]
      /\ \A t \in Threads : until'[t] = IF t \in timed THEN NoTimeout ELSE until[t]
      /\ status' \in [Threads -> {"not_ready", "ready", "running", "sleeping"}]
      /\ pc' \in [Threads -> Places]
  BY <1>3, <1>7, SchedFacts DEF TypeOK, Places
<1>10. until' \in [Threads -> {NoTimeout} \union 0 .. MaxSleep]
  BY <1>7, SchedFacts DEF TypeOK
<1>11. vruntime' \in [Threads -> Nat]
  <2>1. vruntime \in [Threads -> Nat]
    BY SchedFacts DEF TypeOK
  <2>2. timed # {} => q[1] \in Threads
    <3>1. timed # {} => q # <<>>
      BY <1>1, <1>5 DEF Range
    <3>2. q # <<>> => q[1] \in MaySleep
      BY <1>5
    <3>. QED
      BY <1>3, <3>1, <3>2
  <2>3. v \in [Threads -> Nat]
    BY <1>2, <2>1, <2>2
  <2>. QED
    BY <1>7, <1>8, <2>3, SchedFacts, RebaseType
<1>12. SchedTypes'
  <2>1. Range(r) \subseteq Threads /\ Range(z) \subseteq MaySleep
    BY <1>3, <1>5, <1>6
  <2>2. (\A e \in Cpus : Range(runq'[e]) \subseteq Threads)
        /\ \A e \in Cpus : Range(sleepq'[e]) \subseteq MaySleep
    BY <1>8, <2>1
  <2>. QED
    BY <1>7, <1>8, <1>9, <1>10, <1>11, <2>2, SchedFacts DEF SchedTypes, TypeOK
<1>13. InHand(c)' = {}
  BY <1>4, <1>7 DEF InHand
<1>14. /\ \A t \in Range(q) : Due(t) => status'[t] = "ready"
       /\ \A t \in Range(q) : ~Due(t) => status'[t] = status[t] /\ until'[t] = until[t]
       /\ \A t \in Threads : t \notin Range(q) => status'[t] = status[t] /\ until'[t] = until[t]
  BY <1>1, <1>3, <1>5, <1>9 DEF Due
<1>15. Placed(c)'
  <2>1. Range(r) \cap Range(z) = {}
    BY <1>5, <1>6
  <2>2. \A t \in Range(r) : status'[t] = "ready"
    <3>1. \A t \in Range(runq[c]) : status[t] = "ready" /\ t \in Threads /\ t \notin Range(q)
      BY <1>5, SchedFacts DEF Placed
    <3>. QED
      BY <1>6, <1>14, <3>1
  <2>3. \A t \in Range(z) : status'[t] \in {"sleeping", "ready"}
    BY <1>5, <1>6, <1>14
  <2>. QED
    BY <1>6, <1>8, <1>13, <2>1, <2>2, <2>3 DEF Placed
<1>16. Known(c)'
  <2>. SUFFICES ASSUME NEW t \in Threads
       PROVE  /\ pc'[t] = "new" <=> status'[t] = "not_ready"
              /\ status'[t] = "ready" => t \in Range(r) \union Range(z)
              /\ status'[t] = "sleeping" =>
                   (t \in Range(z) /\ pc'[t] = "yielding") \/ pc'[t] \in {"dozing", "linking"}
              /\ status'[t] = "running" => running[c] = t
              /\ pc'[t] \in {"dozing", "linking"} =>
                   status'[t] = "sleeping" /\ t \notin Range(z) /\ t \notin Workers
    BY <1>7, <1>8, <1>13 DEF Known
  <2>1. CASE t \in Range(q)
    <3>1. t # s /\ pc'[t] = pc[t] /\ pc[t] # "new"
      <4>1. t \in MaySleep /\ Known(c) /\ status[t] \in {"sleeping", "ready"}
        BY <1>5, <2>1, SchedFacts
      <4>2. pc[t] # "new"
        BY <4>1 DEF Known
      <4>. QED
        BY <1>3, <1>9, <4>1, <4>2
    <3>2. pc[t] \notin {"dozing", "linking"} /\ (status[t] = "sleeping" => pc[t] = "yielding")
      BY <1>1, <2>1, SchedFacts DEF Known
    <3>3. CASE Due(t)
      BY <1>6, <1>14, <2>1, <3>1, <3>2, <3>3
    <3>4. CASE ~Due(t)
      BY <1>5, <1>6, <1>14, <2>1, <3>1, <3>2, <3>4
    <3>. QED
      BY <3>3, <3>4
  <2>2. CASE t \notin Range(q)
    <3>1. status'[t] = status[t]
      BY <1>14, <2>2
    <3>2. CASE t = s
      BY <1>4, <1>9, <3>1, <3>2
    <3>3. CASE t # s
      BY <1>1, <1>4, <1>6, <1>9, <2>2, <3>1, <3>3, SchedFacts DEF Known
    <3>. QED
      BY <3>2, <3>3
  <2>. QED
    BY <2>1, <2>2
<1>17. OnCpu(c)'
  BY <1>3, <1>4, <1>7, <1>14, SchedFacts DEF OnCpu
<1>18. Waking(c)'
  BY <1>3, <1>4, <1>7, <1>9, SchedFacts DEF Waking
<1>19. LockLeft(c)'
  <2>1. \A t \in Workers : running[c] # t
    BY <1>3, <1>4, SchedFacts
  <2>. QED
    BY <1>4, <1>7, <2>1 DEF LockLeft
<1>. QED
  BY <1>7, <1>12, <1>15, <1>16, <1>17, <1>18, <1>19, SchedFacts DEF SchedInv

\* Time passes.
LEMMA SchedClock ==
  ASSUME NEW c, Cpus = {c}, SchedInv(c), Clock
  PROVE  SchedInv(c)'
<1>1. /\ until' = [t \in Threads |-> IF until[t] > 0 THEN until[t] - 1 ELSE until[t]]
      /\ UNCHANGED <<home, status, runq, sleepq, running, schedPc, pick, vruntime, sleepLock, listed,
                     target, irqTarget, pc, torn, panicked>>
  BY DEF Clock
<1>2. InHand(c)' = InHand(c) /\ Placed(c)' /\ OnCpu(c)' /\ LockLeft(c)' /\ ~panicked'
  BY <1>1, SchedStill
<1>3. until \in [Threads -> {NoTimeout} \union 0 .. MaxSleep] /\ MaxSleep \in Nat /\ NoTimeout = -1
  BY SchedFacts, Bounds DEF TypeOK, NoTimeout
<1>4. ASSUME NEW t \in Threads
      PROVE  /\ until'[t] \in {NoTimeout} \union 0 .. MaxSleep
             /\ until[t] = NoTimeout => until'[t] = NoTimeout
  BY <1>1, <1>3
<1>5. SchedTypes'
  <2>1. until' \in [Threads -> {NoTimeout} \union 0 .. MaxSleep]
    BY <1>1, <1>4
  <2>. QED
    BY <1>1, <2>1, SchedFacts DEF SchedTypes, TypeOK
<1>6. Known(c)'
  BY <1>1, <1>2, SchedFacts DEF Known
<1>7. Waking(c)'
  BY <1>1, SchedFacts DEF Waking
<1>. QED
  BY <1>2, <1>5, <1>6, <1>7 DEF SchedInv

-----------------------------------------------------------------------------
(* The theorem *)

\* With one CPU, and any number of threads, the scheduler neither panics nor
\* links a thread twice nor loses one, except a reaper that is interrupted
\* before it has entered the sleep queue; a held sleep_lock belongs to a thread
\* that is still on the CPU on its way to sleep (scheduler.cpp). Signals come
\* from threads that can be preempted before wake_up(), and from interrupt
\* handlers. With two CPUs the first part fails.
THEOREM SchedSafeOnOneCpu ==
  ASSUME NEW c, Cpus = {c}
  PROVE  Spec => []SchedSafe
<1>1. Init => SchedInv(c)
  BY SchedInit
<1>2. SchedInv(c) /\ [Next]_vars => SchedInv(c)'
  <2>. SUFFICES ASSUME SchedInv(c), [Next]_vars PROVE SchedInv(c)'
    OBVIOUS
  <2>1. CASE Interrupt(c)
    BY <2>1, SchedInterrupt
  <2>2. ASSUME NEW d \in 1 .. MaxRun, Switch(c, d) PROVE SchedInv(c)'
    BY <2>2, SchedSwitch
  <2>3. CASE SleeperRound(c)
    BY <2>3, SchedSleeperRound
  <2>4. ASSUME NEW t \in Workers, NEW ms \in {NoTimeout} \union 1 .. MaxSleep, Sleep(t, c, ms)
        PROVE  SchedInv(c)'
    BY <2>4, SchedSleep
  <2>5. ASSUME NEW u \in Workers, NEW t \in Workers, Signal(u, c, t) PROVE SchedInv(c)'
    BY <2>5, SchedSignal
  <2>6. ASSUME NEW u \in Workers, NEW t \in Workers, Spawn(u, c, t) PROVE SchedInv(c)'
    BY <2>6, SchedSpawn
  <2>7. ASSUME NEW u \in Workers, WakeUp(u) PROVE SchedInv(c)'
    BY <2>7, SchedWakeUp
  <2>8. CASE Clock
    BY <2>8, SchedClock
  <2>10. ASSUME NEW u \in Workers, EnterWakeUp(u) PROVE SchedInv(c)'
    BY <2>10, SchedEnterWakeUp
  <2>11. ASSUME NEW t \in Workers, HandlerSignal(t) PROVE SchedInv(c)'
    BY <2>11, SchedHandlerSignal
  <2>12. CASE HandlerWakeUp
    BY <2>12, SchedHandlerWakeUp
  <2>13. CASE ReaperDoze(c) \/ ReaperLink(c) \/ ReaperInsert(c)
    BY <2>13, SchedReaperDoze, SchedReaperLink, SchedReaperInsert
  <2>9. CASE UNCHANGED vars
    <3>1. /\ UNCHANGED <<status, runq, sleepq, running, schedPc, pick, sleepLock, panicked>>
          /\ UNCHANGED <<until, vruntime, home, pc, listed, target, irqTarget, torn>>
      BY <2>9 DEF vars
    <3>2. Placed(c)' /\ OnCpu(c)' /\ LockLeft(c)' /\ ~panicked'
      BY <3>1, SchedStill
    <3>3. SchedTypes'
      BY <2>9, Zenon DEF vars, SchedInv, SchedTypes, TypeOK
    <3>4. Known(c)'
      <4>1. Known(c) /\ InHand(c)' = InHand(c)
        BY <3>1, SchedFacts, SchedStill
      <4>. QED
        BY <3>1, <4>1 DEF Known
    <3>5. Waking(c)'
      BY <3>1, SchedFacts DEF Waking
    <3>. QED
      BY <3>2, <3>3, <3>4, <3>5 DEF SchedInv
  <2>. QED
    BY <2>1, <2>2, <2>3, <2>4, <2>5, <2>6, <2>7, <2>8, <2>9, <2>10, <2>11, <2>12, <2>13 DEF Next
<1>3. SchedInv(c) => SchedSafe
  BY SchedInvSound
<1>. QED
  BY <1>1, <1>2, <1>3, PTL DEF Spec

=============================================================================
