--------------------------- MODULE PlatformProofs ---------------------------
(***************************************************************************)
(* Proofs about module Platform: the counter that wraps for every period   *)
(* and any number of callers, the guarded spinlocks for any CPUs and       *)
(* threads, the start of any number of processors, the main clock for any  *)
(* CPUs and counters, and the interrupt lines of any machine.  A step of   *)
(* one part leaves the state of the others alone, so each part is proved   *)
(* by itself.                                                              *)
(***************************************************************************)
EXTENDS Platform, FiniteSetTheorems, SequenceTheorems, TLAPS

-----------------------------------------------------------------------------
(* The counter.                                                            *)

LEMMA PeriodNat == Period \in Nat /\ Period > 2
  BY PlatformAssumption DEF Counter!WrapClockAssumption

\* A number is its remainder and a multiple of the period.
LEMMA Remainder ==
  ASSUME NEW x \in Nat
  PROVE  \E k \in Nat : x = k * Period + (x % Period) /\ x % Period \in 0..(Period - 1)
<1>1. x % Period \in 0..(Period - 1) /\ x = Period * (x \div Period) + (x % Period)
      /\ x \div Period \in Int
  BY PeriodNat
<1>2. x \div Period >= 0
  BY PeriodNat
<1>3. x = (x \div Period) * Period + (x % Period)
  BY <1>1, PeriodNat
<1>. QED
  BY <1>1, <1>2, <1>3

\* Multiples are ordered as their factors are.
LEMMA Multiples ==
  ASSUME NEW i \in Int, NEW j \in Int
  PROVE  /\ i * Period \in Int
         /\ (i + 1) * Period = i * Period + Period
         /\ i * Period < j * Period => i + 1 <= j
         /\ i <= j => i * Period <= j * Period
  BY PeriodNat

\* The extended value of a reading r is the least number of the same remainder
\* that is not behind the value l it is extended by.
LEMMA ExtendedLeast ==
  ASSUME NEW r \in Nat, NEW l \in Nat
  PROVE  /\ Counter!Extended(r % Period, l) \in Nat
         /\ l <= Counter!Extended(r % Period, l)
         /\ \E m \in Nat : Counter!Extended(r % Period, l) = (r % Period) + m * Period
         /\ \A j \in Int : l <= r + j * Period =>
              Counter!Extended(r % Period, l) <= r + j * Period
<1>. DEFINE a == r % Period
            b == l % Period
            e == a + (l - b)
<1>1. PICK k \in Nat : r = k * Period + a /\ a \in 0..(Period - 1)
  BY Remainder
<1>2. PICK m \in Nat : l = m * Period + b /\ b \in 0..(Period - 1)
  BY Remainder
<1>3. Counter!Extended(r % Period, l) = IF e < l THEN e + Period ELSE e
  BY DEF Counter!Extended
<1>. HIDE DEF a, b
<1>4. m * Period \in Int /\ e = a + m * Period
  BY <1>1, <1>2, Multiples
<1>5. CASE e < l
  <2>1. Counter!Extended(r % Period, l) = a + m * Period + Period
    BY <1>3, <1>4, <1>5
  <2>0. m * Period \in Int /\ (m + 1) * Period = m * Period + Period
    BY Multiples
  <2>2. a + m * Period + Period = a + (m + 1) * Period
    BY <1>1, <2>0, PeriodNat
  <2>3. l <= a + m * Period + Period /\ a + m * Period + Period \in Nat
    BY <1>1, <1>2, <1>4, PeriodNat
  <2>4. ASSUME NEW j \in Int, l <= r + j * Period
        PROVE  a + (m + 1) * Period <= r + j * Period
    <3>1. r + j * Period = a + (k + j) * Period
      BY <1>1, PeriodNat
    <3>2. (k + j) * Period \in Int
      BY Multiples
    <3>3. m * Period < (k + j) * Period
      BY <1>1, <1>2, <1>4, <1>5, <2>4, <3>1, <3>2
    <3>4. m + 1 <= k + j
      BY <3>3, Multiples
    <3>5. (m + 1) * Period <= (k + j) * Period /\ (m + 1) * Period \in Int
      BY <3>4, Multiples
    <3>. QED
      BY <3>1, <3>2, <3>5, <1>1
  <2>. QED
    BY <2>1, <2>2, <2>3, <2>4 DEF a
<1>6. CASE ~(e < l)
  <2>1. Counter!Extended(r % Period, l) = a + m * Period
    BY <1>3, <1>4, <1>6
  <2>2. l <= a + m * Period /\ a + m * Period \in Nat
    BY <1>1, <1>2, <1>4, <1>6
  <2>4. ASSUME NEW j \in Int, l <= r + j * Period
        PROVE  a + m * Period <= r + j * Period
    <3>1. r + j * Period = a + (k + j) * Period
      BY <1>1, PeriodNat
    <3>2. /\ (k + j) * Period \in Int
          /\ (k + j + 1) * Period = (k + j) * Period + Period
      BY Multiples
    <3>3. m * Period < (k + j + 1) * Period
      BY <1>1, <1>2, <1>4, <1>6, <2>4, <3>1, <3>2, PeriodNat
    <3>4. m + 1 <= k + j + 1
      BY <3>3, Multiples
    <3>5. m * Period <= (k + j) * Period
      BY <3>4, Multiples
    <3>. QED
      BY <1>1, <1>4, <3>1, <3>2, <3>5
  <2>. QED
    BY <2>1, <2>2, <2>4 DEF a
<1>. QED
  BY <1>5, <1>6

\* A reading less than a period after an exact value is extended exactly.
LEMMA ExtendedExact ==
  ASSUME NEW r \in Nat, NEW s \in Nat, s <= r, r - s < Period
  PROVE  Counter!Extended(r % Period, s) = r
<1>. DEFINE x == Counter!Extended(r % Period, s)
<1>1. PICK k \in Nat : r = k * Period + (r % Period) /\ r % Period \in 0..(Period - 1)
  BY Remainder
<1>2. PICK m \in Nat : x = (r % Period) + m * Period
  BY ExtendedLeast
<1>3. x \in Nat /\ s <= x /\ x <= r
  <2>1. \A j \in Int : s <= r + j * Period => x <= r + j * Period
    BY ExtendedLeast
  <2>2. r + 0 * Period = r
    BY PeriodNat
  <2>3. x <= r
    BY <2>1, <2>2
  <2>. QED
    BY <2>3, ExtendedLeast
<1>. HIDE DEF x
<1>4. /\ k * Period \in Int /\ m * Period \in Int
      /\ (m + 1) * Period = m * Period + Period
  BY Multiples
<1>5. k * Period < (m + 1) * Period
  BY <1>1, <1>2, <1>3, <1>4, PeriodNat
<1>6. k + 1 <= m + 1
  BY <1>5, Multiples
<1>7. k * Period <= m * Period
  BY <1>6, Multiples
<1>8. r <= x
  BY <1>1, <1>2, <1>4, <1>7
<1>. QED
  BY <1>3, <1>8 DEF x

CounterTypes ==
  /\ ticks \in Nat /\ last \in Nat /\ storedAt \in Nat /\ jumps \in Nat
  /\ calls \in [Callers -> {"idle", "load", "store"}]
  /\ value \in [Callers -> Nat] /\ readAt \in [Callers -> Nat]

\* No period passes without a stored value, and no call lasts as long as one.
CounterRecent ==
  /\ storedAt <= ticks /\ ticks - storedAt < Period
  /\ \A c \in Callers :
       /\ readAt[c] <= ticks
       /\ calls[c] # "idle" => ticks - readAt[c] < Period

\* A value is what the counter showed, then at most a period ahead for each
\* call that was overtaken, and so is the one that is kept.
CounterAhead ==
  /\ last <= storedAt + jumps * Period
  /\ \A c \in Callers :
       /\ calls[c] = "load" => value[c] = readAt[c] % Period
       /\ calls[c] = "store" => value[c] <= readAt[c] + jumps * Period

CounterExact ==
  jumps = 0 => last = storedAt /\ \A c \in Callers : calls[c] = "store" => value[c] = readAt[c]

CounterInv == CounterTypes /\ CounterRecent /\ CounterAhead /\ CounterExact

LEMMA CounterInit == Counter!Init => CounterInv
<1>. SUFFICES ASSUME Counter!Init PROVE CounterInv
  OBVIOUS
<1>. USE PeriodNat DEF Counter!Init
<1>1. CounterTypes
  BY DEF CounterTypes
<1>2. CounterRecent
  BY DEF CounterRecent
<1>3. CounterAhead
  BY DEF CounterAhead
<1>4. CounterExact
  BY DEF CounterExact
<1>. QED
  BY <1>1, <1>2, <1>3, <1>4 DEF CounterInv

LEMMA CounterTick == CounterInv /\ Counter!Tick => CounterInv'
<1>. SUFFICES ASSUME CounterInv, Counter!Tick PROVE CounterInv'
  OBVIOUS
<1>. USE PeriodNat DEF CounterInv, Counter!Tick
<1>1. CounterTypes'
  BY DEF CounterTypes
<1>2. CounterRecent'
  BY DEF CounterRecent, CounterTypes
<1>3. CounterAhead'
  BY DEF CounterAhead
<1>4. CounterExact'
  BY DEF CounterExact
<1>. QED
  BY <1>1, <1>2, <1>3, <1>4 DEF CounterInv

LEMMA CounterRead ==
  ASSUME NEW c \in Callers, CounterInv, Counter!Read(c)
  PROVE  CounterInv'
<1>. USE DEF CounterInv, Counter!Read
<1>1. ticks % Period \in Nat
  BY PeriodNat DEF CounterTypes
<1>2. CounterTypes'
  BY <1>1 DEF CounterTypes
<1>3. CounterRecent'
  BY PeriodNat DEF CounterRecent, CounterTypes
<1>4. CounterAhead'
  <2>1. last' <= storedAt' + jumps' * Period
    BY DEF CounterAhead
  <2>2. ASSUME NEW d \in Callers
        PROVE  /\ calls'[d] = "load" => value'[d] = readAt'[d] % Period
               /\ calls'[d] = "store" => value'[d] <= readAt'[d] + jumps' * Period
    BY <2>2 DEF CounterAhead, CounterTypes
  <2>. QED
    BY <2>1, <2>2 DEF CounterAhead
<1>5. CounterExact'
  BY DEF CounterExact, CounterTypes
<1>. QED
  BY <1>2, <1>3, <1>4, <1>5 DEF CounterInv

LEMMA CounterLoad ==
  ASSUME NEW c \in Callers, CounterInv, Counter!Load(c)
  PROVE  CounterInv'
<1>. DEFINE r == readAt[c]
            x == Counter!Extended(value[c], last)
<1>. USE DEF CounterInv
<1>1. /\ r \in Nat /\ last \in Nat /\ storedAt \in Nat /\ jumps \in Nat /\ ticks \in Nat
      /\ value[c] = r % Period /\ r <= ticks /\ ticks - r < Period
      /\ storedAt <= ticks /\ ticks - storedAt < Period
      /\ last <= storedAt + jumps * Period
  BY DEF CounterTypes, CounterRecent, CounterAhead, Counter!Load
<1>2. x \in Nat /\ \A j \in Int : last <= r + j * Period => x <= r + j * Period
  BY <1>1, ExtendedLeast
<1>3. /\ jumps * Period \in Int
      /\ (jumps + 1) * Period = jumps * Period + Period
  BY <1>1, Multiples
<1>4. jumps' \in Nat /\ jumps <= jumps' /\ x <= r + jumps' * Period
  <2>1. CASE storedAt <= r
    <3>1. last <= r + jumps * Period
      BY <1>1, <1>3, <2>1
    <3>2. jumps' = jumps
      BY <1>1, <2>1 DEF Counter!Load
    <3>. QED
      BY <1>1, <1>2, <3>1, <3>2
  <2>2. CASE storedAt > r
    <3>1. last <= r + (jumps + 1) * Period
      BY <1>1, <1>3, <2>2, PeriodNat
    <3>2. jumps' = jumps + 1
      BY <1>1, <2>2 DEF Counter!Load
    <3>. QED
      BY <1>1, <1>2, <3>1, <3>2
  <2>. QED
    BY <1>1, <2>1, <2>2
<1>5. jumps * Period <= jumps' * Period /\ jumps' * Period \in Int
  BY <1>1, <1>4, Multiples
<1>6. jumps' = 0 => jumps = 0 /\ x = r
  <2>. SUFFICES ASSUME jumps' = 0 PROVE jumps = 0 /\ x = r
    OBVIOUS
  <2>1. jumps = 0
    BY <1>1, <1>4
  <2>2. storedAt <= r
    BY <1>1, <2>1 DEF Counter!Load
  <2>3. last = storedAt
    BY <2>1 DEF CounterExact
  <2>4. r - storedAt < Period
    BY <1>1, PeriodNat
  <2>5. Counter!Extended(r % Period, storedAt) = r
    BY <1>1, <2>2, <2>4, ExtendedExact
  <2>. QED
    BY <1>1, <2>1, <2>3, <2>5
<1>. HIDE DEF x
<1>7. /\ calls' = [calls EXCEPT ![c] = "store"]
      /\ value' = [value EXCEPT ![c] = x]
      /\ UNCHANGED <<ticks, last, readAt, storedAt>>
  BY DEF Counter!Load, x
<1>8. CounterTypes'
  BY <1>1, <1>2, <1>4, <1>7 DEF CounterTypes
<1>9. CounterRecent'
  BY <1>1, <1>7 DEF CounterRecent, CounterTypes
<1>10. CounterAhead'
  <2>1. last' <= storedAt' + jumps' * Period
    BY <1>1, <1>3, <1>5, <1>7
  <2>2. ASSUME NEW d \in Callers
        PROVE  /\ calls'[d] = "load" => value'[d] = readAt'[d] % Period
               /\ calls'[d] = "store" => value'[d] <= readAt'[d] + jumps' * Period
    <3>1. CASE d = c
      BY <1>4, <1>7, <3>1 DEF CounterTypes
    <3>2. CASE d # c
      <4>1. calls'[d] = calls[d] /\ value'[d] = value[d] /\ readAt'[d] = readAt[d]
            /\ value[d] \in Nat /\ readAt[d] \in Nat
        BY <1>7, <3>2 DEF CounterTypes
      <4>. QED
        BY <1>3, <1>5, <4>1 DEF CounterAhead
    <3>. QED
      BY <3>1, <3>2
  <2>. QED
    BY <2>1, <2>2 DEF CounterAhead
<1>11. CounterExact'
  BY <1>6, <1>7 DEF CounterExact, CounterTypes
<1>. QED
  BY <1>8, <1>9, <1>10, <1>11 DEF CounterInv

LEMMA CounterStore ==
  ASSUME NEW c \in Callers, CounterInv, Counter!Store(c)
  PROVE  CounterInv'
<1>. USE DEF CounterInv
<1>1. /\ calls[c] = "store" /\ calls' = [calls EXCEPT ![c] = "idle"]
      /\ UNCHANGED <<ticks, value, readAt, jumps>>
      /\ \/ last' = value[c] /\ storedAt' = readAt[c]
         \/ last' = last /\ storedAt' = storedAt
  BY DEF Counter!Store
<1>2. CounterTypes'
  BY <1>1 DEF CounterTypes
<1>3. CounterRecent'
  BY <1>1 DEF CounterRecent, CounterTypes
<1>4. CounterAhead'
  <2>1. last' <= storedAt' + jumps' * Period
    BY <1>1 DEF CounterAhead
  <2>2. ASSUME NEW d \in Callers
        PROVE  /\ calls'[d] = "load" => value'[d] = readAt'[d] % Period
               /\ calls'[d] = "store" => value'[d] <= readAt'[d] + jumps' * Period
    BY <1>1, <2>2 DEF CounterAhead, CounterTypes
  <2>. QED
    BY <2>1, <2>2 DEF CounterAhead
<1>5. CounterExact'
  BY <1>1 DEF CounterExact, CounterTypes
<1>. QED
  BY <1>2, <1>3, <1>4, <1>5 DEF CounterInv

\* Read of hpet.cpp and time_ns() of acpipm.cpp extend the counter exactly for
\* every period and any number of callers, unless a call is overtaken between
\* its reading and its load of `last`, and are then ahead by a period for each.
THEOREM ExactUnlessOvertakenInvariant == Spec => []ExactUnlessOvertaken
<1>. DEFINE I == part = "counter" => CounterInv
<1>1. Init => I
  BY CounterInit DEF Init
<1>2. I /\ [Next]_vars => I'
  <2>. SUFFICES ASSUME I, [Next]_vars, part' = "counter" PROVE CounterInv'
    OBVIOUS
  <2>1. part = "counter" /\ CounterInv
    BY DEF Next, vars
  <2>2. CASE Counter!Next
    <3>1. CASE Counter!Tick
      BY <2>1, <3>1, CounterTick
    <3>2. ASSUME NEW c \in Callers, Counter!Read(c) \/ Counter!Load(c) \/ Counter!Store(c)
          PROVE  CounterInv'
      BY <2>1, <3>2, CounterRead, CounterLoad, CounterStore
    <3>. QED
      BY <2>2, <3>1, <3>2 DEF Counter!Next
  <2>3. CASE UNCHANGED counterVars
    BY <2>1, <2>3 DEF counterVars, CounterInv, CounterTypes, CounterRecent, CounterAhead,
      CounterExact
  <2>. QED
    BY <2>1, <2>2, <2>3 DEF Next, vars
<1>3. I => ExactUnlessOvertaken
  BY DEF ExactUnlessOvertaken, Counter!ExactUnlessOvertaken, Counter!TypeOK, CounterInv,
    CounterTypes, CounterAhead, CounterExact
<1>. QED
  BY <1>1, <1>2, <1>3, PTL DEF Spec
-----------------------------------------------------------------------------
(* The guarded spinlocks.                                                  *)

Contexts == Threads \cup Cpus

\* The queue of a lock holds exactly the contexts in S, each once.
InOrder(q, S) ==
  /\ q \in Seq(Contexts)
  /\ \A i, j \in 1..Len(q) : q[i] = q[j] => i = j
  /\ \A x \in Contexts : x \in S <=> \E i \in 1..Len(q) : q[i] = x

\* L are the labels of a context in the queue, H those of its first.
QueueBooks(L, H) ==
  /\ InOrder(queue, {x \in Contexts : pc[x] \in L})
  /\ \A x \in Contexts : pc[x] \in H => queue[1] = x

RunningHome == running \in [Cpus -> Threads] /\ \A c \in Cpus : Home[running[c]] = c

LEMMA GuardConstants ==
  Home \in [Threads -> Cpus] /\ QueueCpu \in Cpus /\ Cpus \cap Threads = {}
  BY PlatformAssumption DEF IrqLock!GuardsAssumption

\* A ticket is drawn for the end of the queue.
LEMMA InOrderAppend ==
  ASSUME NEW q, NEW S, InOrder(q, S), NEW x \in Contexts, x \notin S
  PROVE  /\ InOrder(Append(q, x), S \cup {x})
         /\ Len(q) > 0 => Append(q, x)[1] = q[1]
<1>1. /\ Append(q, x) \in Seq(Contexts) /\ Len(Append(q, x)) = Len(q) + 1 /\ Len(q) \in Nat
      /\ \A i \in 1..Len(q) : Append(q, x)[i] = q[i]
      /\ Append(q, x)[Len(q) + 1] = x
  BY DEF InOrder
<1>2. \A i \in 1..Len(q) : q[i] # x
  BY DEF InOrder
<1>3. ASSUME NEW i \in 1..(Len(q) + 1), NEW j \in 1..(Len(q) + 1),
             Append(q, x)[i] = Append(q, x)[j]
      PROVE  i = j
  <2>1. \A k \in 1..(Len(q) + 1) : k \in 1..Len(q) \/ k = Len(q) + 1
    BY <1>1
  <2>2. \A k, l \in 1..Len(q) : q[k] = q[l] => k = l
    BY DEF InOrder
  <2>. QED
    BY <1>1, <1>2, <1>3, <2>1, <2>2
<1>4. ASSUME NEW y \in Contexts
      PROVE  y \in S \cup {x} <=> \E i \in 1..(Len(q) + 1) : Append(q, x)[i] = y
  <2>1. y \in S <=> \E i \in 1..Len(q) : q[i] = y
    BY DEF InOrder
  <2>2. /\ (Len(q) + 1) \in 1..(Len(q) + 1)
        /\ \A k \in 1..(Len(q) + 1) : k \in 1..Len(q) \/ k = Len(q) + 1
        /\ \A k \in 1..Len(q) : k \in 1..(Len(q) + 1)
    BY <1>1
  <2>. QED
    BY <1>1, <2>1, <2>2
<1>. QED
  BY <1>1, <1>3, <1>4 DEF InOrder

\* The holder is the first of the queue, and unlock() takes it away.
LEMMA InOrderTail ==
  ASSUME NEW q, NEW S, InOrder(q, S), Len(q) > 0
  PROVE  InOrder(Tail(q), S \ {q[1]})
<1>1. /\ Tail(q) \in Seq(Contexts) /\ Len(Tail(q)) = Len(q) - 1 /\ Len(q) \in Nat
      /\ \A i \in 1..(Len(q) - 1) : Tail(q)[i] = q[i + 1]
  BY DEF InOrder
<1>2. \A i, j \in 1..Len(q) : q[i] = q[j] => i = j
  BY DEF InOrder
<1>3. ASSUME NEW i \in 1..(Len(q) - 1), NEW j \in 1..(Len(q) - 1), Tail(q)[i] = Tail(q)[j]
      PROVE  i = j
  BY <1>1, <1>2, <1>3
<1>4. ASSUME NEW y \in Contexts
      PROVE  y \in S \ {q[1]} <=> \E i \in 1..(Len(q) - 1) : Tail(q)[i] = y
  <2>1. y \in S <=> \E i \in 1..Len(q) : q[i] = y
    BY DEF InOrder
  <2>2. ASSUME y \in S \ {q[1]} PROVE \E i \in 1..(Len(q) - 1) : Tail(q)[i] = y
    <3>1. PICK i \in 1..Len(q) : q[i] = y
      BY <2>1, <2>2
    <3>2. i # 1
      BY <2>2, <3>1
    <3>3. i - 1 \in 1..(Len(q) - 1) /\ Tail(q)[i - 1] = q[i]
      BY <1>1, <3>2
    <3>. QED
      BY <3>1, <3>3
  <2>3. ASSUME NEW i \in 1..(Len(q) - 1), Tail(q)[i] = y PROVE y \in S \ {q[1]}
    BY <1>1, <1>2, <2>1, <2>3
  <2>. QED
    BY <2>2, <2>3
<1>. QED
  BY <1>1, <1>3, <1>4 DEF InOrder

\* The books are kept by every step of a context x to a label m.
LEMMA QueueStep ==
  ASSUME NEW L, NEW H, H \subseteq L, QueueBooks(L, H),
         NEW P, pc \in [Contexts -> P], NEW x \in Contexts, NEW m,
         pc' = [pc EXCEPT ![x] = m],
         \/ pc[x] \notin L /\ m \notin L /\ queue' = queue
         \/ pc[x] \notin L /\ m \in L \ H /\ queue' = Append(queue, x)
         \/ pc[x] \in L /\ m \in L /\ queue' = queue /\ queue[1] = x
         \/ pc[x] \in H /\ m \notin L /\ queue' = Tail(queue)
  PROVE  QueueBooks(L, H)'
<1>. DEFINE S == {y \in Contexts : pc[y] \in L}
<1>1. /\ InOrder(queue, S) /\ \A y \in Contexts : pc[y] \in H => queue[1] = y
      /\ Len(queue) \in Nat
  BY DEF QueueBooks, InOrder
<1>2. pc'[x] = m /\ \A y \in Contexts : y # x => pc'[y] = pc[y]
  OBVIOUS
<1>3. \A y \in S : Len(queue) > 0
  BY <1>1 DEF InOrder
<1>4. SUFFICES ASSUME TRUE
               PROVE  /\ InOrder(queue', {y \in Contexts : pc'[y] \in L})
                      /\ \A y \in Contexts : pc'[y] \in H => queue'[1] = y
  BY DEF QueueBooks, InOrder, Contexts
<1>5. CASE pc[x] \notin L /\ m \notin L /\ queue' = queue
  <2>1. {y \in Contexts : pc'[y] \in L} = S
    BY <1>2, <1>5
  <2>. QED
    BY <1>1, <1>2, <1>5, <2>1
<1>6. CASE pc[x] \notin L /\ m \in L \ H /\ queue' = Append(queue, x)
  <2>1. {y \in Contexts : pc'[y] \in L} = S \cup {x} /\ x \notin S
    BY <1>2, <1>6
  <2>2. InOrder(queue', S \cup {x}) /\ (Len(queue) > 0 => queue'[1] = queue[1])
    BY <1>1, <1>6, <2>1, InOrderAppend
  <2>3. ASSUME NEW y \in Contexts, pc'[y] \in H PROVE queue'[1] = y
    <3>1. y # x /\ pc[y] \in H
      BY <1>2, <1>6, <2>3
    <3>2. y \in S
      BY <3>1
    <3>. QED
      BY <1>1, <1>3, <2>2, <3>1, <3>2
  <2>. QED
    BY <2>1, <2>2, <2>3
<1>7. CASE pc[x] \in L /\ m \in L /\ queue' = queue /\ queue[1] = x
  <2>1. {y \in Contexts : pc'[y] \in L} = S
    BY <1>2, <1>7
  <2>. QED
    BY <1>1, <1>2, <1>7, <2>1
<1>8. CASE pc[x] \in H /\ m \notin L /\ queue' = Tail(queue)
  <2>1. queue[1] = x /\ x \in S
    BY <1>1, <1>8
  <2>2. {y \in Contexts : pc'[y] \in L} = S \ {queue[1]}
    BY <1>2, <1>8, <2>1
  <2>3. InOrder(queue', S \ {queue[1]})
    BY <1>1, <1>3, <1>8, <2>1, InOrderTail
  <2>4. \A y \in Contexts : pc'[y] \notin H
    BY <1>1, <1>2, <1>8, <2>1
  <2>. QED
    BY <2>2, <2>3, <2>4
<1>. QED
  BY <1>5, <1>6, <1>7, <1>8

\* y is in front of x in a queue.
Before(q, y, x) == \E i, j \in 1..Len(q) : i < j /\ q[i] = y /\ q[j] = x

\* Who was in front stays in front, until it is the first and leaves.
LEMMA BeforeKept ==
  ASSUME NEW q \in Seq(Contexts), NEW x, NEW y, Before(q, y, x)
  PROVE  /\ \A z \in Contexts : Before(Append(q, z), y, x)
         /\ q[1] # y => Before(Tail(q), y, x)
<1>1. PICK i \in 1..Len(q), j \in 1..Len(q) : i < j /\ q[i] = y /\ q[j] = x
  BY DEF Before
<1>2. ASSUME NEW z \in Contexts PROVE Before(Append(q, z), y, x)
  <2>1. /\ Len(Append(q, z)) = Len(q) + 1 /\ Append(q, z)[i] = q[i] /\ Append(q, z)[j] = q[j]
        /\ i \in 1..(Len(q) + 1) /\ j \in 1..(Len(q) + 1)
    OBVIOUS
  <2>. QED
    BY <1>1, <2>1 DEF Before
<1>3. ASSUME q[1] # y PROVE Before(Tail(q), y, x)
  <2>1. i # 1 /\ j # 1
    BY <1>1, <1>3
  <2>2. /\ Len(Tail(q)) = Len(q) - 1 /\ Tail(q)[i - 1] = q[i] /\ Tail(q)[j - 1] = q[j]
        /\ i - 1 \in 1..(Len(q) - 1) /\ j - 1 \in 1..(Len(q) - 1) /\ i - 1 < j - 1
    BY <1>1, <2>1
  <2>. QED
    BY <1>1, <2>2 DEF Before
<1>. QED
  BY <1>2, <1>3

-----------------------------------------------------------------------------
(* The lock that disables preemption.                                      *)

PreemptLabels == {"idle", "draw", "wait", "disable", "held", "enable", "return"}
PreemptTypes ==
  /\ RunningHome
  /\ preemption \in [Cpus -> Int]
  /\ pc \in [Contexts -> PreemptLabels]
  /\ \A t \in Threads : pc[t] \in {"idle", "draw", "wait", "disable", "held", "enable"}
  /\ \A c \in Cpus : /\ pc[c] \in {"idle", "draw", "wait", "held", "return"}
                     /\ c # QueueCpu => pc[c] = "idle"

PreemptBooks == QueueBooks({"wait", "disable", "held"}, {"disable", "held"})

\* Only the running thread of a CPU has disabled preemption, and schedule()
\* runs only where none has.
PreemptCounts ==
  \A c \in Cpus :
    /\ \A t \in Threads : Home[t] = c /\ t # running[c] => pc[t] \notin {"held", "enable"}
    /\ preemption[c] = IF pc[running[c]] \in {"held", "enable"} THEN 1 ELSE 0
    /\ pc[c] # "idle" => preemption[c] = 0

\* Where schedule() takes the lock, it leaves a thread only outside the queue,
\* and waits behind the thread it interrupted in the queue.
PreemptLeaves ==
  LET r == running[QueueCpu]
  IN  /\ \A t \in Threads : Home[t] = QueueCpu /\ t # r => pc[t] \in {"idle", "draw"}
      /\ pc[QueueCpu] = "wait" /\ pc[r] \in {"wait", "disable"} => Before(queue, r, QueueCpu)
      /\ pc[QueueCpu] \in {"held", "return"} => pc[r] \in {"idle", "draw"}

PreemptInv == PreemptTypes /\ PreemptBooks /\ PreemptCounts /\ PreemptLeaves

LEMMA PreemptInit == PreemptLock!Init => PreemptInv
<1>. SUFFICES ASSUME PreemptLock!Init PROVE PreemptInv
  OBVIOUS
<1>. USE GuardConstants
<1>1. /\ running \in [Cpus -> Threads] /\ \A c \in Cpus : Home[running[c]] = c
      /\ preemption = [c \in Cpus |-> 0] /\ queue = <<>>
      /\ pc = [x \in Contexts |-> "idle"]
  BY DEF PreemptLock!Init, Contexts
<1>2. \A c \in Cpus : c \in Contexts /\ running[c] \in Contexts
  BY <1>1 DEF Contexts
<1>3. \A t \in Threads : t \in Contexts
  BY DEF Contexts
<1>4. PreemptTypes
  BY <1>1, <1>2, <1>3 DEF PreemptTypes, RunningHome, PreemptLabels
<1>5. PreemptBooks
  BY <1>1 DEF PreemptBooks, QueueBooks, InOrder
<1>6. PreemptCounts
  BY <1>1, <1>2, <1>3 DEF PreemptCounts
<1>7. PreemptLeaves
  BY <1>1, <1>2, <1>3 DEF PreemptLeaves
<1>. QED
  BY <1>4, <1>5, <1>6, <1>7 DEF PreemptInv

\* What a step of a running thread keeps, if it keeps schedule() behind a
\* thread that it interrupted.
LEMMA PreemptThreadStep ==
  ASSUME PreemptInv, NEW t \in Threads, running[Home[t]] = t, pc[Home[t]] = "idle",
         NEW m \in {"idle", "draw", "wait", "disable", "held", "enable"},
         pc' = [pc EXCEPT ![t] = m], running' = running,
         preemption' = [preemption EXCEPT ![Home[t]] = IF m \in {"held", "enable"} THEN 1 ELSE 0],
         pc[running[QueueCpu]] \in {"wait", "disable"}
           => (Before(queue, running[QueueCpu], QueueCpu)
               => Before(queue', running[QueueCpu], QueueCpu))
  PROVE  PreemptTypes' /\ PreemptCounts' /\ PreemptLeaves'
<1>. USE GuardConstants
<1>1. PreemptTypes /\ PreemptCounts /\ PreemptLeaves
  BY DEF PreemptInv
<1>2. /\ Home[t] \in Cpus /\ t \in Contexts /\ t \notin Cpus
      /\ running \in [Cpus -> Threads] /\ \A c \in Cpus : Home[running[c]] = c
      /\ preemption \in [Cpus -> Int] /\ pc \in [Contexts -> PreemptLabels]
  BY <1>1 DEF PreemptTypes, RunningHome, Contexts
<1>3. /\ \A x \in Contexts : pc'[x] = IF x = t THEN m ELSE pc[x]
      /\ \A c \in Cpus : c \in Contexts /\ running[c] \in Contexts
      /\ \A u \in Threads : u \in Contexts
  BY <1>2 DEF Contexts
<1>4. PreemptTypes'
  <2>1. RunningHome'
    BY <1>2 DEF RunningHome
  <2>2. preemption' \in [Cpus -> Int] /\ pc' \in [Contexts -> PreemptLabels]
    BY <1>2 DEF PreemptLabels
  <2>3. \A u \in Threads : pc'[u] \in {"idle", "draw", "wait", "disable", "held", "enable"}
    BY <1>1, <1>3 DEF PreemptTypes
  <2>4. \A c \in Cpus : /\ pc'[c] \in {"idle", "draw", "wait", "held", "return"}
                        /\ c # QueueCpu => pc'[c] = "idle"
    BY <1>1, <1>2, <1>3 DEF PreemptTypes
  <2>. QED
    BY <2>1, <2>2, <2>3, <2>4 DEF PreemptTypes, Contexts
<1>5. PreemptCounts'
  <2>. SUFFICES ASSUME NEW c \in Cpus
       PROVE  /\ \A u \in Threads : Home[u] = c /\ u # running[c] => pc'[u] \notin {"held", "enable"}
              /\ preemption'[c] = IF pc'[running[c]] \in {"held", "enable"} THEN 1 ELSE 0
              /\ pc'[c] # "idle" => preemption'[c] = 0
    BY DEF PreemptCounts
  <2>1. /\ \A u \in Threads : Home[u] = c /\ u # running[c] => pc[u] \notin {"held", "enable"}
        /\ preemption[c] = IF pc[running[c]] \in {"held", "enable"} THEN 1 ELSE 0
        /\ pc[c] # "idle" => preemption[c] = 0
    BY <1>1 DEF PreemptCounts
  <2>2. CASE c = Home[t]
    BY <1>2, <1>3, <2>1, <2>2
  <2>3. CASE c # Home[t]
    <3>1. running[c] # t /\ preemption'[c] = preemption[c]
      BY <1>2, <2>3
    <3>. QED
      BY <1>2, <1>3, <2>1, <2>3, <3>1
  <2>. QED
    BY <2>2, <2>3
<1>6. PreemptLeaves'
  <2>. DEFINE r == running[QueueCpu]
  <2>1. /\ \A u \in Threads : Home[u] = QueueCpu /\ u # r => pc[u] \in {"idle", "draw"}
        /\ pc[QueueCpu] = "wait" /\ pc[r] \in {"wait", "disable"} => Before(queue, r, QueueCpu)
        /\ pc[QueueCpu] \in {"held", "return"} => pc[r] \in {"idle", "draw"}
    BY <1>1 DEF PreemptLeaves
  <2>2. pc'[QueueCpu] = pc[QueueCpu] /\ (t = r => pc[QueueCpu] = "idle")
    BY <1>2, <1>3
  <2>3. \A u \in Threads : Home[u] = QueueCpu /\ u # r => pc'[u] \in {"idle", "draw"}
    BY <1>2, <1>3, <2>1
  <2>4. pc'[QueueCpu] = "wait" /\ pc'[r] \in {"wait", "disable"} => Before(queue', r, QueueCpu)
    BY <1>3, <2>1, <2>2
  <2>5. pc'[QueueCpu] \in {"held", "return"} => pc'[r] \in {"idle", "draw"}
    BY <1>3, <2>1, <2>2
  <2>. QED
    BY <2>3, <2>4, <2>5 DEF PreemptLeaves, Before
<1>. QED
  BY <1>4, <1>5, <1>6

\* What a step of schedule() keeps.
LEMMA PreemptHandlerStep ==
  ASSUME PreemptInv, NEW m \in {"draw", "wait", "held", "return"},
         pc' = [pc EXCEPT ![QueueCpu] = m], running' = running, preemption' = preemption,
         preemption[QueueCpu] = 0,
         m = "wait" /\ pc[running[QueueCpu]] \in {"wait", "disable"}
           => Before(queue', running[QueueCpu], QueueCpu),
         m \in {"held", "return"} => pc[running[QueueCpu]] \in {"idle", "draw"}
  PROVE  PreemptTypes' /\ PreemptCounts' /\ PreemptLeaves'
<1>. USE GuardConstants
<1>1. PreemptTypes /\ PreemptCounts /\ PreemptLeaves
  BY DEF PreemptInv
<1>2. /\ QueueCpu \in Contexts /\ QueueCpu \notin Threads
      /\ running \in [Cpus -> Threads] /\ \A c \in Cpus : Home[running[c]] = c
      /\ preemption \in [Cpus -> Int] /\ pc \in [Contexts -> PreemptLabels]
  BY <1>1 DEF PreemptTypes, RunningHome, Contexts
<1>3. /\ \A x \in Contexts : pc'[x] = IF x = QueueCpu THEN m ELSE pc[x]
      /\ \A c \in Cpus : c \in Contexts /\ running[c] \in Contexts /\ running[c] # QueueCpu
      /\ \A u \in Threads : u \in Contexts /\ u # QueueCpu
  BY <1>2 DEF Contexts
<1>4. PreemptTypes'
  <2>1. RunningHome'
    BY <1>2 DEF RunningHome
  <2>2. preemption' \in [Cpus -> Int] /\ pc' \in [Contexts -> PreemptLabels]
    BY <1>2 DEF PreemptLabels
  <2>3. \A u \in Threads : pc'[u] \in {"idle", "draw", "wait", "disable", "held", "enable"}
    BY <1>1, <1>3 DEF PreemptTypes
  <2>4. \A c \in Cpus : /\ pc'[c] \in {"idle", "draw", "wait", "held", "return"}
                        /\ c # QueueCpu => pc'[c] = "idle"
    BY <1>1, <1>2, <1>3 DEF PreemptTypes
  <2>. QED
    BY <2>1, <2>2, <2>3, <2>4 DEF PreemptTypes, Contexts
<1>5. PreemptCounts'
  BY <1>1, <1>3 DEF PreemptCounts
<1>6. PreemptLeaves'
  BY <1>1, <1>3 DEF PreemptLeaves, Before
<1>. QED
  BY <1>4, <1>5, <1>6

\* A thread acts while it runs and its CPU is in no interrupt; of the handlers,
\* only schedule() of the CPU whose queue it is.
LEMMA PreemptActs ==
  ASSUME PreemptInv, NEW x \in Contexts, NEW l, NEW m, PreemptLock!From(x, l, m)
  PROVE  /\ pc[x] = l /\ pc' = [pc EXCEPT ![x] = m]
         /\ \/ x \in Threads /\ x \notin Cpus /\ running[Home[x]] = x /\ pc[Home[x]] = "idle"
            \/ x \in Cpus /\ x \notin Threads /\ x = QueueCpu /\ pc[QueueCpu] # "idle"
               /\ preemption[QueueCpu] = 0
<1>1. PreemptTypes /\ PreemptCounts
  BY DEF PreemptInv
<1>. QED
  BY <1>1, GuardConstants DEF PreemptLock!From, PreemptLock!Executes, PreemptLock!InInterrupt,
    Contexts, PreemptTypes, PreemptCounts

LEMMA PreemptFacts ==
  ASSUME PreemptInv
  PROVE  /\ PreemptTypes /\ PreemptBooks /\ PreemptCounts /\ PreemptLeaves
         /\ pc \in [Contexts -> PreemptLabels] /\ queue \in Seq(Contexts)
         /\ preemption \in [Cpus -> Int]
         /\ \A x \in Contexts : pc[x] \in {"disable", "held"} => queue[1] = x
         /\ running[QueueCpu] \in Threads /\ running[QueueCpu] # QueueCpu
         /\ running[QueueCpu] \in Contexts /\ QueueCpu \in Contexts
  BY GuardConstants DEF PreemptInv, PreemptTypes, RunningHome, PreemptBooks, QueueBooks, InOrder,
    Contexts

\* A thread whose count does not change in a step.
LEMMA PreemptSameCount ==
  ASSUME PreemptInv, NEW t \in Threads, running[Home[t]] = t, NEW m,
         pc[t] \in {"held", "enable"} <=> m \in {"held", "enable"}, preemption' = preemption
  PROVE  preemption' = [preemption EXCEPT ![Home[t]] = IF m \in {"held", "enable"} THEN 1 ELSE 0]
<1>1. preemption \in [Cpus -> Int] /\ Home[t] \in Cpus
  BY PreemptFacts, GuardConstants
<1>2. preemption[Home[t]] = IF m \in {"held", "enable"} THEN 1 ELSE 0
  BY <1>1, PreemptFacts DEF PreemptCounts
<1>. QED
  BY <1>1, <1>2

LEMMA PreemptDraw ==
  ASSUME PreemptInv, NEW x \in Contexts, PreemptLock!Draw(x)
  PROVE  PreemptInv'
<1>1. /\ pc[x] = "draw" /\ pc' = [pc EXCEPT ![x] = "wait"] /\ queue' = Append(queue, x)
      /\ running' = running /\ preemption' = preemption
  BY PreemptActs DEF PreemptLock!Draw, PreemptLock!cpuvars
<1>2. PreemptBooks'
  BY <1>1, PreemptFacts, QueueStep DEF PreemptBooks
<1>3. CASE x \in Threads
  <2>1. running[Home[x]] = x /\ pc[Home[x]] = "idle"
    BY <1>3, GuardConstants, PreemptActs DEF PreemptLock!Draw
  <2>2. preemption' = [preemption EXCEPT ![Home[x]] = IF "wait" \in {"held", "enable"} THEN 1 ELSE 0]
    BY <1>1, <1>3, <2>1, PreemptSameCount
  <2>3. Before(queue, running[QueueCpu], QueueCpu) => Before(queue', running[QueueCpu], QueueCpu)
    BY <1>1, PreemptFacts, BeforeKept
  <2>4. PreemptTypes' /\ PreemptCounts' /\ PreemptLeaves'
    BY <1>1, <1>3, <2>1, <2>2, <2>3, PreemptThreadStep
  <2>. QED
    BY <1>2, <2>4 DEF PreemptInv
<1>4. CASE x \in Cpus
  <2>1. x = QueueCpu /\ preemption[QueueCpu] = 0
    BY <1>4, GuardConstants, PreemptActs DEF PreemptLock!Draw
  <2>2. ASSUME pc[running[QueueCpu]] \in {"wait", "disable"}
        PROVE  Before(queue', running[QueueCpu], QueueCpu)
    <3>1. PICK i \in 1..Len(queue) : queue[i] = running[QueueCpu]
      BY <2>2, PreemptFacts DEF PreemptBooks, QueueBooks, InOrder
    <3>2. /\ Len(queue') = Len(queue) + 1 /\ Len(queue) \in Nat
          /\ queue'[i] = queue[i] /\ queue'[Len(queue) + 1] = QueueCpu
      BY <1>1, <2>1, <3>1, PreemptFacts
    <3>. QED
      BY <3>1, <3>2 DEF Before
  <2>3. PreemptTypes' /\ PreemptCounts' /\ PreemptLeaves'
    BY <1>1, <2>1, <2>2, PreemptHandlerStep
  <2>. QED
    BY <1>2, <2>3 DEF PreemptInv
<1>. QED
  BY <1>3, <1>4 DEF Contexts

LEMMA PreemptServed ==
  ASSUME PreemptInv, NEW x \in Contexts, PreemptLock!Served(x)
  PROVE  PreemptInv'
<1>. DEFINE m == IF x \in Threads THEN "disable" ELSE "held"
<1>1. /\ pc[x] = "wait" /\ pc' = [pc EXCEPT ![x] = m] /\ queue' = queue /\ Head(queue) = x
      /\ running' = running /\ preemption' = preemption
  BY PreemptActs DEF PreemptLock!Served, PreemptLock!cpuvars, PreemptLock!lockvars
<1>2. Len(queue) > 0 /\ queue[1] = x
  <2>1. \E i \in 1..Len(queue) : queue[i] = x
    BY <1>1, PreemptFacts DEF PreemptBooks, QueueBooks, InOrder
  <2>. QED
    BY <1>1, <2>1, PreemptFacts
<1>3. PreemptBooks'
  BY <1>1, <1>2, PreemptFacts, QueueStep DEF PreemptBooks
<1>4. CASE x \in Threads
  <2>1. running[Home[x]] = x /\ pc[Home[x]] = "idle"
    BY <1>4, GuardConstants, PreemptActs DEF PreemptLock!Served
  <2>2. preemption' = [preemption EXCEPT ![Home[x]] = IF m \in {"held", "enable"} THEN 1 ELSE 0]
    BY <1>1, <1>4, <2>1, PreemptSameCount
  <2>3. PreemptTypes' /\ PreemptCounts' /\ PreemptLeaves'
    BY <1>1, <1>4, <2>1, <2>2, PreemptThreadStep
  <2>. QED
    BY <1>3, <2>3 DEF PreemptInv
<1>5. CASE x \in Cpus
  <2>1. x = QueueCpu /\ preemption[QueueCpu] = 0 /\ m = "held"
    BY <1>5, GuardConstants, PreemptActs DEF PreemptLock!Served
  <2>2. ~Before(queue, running[QueueCpu], QueueCpu)
    BY <1>2, <2>1, PreemptFacts DEF Before, PreemptBooks, QueueBooks, InOrder
  <2>3. pc[running[QueueCpu]] \in {"idle", "draw"}
    <3>1. pc[running[QueueCpu]] \notin {"wait", "disable"}
      BY <1>1, <2>1, <2>2, PreemptFacts DEF PreemptLeaves
    <3>2. pc[running[QueueCpu]] \notin {"held", "enable"}
      BY <2>1, PreemptFacts, GuardConstants DEF PreemptCounts
    <3>. QED
      BY <3>1, <3>2, PreemptFacts DEF PreemptTypes
  <2>4. PreemptTypes' /\ PreemptCounts' /\ PreemptLeaves'
    BY <1>1, <2>1, <2>3, PreemptHandlerStep
  <2>. QED
    BY <1>3, <2>4 DEF PreemptInv
<1>. QED
  BY <1>4, <1>5 DEF Contexts

LEMMA PreemptUnlock ==
  ASSUME PreemptInv, NEW x \in Contexts, PreemptLock!Unlock(x)
  PROVE  PreemptInv'
<1>. DEFINE m == IF x \in Cpus THEN "return" ELSE "enable"
<1>1. /\ pc[x] = "held" /\ pc' = [pc EXCEPT ![x] = m] /\ queue' = Tail(queue)
      /\ running' = running /\ preemption' = preemption
  BY PreemptActs DEF PreemptLock!Unlock, PreemptLock!cpuvars
<1>2. PreemptBooks'
  <2>1. PICK n \in {"return", "enable"} : pc' = [pc EXCEPT ![x] = n]
    BY <1>1
  <2>2. n \notin {"wait", "disable", "held"}
    OBVIOUS
  <2>3. pc[x] \in {"disable", "held"} /\ queue' = Tail(queue)
    BY <1>1
  <2>4. QueueBooks({"wait", "disable", "held"}, {"disable", "held"})
        /\ pc \in [Contexts -> PreemptLabels]
    BY PreemptFacts DEF PreemptBooks
  <2>5. {"disable", "held"} \subseteq {"wait", "disable", "held"}
    OBVIOUS
  <2>. QED
    BY <2>1, <2>2, <2>3, <2>4, <2>5, QueueStep DEF PreemptBooks
<1>3. CASE x \in Threads
  <2>1. running[Home[x]] = x /\ pc[Home[x]] = "idle" /\ m = "enable"
    BY <1>3, GuardConstants, PreemptActs DEF PreemptLock!Unlock
  <2>2. preemption' = [preemption EXCEPT ![Home[x]] = IF m \in {"held", "enable"} THEN 1 ELSE 0]
    BY <1>1, <1>3, <2>1, PreemptSameCount
  <2>3. pc[running[QueueCpu]] \in {"wait", "disable"} => queue[1] # running[QueueCpu]
    BY <1>1, PreemptFacts
  <2>4. pc[running[QueueCpu]] \in {"wait", "disable"}
          => (Before(queue, running[QueueCpu], QueueCpu)
              => Before(queue', running[QueueCpu], QueueCpu))
    BY <1>1, <2>3, PreemptFacts, BeforeKept
  <2>5. PreemptTypes' /\ PreemptCounts' /\ PreemptLeaves'
    BY <1>1, <1>3, <2>1, <2>2, <2>4, PreemptThreadStep
  <2>. QED
    BY <1>2, <2>5 DEF PreemptInv
<1>4. CASE x \in Cpus
  <2>1. x = QueueCpu /\ preemption[QueueCpu] = 0 /\ m = "return"
    BY <1>4, GuardConstants, PreemptActs DEF PreemptLock!Unlock
  <2>2. pc[running[QueueCpu]] \in {"idle", "draw"}
    BY <1>1, <2>1, PreemptFacts DEF PreemptLeaves
  <2>3. PreemptTypes' /\ PreemptCounts' /\ PreemptLeaves'
    BY <1>1, <2>1, <2>2, PreemptHandlerStep
  <2>. QED
    BY <1>2, <2>3 DEF PreemptInv
<1>. QED
  BY <1>3, <1>4 DEF Contexts

\* Lock, Disable and Enable.
LEMMA PreemptThread ==
  ASSUME PreemptInv, NEW t \in Threads,
         PreemptLock!Lock(t) \/ PreemptLock!Disable(t) \/ PreemptLock!Enable(t)
  PROVE  PreemptInv'
<1>. DEFINE m == IF pc[t] = "idle" THEN "draw" ELSE IF pc[t] = "disable" THEN "held" ELSE "idle"
<1>0. t \in Contexts /\ Home[t] \in Cpus
  BY GuardConstants DEF Contexts
<1>1. /\ \/ PreemptLock!From(t, "idle", "draw") /\ preemption' = preemption
         \/ PreemptLock!From(t, "disable", "held")
            /\ preemption' = [preemption EXCEPT ![Home[t]] = @ + 1]
         \/ PreemptLock!From(t, "enable", "idle")
            /\ preemption' = [preemption EXCEPT ![Home[t]] = @ - 1]
      /\ queue' = queue /\ running' = running
  BY DEF PreemptLock!Lock, PreemptLock!Disable, PreemptLock!Enable, PreemptLock!cpuvars,
    PreemptLock!lockvars
<1>2. /\ pc[t] \in {"idle", "disable", "enable"} /\ pc' = [pc EXCEPT ![t] = m]
      /\ running[Home[t]] = t /\ pc[Home[t]] = "idle"
  BY <1>0, <1>1, PreemptActs, GuardConstants
<1>3. preemption' = [preemption EXCEPT ![Home[t]] = IF m \in {"held", "enable"} THEN 1 ELSE 0]
  <2>1. preemption[Home[t]] = IF pc[t] \in {"held", "enable"} THEN 1 ELSE 0
    BY <1>0, <1>2, PreemptFacts DEF PreemptCounts
  <2>2. CASE PreemptLock!From(t, "idle", "draw") /\ preemption' = preemption
    <3>1. pc[t] = "idle"
      BY <2>2 DEF PreemptLock!From
    <3>. QED
      BY <1>2, <2>2, <3>1, PreemptSameCount
  <2>3. CASE PreemptLock!From(t, "disable", "held")
             /\ preemption' = [preemption EXCEPT ![Home[t]] = @ + 1]
    <3>1. pc[t] = "disable"
      BY <2>3 DEF PreemptLock!From
    <3>2. preemption' = [preemption EXCEPT ![Home[t]] = 1]
      BY <1>0, <2>1, <2>3, <3>1, PreemptFacts
    <3>. QED
      BY <3>1, <3>2
  <2>4. CASE PreemptLock!From(t, "enable", "idle")
             /\ preemption' = [preemption EXCEPT ![Home[t]] = @ - 1]
    <3>1. pc[t] = "enable"
      BY <2>4 DEF PreemptLock!From
    <3>2. preemption' = [preemption EXCEPT ![Home[t]] = 0]
      BY <1>0, <2>1, <2>4, <3>1, PreemptFacts
    <3>. QED
      BY <3>1, <3>2
  <2>. QED
    BY <1>1, <2>2, <2>3, <2>4
<1>4. m \in {"draw", "held", "idle"}
  OBVIOUS
<1>5. PreemptTypes' /\ PreemptCounts' /\ PreemptLeaves'
  BY <1>1, <1>2, <1>3, <1>4, PreemptThreadStep
<1>6. PreemptBooks'
  BY <1>0, <1>1, <1>2, PreemptFacts, QueueStep, ZenonT(30) DEF PreemptBooks
<1>. QED
  BY <1>5, <1>6 DEF PreemptInv

LEMMA PreemptSchedule ==
  ASSUME PreemptInv, NEW c \in Cpus, PreemptLock!Schedule(c)
  PROVE  PreemptInv'
<1>1. /\ c = QueueCpu /\ pc[QueueCpu] = "idle" /\ preemption[QueueCpu] = 0
      /\ pc' = [pc EXCEPT ![QueueCpu] = "draw"] /\ queue' = queue
      /\ running' = running /\ preemption' = preemption
  BY DEF PreemptLock!Schedule, PreemptLock!Preemptible, PreemptLock!InInterrupt,
    PreemptLock!cpuvars, PreemptLock!lockvars
<1>2. PreemptTypes' /\ PreemptCounts' /\ PreemptLeaves'
  BY <1>1, PreemptHandlerStep
<1>3. PreemptBooks'
  BY <1>1, PreemptFacts, QueueStep DEF PreemptBooks
<1>. QED
  BY <1>2, <1>3 DEF PreemptInv

\* schedule() leaves a thread, having had the lock on the CPU whose queue it is.
LEMMA PreemptSwitch ==
  ASSUME PreemptInv, NEW c \in Cpus, NEW t \in Threads, PreemptLock!Switch(c, t)
  PROVE  PreemptInv'
<1>. USE GuardConstants
<1>1. /\ Home[t] = c /\ running' = [running EXCEPT ![c] = t]
      /\ queue' = queue /\ preemption' = preemption
      /\ \/ c = QueueCpu /\ pc[c] = "return" /\ pc' = [pc EXCEPT ![c] = "idle"]
         \/ c # QueueCpu /\ preemption[c] = 0 /\ pc' = pc
  BY DEF PreemptLock!Switch, PreemptLock!Preemptible, PreemptLock!From, PreemptLock!cpuvars,
    PreemptLock!lockvars
<1>2. /\ running \in [Cpus -> Threads] /\ \A d \in Cpus : Home[running[d]] = d
      /\ pc \in [Contexts -> PreemptLabels] /\ c \in Contexts
      /\ \A u \in Threads : u \in Contexts /\ u # c
      /\ \A d \in Cpus : d \in Contexts
  BY PreemptFacts DEF PreemptTypes, RunningHome, Contexts
<1>3. /\ running' \in [Cpus -> Threads] /\ running'[c] = t
      /\ \A d \in Cpus : d # c => running'[d] = running[d]
  BY <1>1, <1>2
<1>4. /\ pc' \in [Contexts -> PreemptLabels]
      /\ \A u \in Threads : pc'[u] = pc[u]
      /\ \A d \in Cpus : pc'[d] = IF d = c THEN "idle" ELSE pc[d]
  <2>1. CASE c = QueueCpu /\ pc[c] = "return" /\ pc' = [pc EXCEPT ![c] = "idle"]
    BY <1>2, <2>1 DEF PreemptLabels
  <2>2. CASE c # QueueCpu /\ preemption[c] = 0 /\ pc' = pc
    BY <1>2, <2>2, PreemptFacts DEF PreemptTypes
  <2>. QED
    BY <1>1, <2>1, <2>2
<1>5. preemption[c] = 0 /\ pc[running[c]] \notin {"held", "enable"}
      /\ \A u \in Threads : Home[u] = c => pc[u] \notin {"held", "enable"}
  <2>1. preemption[c] = 0
    BY <1>1, PreemptFacts DEF PreemptCounts
  <2>. QED
    BY <1>2, <2>1, PreemptFacts DEF PreemptCounts
<1>6. c = QueueCpu => \A u \in Threads : Home[u] = c => pc[u] \in {"idle", "draw"}
  BY <1>1, <1>2, PreemptFacts DEF PreemptLeaves
<1>7. PreemptTypes'
  <2>1. RunningHome'
    BY <1>1, <1>2, <1>3 DEF RunningHome
  <2>. QED
    BY <1>1, <1>4, <2>1, PreemptFacts DEF PreemptTypes, Contexts
<1>8. PreemptBooks'
  <2>1. CASE c = QueueCpu /\ pc[c] = "return" /\ pc' = [pc EXCEPT ![c] = "idle"]
    BY <1>1, <1>2, <2>1, PreemptFacts, QueueStep, ZenonT(30) DEF PreemptBooks
  <2>2. CASE c # QueueCpu /\ preemption[c] = 0 /\ pc' = pc
    BY <1>1, <2>2, PreemptFacts DEF PreemptBooks, QueueBooks, InOrder, Contexts
  <2>. QED
    BY <1>1, <2>1, <2>2
<1>9. PreemptCounts'
  <2>. SUFFICES ASSUME NEW d \in Cpus
       PROVE  /\ \A u \in Threads : Home[u] = d /\ u # running'[d] => pc'[u] \notin {"held", "enable"}
              /\ preemption'[d] = IF pc'[running'[d]] \in {"held", "enable"} THEN 1 ELSE 0
              /\ pc'[d] # "idle" => preemption'[d] = 0
    BY DEF PreemptCounts
  <2>1. CASE d = c
    BY <1>1, <1>3, <1>4, <1>5, <2>1
  <2>2. CASE d # c
    BY <1>1, <1>2, <1>3, <1>4, <2>2, PreemptFacts DEF PreemptCounts
  <2>. QED
    BY <2>1, <2>2
<1>10. PreemptLeaves'
  <2>1. CASE c = QueueCpu
    BY <1>1, <1>3, <1>4, <1>6, <2>1 DEF PreemptLeaves
  <2>2. CASE c # QueueCpu
    BY <1>1, <1>2, <1>3, <1>4, <2>2, PreemptFacts DEF PreemptLeaves, Before
  <2>. QED
    BY <2>1, <2>2
<1>. QED
  BY <1>7, <1>8, <1>9, <1>10 DEF PreemptInv

LEMMA PreemptNext == PreemptInv /\ PreemptLock!Next => PreemptInv'
<1>. SUFFICES ASSUME PreemptInv, PreemptLock!Next PROVE PreemptInv'
  OBVIOUS
<1>1. ASSUME NEW x \in Contexts, PreemptLock!Draw(x) PROVE PreemptInv'
  BY <1>1, PreemptDraw
<1>2. ASSUME NEW x \in Contexts, PreemptLock!Served(x) PROVE PreemptInv'
  BY <1>2, PreemptServed
<1>3. ASSUME NEW x \in Contexts, PreemptLock!Unlock(x) PROVE PreemptInv'
  BY <1>3, PreemptUnlock
<1>4. \A x \in Contexts : ~PreemptLock!Store(x)
  BY PreemptFacts DEF PreemptLabels, PreemptLock!Store, PreemptLock!From
<1>5. ASSUME NEW t \in Threads,
             PreemptLock!Lock(t) \/ PreemptLock!Disable(t) \/ PreemptLock!Enable(t)
      PROVE  PreemptInv'
  BY <1>5, PreemptThread
<1>6. ASSUME NEW t \in Threads
      PROVE  ~(\/ PreemptLock!Status(t) \/ PreemptLock!Count(t) \/ PreemptLock!SwitchOff(t)
               \/ PreemptLock!Load(t) \/ PreemptLock!Sub(t) \/ PreemptLock!SwitchBack(t))
  <2>1. pc[t] \in {"idle", "draw", "wait", "disable", "held", "enable"}
    BY PreemptFacts DEF PreemptTypes
  <2>. QED
    BY <2>1 DEF PreemptLock!Status, PreemptLock!Count, PreemptLock!SwitchOff, PreemptLock!Load,
      PreemptLock!Sub, PreemptLock!SwitchBack, PreemptLock!From
<1>7. ASSUME NEW c \in Cpus, PreemptLock!Schedule(c) PROVE PreemptInv'
  BY <1>7, PreemptSchedule
<1>8. \A c \in Cpus : ~PreemptLock!DeviceInterrupt(c) /\ ~PreemptLock!DeviceReturn(c)
  BY DEF PreemptLock!DeviceInterrupt, PreemptLock!DeviceReturn
<1>9. ASSUME NEW c \in Cpus, NEW t \in Threads, PreemptLock!Switch(c, t) PROVE PreemptInv'
  BY <1>9, PreemptSwitch
<1>. QED
  BY <1>1, <1>2, <1>3, <1>4, <1>5, <1>6, <1>7, <1>8, <1>9 DEF PreemptLock!Next, Contexts

\* spinlock_preempt, for any CPUs and threads: schedule() waits for a thread of
\* its own CPU only if it interrupted that thread between its ticket and
\* disable(), never inside a critical section.
THEOREM PreemptGuardsHoldInvariant == Spec => []PreemptGuardsHold
<1>. DEFINE I == part = "preempt" => PreemptInv
<1>1. Init => I
  <2>1. IrqLock!Init => PreemptLock!Init
    BY DEF IrqLock!Init, PreemptLock!Init
  <2>. QED
    BY <2>1, PreemptInit DEF Init
<1>2. I /\ [Next]_vars => I'
  <2>. SUFFICES ASSUME I, [Next]_vars, part' = "preempt" PROVE PreemptInv'
    OBVIOUS
  <2>1. part = "preempt" /\ PreemptInv
    BY DEF Next, vars
  <2>2. CASE PreemptLock!Next
    BY <2>1, <2>2, PreemptNext
  <2>3. CASE UNCHANGED guardVars
    BY <2>1, <2>3 DEF guardVars, PreemptInv, PreemptTypes, PreemptBooks, PreemptCounts,
      PreemptLeaves, RunningHome, QueueBooks, InOrder, Before, Contexts
  <2>. QED
    BY <2>1, <2>2, <2>3 DEF Next, vars
<1>3. I => PreemptGuardsHold
  <2>. SUFFICES ASSUME PreemptInv, NEW c \in Cpus, NEW t \in Threads, Home[t] = c,
                       PreemptLock!Behind(c, t)
                PROVE  running[c] = t /\ pc[t] \in {"wait", "disable"}
    BY DEF PreemptGuardsHold, PreemptLock!PreemptGuardsHold
  <2>1. PICK i \in 1..Len(queue), j \in 1..Len(queue) : i < j /\ queue[i] = t /\ queue[j] = c
    BY PreemptFacts DEF PreemptLock!Behind
  <2>2. c \in Contexts /\ t \in Contexts
    BY DEF Contexts
  <2>3. pc[c] \in {"wait", "disable", "held"} /\ pc[t] \in {"wait", "disable", "held"}
    BY <2>1, <2>2, PreemptFacts DEF PreemptBooks, QueueBooks, InOrder
  <2>4. c = QueueCpu
    BY <2>3, PreemptFacts DEF PreemptTypes
  <2>5. running[c] = t
    BY <2>3, <2>4, PreemptFacts DEF PreemptLeaves
  <2>6. pc[t] # "held"
    <3>1. preemption[c] = 0
      BY <2>3, PreemptFacts DEF PreemptCounts
    <3>. QED
      BY <2>5, <3>1, PreemptFacts DEF PreemptCounts
  <2>. QED
    BY <2>3, <2>5, <2>6
<1>. QED
  BY <1>1, <1>2, <1>3, PTL DEF Spec

-----------------------------------------------------------------------------
(* The lock that switches interrupts off.                                  *)

Counted == {"cli", "store", "draw", "wait", "held", "load", "sub"}
Off == {"store", "draw", "wait", "held", "load", "sub", "switch"}

IrqLabels == Counted \cup {"idle", "count", "switch", "return"}
IrqTypes ==
  /\ RunningHome
  /\ irq_depth \in [Cpus -> Int]
  /\ ints \in [Cpus -> BOOLEAN] /\ interrupts \in BOOLEAN
  /\ saved \in [Contexts -> BOOLEAN]
  /\ pc \in [Contexts -> IrqLabels]
  /\ \A t \in Threads : pc[t] \in Counted \cup {"idle", "count", "switch"}
  /\ \A c \in Cpus : pc[c] \in {"idle", "store", "draw", "wait", "held", "return"}

IrqBooks == QueueBooks({"wait", "held"}, {"held"})

\* Until it races, a CPU leaves only threads that have not counted themselves.
IrqLeaves ==
  \A c \in Cpus \ raced :
    /\ \A t \in Threads : Home[t] = c /\ t # running[c] => pc[t] \in {"idle", "count"}
    /\ irq_depth[c] = IF pc[running[c]] \in Counted THEN 1 ELSE 0
    /\ pc[running[c]] \in Off => ~ints[c] /\ pc[c] = "idle"

\* Until its flag is overwritten as well, what a thread has in hand or in the
\* lock is that interrupts were on.
IrqFlags ==
  \A c \in Cpus \ (raced \cup overwritten) :
    /\ \A t \in Threads : Home[t] = c =>
         /\ pc[t] \in {"count", "cli", "store", "sub", "switch"} => saved[t]
         /\ pc[t] \in {"draw", "wait", "held", "load"} => interrupts
    /\ pc[c] = "idle" /\ pc[running[c]] \in {"idle", "count", "cli"} => ints[c]

IrqInv == IrqTypes /\ IrqBooks /\ IrqLeaves /\ IrqFlags

LEMMA IrqInit == IrqLock!Init => IrqInv
<1>. SUFFICES ASSUME IrqLock!Init PROVE IrqInv
  OBVIOUS
<1>. USE GuardConstants
<1>1. /\ running \in [Cpus -> Threads] /\ \A c \in Cpus : Home[running[c]] = c
      /\ irq_depth = [c \in Cpus |-> 0] /\ ints = [c \in Cpus |-> TRUE]
      /\ interrupts = FALSE /\ saved = [x \in Contexts |-> FALSE]
      /\ queue = <<>> /\ pc = [x \in Contexts |-> "idle"]
  BY DEF IrqLock!Init, Contexts
<1>2. \A c \in Cpus : c \in Contexts /\ running[c] \in Contexts
  BY <1>1 DEF Contexts
<1>3. \A t \in Threads : t \in Contexts
  BY DEF Contexts
<1>4. IrqTypes
  <2>1. RunningHome /\ irq_depth \in [Cpus -> Int]
    BY <1>1 DEF RunningHome
  <2>2. ints \in [Cpus -> BOOLEAN] /\ interrupts \in BOOLEAN
    BY <1>1
  <2>3. saved \in [Contexts -> BOOLEAN]
    BY <1>1
  <2>4. pc \in [Contexts -> IrqLabels]
    BY <1>1 DEF IrqLabels
  <2>. QED
    BY <1>1, <1>2, <1>3, <2>1, <2>2, <2>3, <2>4 DEF IrqTypes
<1>5. IrqBooks
  BY <1>1 DEF IrqBooks, QueueBooks, InOrder
<1>6. IrqLeaves
  BY <1>1, <1>2, <1>3 DEF IrqLeaves, Counted, Off
<1>7. IrqFlags
  BY <1>1, <1>2, <1>3 DEF IrqFlags
<1>. QED
  BY <1>4, <1>5, <1>6, <1>7 DEF IrqInv

LEMMA IrqFacts ==
  ASSUME IrqInv
  PROVE  /\ IrqTypes /\ IrqBooks /\ IrqLeaves /\ IrqFlags
         /\ running \in [Cpus -> Threads] /\ \A c \in Cpus : Home[running[c]] = c
         /\ pc \in [Contexts -> IrqLabels] /\ queue \in Seq(Contexts)
         /\ irq_depth \in [Cpus -> Int]
         /\ ints \in [Cpus -> BOOLEAN] /\ interrupts \in BOOLEAN /\ saved \in [Contexts -> BOOLEAN]
         /\ \A c \in Cpus : c \in Contexts /\ c \notin Threads /\ running[c] \in Contexts
         /\ \A t \in Threads : t \in Contexts /\ t \notin Cpus /\ Home[t] \in Cpus
  BY GuardConstants DEF IrqInv, IrqTypes, RunningHome, IrqBooks, QueueBooks, InOrder, Contexts

LEMMA IrqActs ==
  ASSUME IrqInv, NEW x \in Contexts, NEW l, NEW m, IrqLock!From(x, l, m)
  PROVE  /\ pc[x] = l /\ pc' = [pc EXCEPT ![x] = m]
         /\ \/ x \in Threads /\ x \notin Cpus /\ running[Home[x]] = x /\ pc[Home[x]] = "idle"
            \/ x \in Cpus /\ x \notin Threads /\ pc[x] # "idle"
  BY GuardConstants DEF IrqLock!From, IrqLock!Executes, IrqLock!InInterrupt, Contexts

\* What a step of a running thread keeps: if it counts itself, and has the
\* interrupts off, as its new label says, and if nothing that a thread of
\* another CPU has in the lock is switched off unseen.
LEMMA IrqThreadStep ==
  ASSUME IrqInv, NEW t \in Threads, running[Home[t]] = t, pc[Home[t]] = "idle",
         NEW m \in Counted \cup {"idle", "count", "switch"},
         pc' = [pc EXCEPT ![t] = m], running' = running, raced' = raced,
         irq_depth' \in [Cpus -> Int], ints' \in [Cpus -> BOOLEAN],
         \A d \in Cpus : d # Home[t] => irq_depth'[d] = irq_depth[d] /\ ints'[d] = ints[d],
         Home[t] \notin raced =>
           /\ irq_depth'[Home[t]] = IF m \in Counted THEN 1 ELSE 0
           /\ m \in Off => ~ints'[Home[t]],
         interrupts' \in BOOLEAN, saved' \in [Contexts -> BOOLEAN],
         \A u \in Contexts : u # t => saved'[u] = saved[u],
         overwritten \subseteq overwritten',
         \A u \in Threads :
           Home[u] # Home[t] /\ Home[u] \notin overwritten'
             /\ pc[u] \in {"draw", "wait", "held", "load"} /\ interrupts => interrupts',
         Home[t] \notin raced \cup overwritten' =>
           /\ m \in {"count", "cli", "store", "sub", "switch"} => saved'[t]
           /\ m \in {"draw", "wait", "held", "load"} => interrupts'
           /\ m \in {"idle", "count", "cli"} => ints'[Home[t]]
  PROVE  IrqTypes' /\ IrqLeaves' /\ IrqFlags'
<1>. DEFINE h == Home[t]
<1>1. h \in Cpus /\ t \in Contexts /\ t \notin Cpus
  BY IrqFacts
<1>2. /\ \A x \in Contexts : pc'[x] = IF x = t THEN m ELSE pc[x]
      /\ \A c \in Cpus : pc'[c] = pc[c] /\ (running[c] = t <=> c = h)
  BY <1>1, IrqFacts
<1>3. IrqTypes'
  <2>1. RunningHome'
    BY IrqFacts DEF RunningHome
  <2>2. pc' \in [Contexts -> IrqLabels]
    BY IrqFacts DEF IrqLabels
  <2>3. \A u \in Threads : pc'[u] \in Counted \cup {"idle", "count", "switch"}
    BY <1>2, IrqFacts DEF IrqTypes
  <2>4. \A c \in Cpus : pc'[c] \in {"idle", "store", "draw", "wait", "held", "return"}
    BY <1>2, IrqFacts DEF IrqTypes
  <2>. QED
    BY <2>1, <2>2, <2>3, <2>4 DEF IrqTypes, Contexts
<1>4. IrqLeaves'
  <2>. SUFFICES ASSUME NEW c \in Cpus \ raced
       PROVE  /\ \A u \in Threads : Home[u] = c /\ u # running[c] => pc'[u] \in {"idle", "count"}
              /\ irq_depth'[c] = IF pc'[running[c]] \in Counted THEN 1 ELSE 0
              /\ pc'[running[c]] \in Off => ~ints'[c] /\ pc'[c] = "idle"
    BY DEF IrqLeaves
  <2>1. /\ \A u \in Threads : Home[u] = c /\ u # running[c] => pc[u] \in {"idle", "count"}
        /\ irq_depth[c] = IF pc[running[c]] \in Counted THEN 1 ELSE 0
        /\ pc[running[c]] \in Off => ~ints[c] /\ pc[c] = "idle"
    BY IrqFacts DEF IrqLeaves
  <2>2. running[c] \in Contexts /\ \A u \in Threads : u \in Contexts
    BY IrqFacts
  <2>3. CASE c = h
    BY <1>2, <2>1, <2>2, <2>3
  <2>4. CASE c # h
    BY <1>2, <2>1, <2>2, <2>4
  <2>. QED
    BY <2>3, <2>4
<1>5. IrqFlags'
  <2>. SUFFICES ASSUME NEW c \in Cpus \ (raced \cup overwritten')
       PROVE  /\ \A u \in Threads : Home[u] = c =>
                   /\ pc'[u] \in {"count", "cli", "store", "sub", "switch"} => saved'[u]
                   /\ pc'[u] \in {"draw", "wait", "held", "load"} => interrupts'
              /\ pc'[c] = "idle" /\ pc'[running[c]] \in {"idle", "count", "cli"} => ints'[c]
    BY DEF IrqFlags
  <2>1. c \in Cpus \ (raced \cup overwritten)
    OBVIOUS
  <2>2. /\ \A u \in Threads : Home[u] = c =>
             /\ pc[u] \in {"count", "cli", "store", "sub", "switch"} => saved[u]
             /\ pc[u] \in {"draw", "wait", "held", "load"} => interrupts
        /\ pc[c] = "idle" /\ pc[running[c]] \in {"idle", "count", "cli"} => ints[c]
    BY <2>1, IrqFacts DEF IrqFlags
  <2>3. running[c] \in Contexts /\ \A u \in Threads : u \in Contexts
    BY IrqFacts
  <2>4. CASE c = h
    <3>1. \A u \in Threads : Home[u] = c /\ u # t => pc[u] \in {"idle", "count"}
      BY <2>4, IrqFacts DEF IrqLeaves
    <3>2. running[c] = t
      BY <2>4
    <3>. QED
      BY <1>2, <2>2, <2>3, <2>4, <3>1, <3>2
  <2>5. CASE c # h
    BY <1>2, <2>2, <2>3, <2>5
  <2>. QED
    BY <2>4, <2>5
<1>. QED
  BY <1>3, <1>4, <1>5

\* What a step of a handler keeps, or an interrupt that starts one.
LEMMA IrqHandlerStep ==
  ASSUME IrqInv, NEW c \in Cpus, pc[c] # "idle" \/ ints[c],
         NEW m \in {"idle", "store", "draw", "wait", "held", "return"},
         pc' = [pc EXCEPT ![c] = m], running' = running, raced' = raced, irq_depth' = irq_depth,
         ints' \in [Cpus -> BOOLEAN], \A d \in Cpus : d # c => ints'[d] = ints[d],
         m = "idle" => ints'[c],
         interrupts' \in BOOLEAN, saved' \in [Contexts -> BOOLEAN],
         \A u \in Threads : saved'[u] = saved[u],
         overwritten \subseteq overwritten',
         \A u \in Threads :
           Home[u] # c /\ Home[u] \notin overwritten'
             /\ pc[u] \in {"draw", "wait", "held", "load"} /\ interrupts => interrupts'
  PROVE  IrqTypes' /\ IrqLeaves' /\ IrqFlags'
<1>1. c \in Contexts /\ c \notin Threads
  BY IrqFacts
<1>2. /\ \A x \in Contexts : pc'[x] = IF x = c THEN m ELSE pc[x]
      /\ \A u \in Threads : pc'[u] = pc[u]
      /\ \A d \in Cpus : running[d] # c /\ pc'[running[d]] = pc[running[d]]
      /\ \A d \in Cpus : pc'[d] = IF d = c THEN m ELSE pc[d]
  BY <1>1, IrqFacts
<1>3. IrqTypes'
  <2>1. RunningHome'
    BY IrqFacts DEF RunningHome
  <2>2. pc' \in [Contexts -> IrqLabels]
    BY IrqFacts DEF IrqLabels, Counted
  <2>3. \A u \in Threads : pc'[u] \in Counted \cup {"idle", "count", "switch"}
    BY <1>2, IrqFacts DEF IrqTypes
  <2>4. \A d \in Cpus : pc'[d] \in {"idle", "store", "draw", "wait", "held", "return"}
    BY <1>2, IrqFacts DEF IrqTypes
  <2>5. irq_depth' \in [Cpus -> Int]
    BY IrqFacts
  <2>. QED
    BY <2>1, <2>2, <2>3, <2>4, <2>5 DEF IrqTypes, Contexts
<1>4. c \notin raced => pc[running[c]] \notin Off
  BY IrqFacts DEF IrqLeaves
<1>5. IrqLeaves'
  <2>. SUFFICES ASSUME NEW d \in Cpus \ raced
       PROVE  /\ \A u \in Threads : Home[u] = d /\ u # running[d] => pc'[u] \in {"idle", "count"}
              /\ irq_depth[d] = IF pc'[running[d]] \in Counted THEN 1 ELSE 0
              /\ pc'[running[d]] \in Off => ~ints'[d] /\ pc'[d] = "idle"
    BY DEF IrqLeaves
  <2>1. /\ \A u \in Threads : Home[u] = d /\ u # running[d] => pc[u] \in {"idle", "count"}
        /\ irq_depth[d] = IF pc[running[d]] \in Counted THEN 1 ELSE 0
        /\ pc[running[d]] \in Off => ~ints[d] /\ pc[d] = "idle"
    BY IrqFacts DEF IrqLeaves
  <2>. QED
    BY <1>2, <1>4, <2>1
<1>6. IrqFlags'
  <2>. SUFFICES ASSUME NEW d \in Cpus \ (raced \cup overwritten')
       PROVE  /\ \A u \in Threads : Home[u] = d =>
                   /\ pc'[u] \in {"count", "cli", "store", "sub", "switch"} => saved'[u]
                   /\ pc'[u] \in {"draw", "wait", "held", "load"} => interrupts'
              /\ pc'[d] = "idle" /\ pc'[running[d]] \in {"idle", "count", "cli"} => ints'[d]
    BY DEF IrqFlags
  <2>1. d \in Cpus \ (raced \cup overwritten)
    OBVIOUS
  <2>2. /\ \A u \in Threads : Home[u] = d =>
             /\ pc[u] \in {"count", "cli", "store", "sub", "switch"} => saved[u]
             /\ pc[u] \in {"draw", "wait", "held", "load"} => interrupts
        /\ pc[d] = "idle" /\ pc[running[d]] \in {"idle", "count", "cli"} => ints[d]
    BY <2>1, IrqFacts DEF IrqFlags
  <2>3. CASE d = c
    <3>1. \A u \in Threads : Home[u] = c => pc[u] \notin {"draw", "wait", "held", "load"}
      BY <1>4, <2>3, IrqFacts DEF IrqLeaves, Off
    <3>. QED
      BY <1>2, <2>2, <2>3, <3>1
  <2>4. CASE d # c
    BY <1>2, <2>2, <2>4
  <2>. QED
    BY <2>3, <2>4
<1>. QED
  BY <1>3, <1>5, <1>6

\* A thread whose step changes neither a count nor the interrupts, from one
\* label to one that says the same of both.
LEMMA IrqSameCount ==
  ASSUME IrqInv, NEW t \in Threads, running[Home[t]] = t, NEW m,
         pc[t] \in Counted <=> m \in Counted, m \in Off => pc[t] \in Off, Home[t] \notin raced
  PROVE  /\ irq_depth[Home[t]] = IF m \in Counted THEN 1 ELSE 0
         /\ m \in Off => ~ints[Home[t]]
  BY IrqFacts DEF IrqLeaves

LEMMA IrqQueue ==
  ASSUME IrqInv, NEW x \in Contexts, NEW m, pc' = [pc EXCEPT ![x] = m],
         \/ pc[x] \notin {"wait", "held"} /\ m \notin {"wait", "held"} /\ queue' = queue
         \/ pc[x] \notin {"wait", "held"} /\ m = "wait" /\ queue' = Append(queue, x)
         \/ pc[x] = "wait" /\ m = "held" /\ queue' = queue /\ queue[1] = x
         \/ pc[x] = "held" /\ m \notin {"wait", "held"} /\ queue' = Tail(queue)
  PROVE  IrqBooks'
<1>. DEFINE L == {"wait", "held"}
            H == {"held"}
<1>1. QueueBooks(L, H) /\ pc \in [Contexts -> IrqLabels] /\ H \subseteq L
  BY IrqFacts DEF IrqBooks
<1>2. \/ pc[x] \notin L /\ m \notin L /\ queue' = queue
      \/ pc[x] \notin L /\ m \in L \ H /\ queue' = Append(queue, x)
      \/ pc[x] \in L /\ m \in L /\ queue' = queue /\ queue[1] = x
      \/ pc[x] \in H /\ m \notin L /\ queue' = Tail(queue)
  OBVIOUS
<1>. HIDE DEF L, H
<1>3. QueueBooks(L, H)'
  BY <1>1, <1>2, QueueStep
<1>. QED
  BY <1>3 DEF IrqBooks, L, H

LEMMA IrqDraw ==
  ASSUME IrqInv, NEW x \in Contexts, IrqLock!Draw(x)
  PROVE  IrqInv'
<1>1. /\ pc[x] = "draw" /\ pc' = [pc EXCEPT ![x] = "wait"] /\ queue' = Append(queue, x)
      /\ running' = running /\ ints' = ints /\ irq_depth' = irq_depth /\ interrupts' = interrupts
      /\ saved' = saved /\ raced' = raced /\ overwritten' = overwritten
  BY IrqActs DEF IrqLock!Draw, IrqLock!cpuvars
<1>2. IrqBooks'
  BY <1>1, IrqQueue
<1>3. CASE x \in Threads
  <2>1. running[Home[x]] = x /\ pc[Home[x]] = "idle"
    BY <1>3, GuardConstants, IrqActs DEF IrqLock!Draw
  <2>2. Home[x] \notin raced => /\ irq_depth'[Home[x]] = IF "wait" \in Counted THEN 1 ELSE 0
                                /\ "wait" \in Off => ~ints'[Home[x]]
    BY <1>1, <1>3, <2>1, IrqSameCount DEF Counted, Off
  <2>3. Home[x] \notin raced \cup overwritten' => interrupts'
    BY <1>1, <1>3, IrqFacts DEF IrqFlags
  <2>4. "wait" \in Counted
    BY DEF Counted
  <2>5. IrqTypes' /\ IrqLeaves' /\ IrqFlags'
    BY <1>1, <1>3, <2>1, <2>2, <2>3, <2>4, IrqFacts, IrqThreadStep
  <2>. QED
    BY <1>2, <2>5 DEF IrqInv
<1>4. CASE x \in Cpus
  <2>1. IrqTypes' /\ IrqLeaves' /\ IrqFlags'
    BY <1>1, <1>4, IrqFacts, IrqHandlerStep
  <2>. QED
    BY <1>2, <2>1 DEF IrqInv
<1>. QED
  BY <1>3, <1>4 DEF Contexts

LEMMA IrqServed ==
  ASSUME IrqInv, NEW x \in Contexts, IrqLock!Served(x)
  PROVE  IrqInv'
<1>1. /\ pc[x] = "wait" /\ pc' = [pc EXCEPT ![x] = "held"] /\ queue' = queue /\ Head(queue) = x
      /\ running' = running /\ ints' = ints /\ irq_depth' = irq_depth /\ interrupts' = interrupts
      /\ saved' = saved /\ raced' = raced /\ overwritten' = overwritten
  BY IrqActs DEF IrqLock!Served, IrqLock!cpuvars, IrqLock!lockvars
<1>2. queue[1] = x
  <2>1. \E i \in 1..Len(queue) : queue[i] = x
    BY <1>1, IrqFacts DEF IrqBooks, QueueBooks, InOrder
  <2>. QED
    BY <1>1, <2>1, IrqFacts
<1>3. IrqBooks'
  BY <1>1, <1>2, IrqQueue
<1>4. CASE x \in Threads
  <2>1. running[Home[x]] = x /\ pc[Home[x]] = "idle"
    BY <1>4, GuardConstants, IrqActs DEF IrqLock!Served
  <2>2. Home[x] \notin raced => /\ irq_depth'[Home[x]] = IF "held" \in Counted THEN 1 ELSE 0
                                /\ "held" \in Off => ~ints'[Home[x]]
    BY <1>1, <1>4, <2>1, IrqSameCount DEF Counted, Off
  <2>3. Home[x] \notin raced \cup overwritten' => interrupts'
    BY <1>1, <1>4, IrqFacts DEF IrqFlags
  <2>4. "held" \in Counted
    BY DEF Counted
  <2>5. IrqTypes' /\ IrqLeaves' /\ IrqFlags'
    BY <1>1, <1>4, <2>1, <2>2, <2>3, <2>4, IrqFacts, IrqThreadStep
  <2>. QED
    BY <1>3, <2>5 DEF IrqInv
<1>5. CASE x \in Cpus
  <2>1. IrqTypes' /\ IrqLeaves' /\ IrqFlags'
    BY <1>1, <1>5, IrqFacts, IrqHandlerStep
  <2>. QED
    BY <1>3, <2>1 DEF IrqInv
<1>. QED
  BY <1>4, <1>5 DEF Contexts

LEMMA IrqUnlock ==
  ASSUME IrqInv, NEW x \in Contexts, IrqLock!Unlock(x)
  PROVE  IrqInv'
<1>1. /\ pc[x] = "held" /\ queue' = Tail(queue)
      /\ running' = running /\ ints' = ints /\ irq_depth' = irq_depth /\ interrupts' = interrupts
      /\ saved' = saved /\ raced' = raced /\ overwritten' = overwritten
  BY DEF IrqLock!Unlock, IrqLock!From, IrqLock!cpuvars
<1>2. ASSUME NEW m \in {"load", "return"}, pc' = [pc EXCEPT ![x] = m] PROVE IrqBooks'
  <2>1. m \notin {"wait", "held"}
    OBVIOUS
  <2>. QED
    BY <1>1, <1>2, <2>1, IrqQueue
<1>3. CASE x \in Threads
  <2>1. running[Home[x]] = x /\ pc[Home[x]] = "idle" /\ pc' = [pc EXCEPT ![x] = "load"]
    BY <1>3, GuardConstants, IrqActs DEF IrqLock!Unlock
  <2>2. Home[x] \notin raced => /\ irq_depth'[Home[x]] = IF "load" \in Counted THEN 1 ELSE 0
                                /\ "load" \in Off => ~ints'[Home[x]]
    BY <1>1, <1>3, <2>1, IrqSameCount DEF Counted, Off
  <2>3. Home[x] \notin raced \cup overwritten' => interrupts'
    BY <1>1, <1>3, IrqFacts DEF IrqFlags
  <2>4. "load" \in Counted
    BY DEF Counted
  <2>5. IrqTypes' /\ IrqLeaves' /\ IrqFlags'
    BY <1>1, <1>3, <2>1, <2>2, <2>3, <2>4, IrqFacts, IrqThreadStep
  <2>. QED
    BY <1>2, <2>1, <2>5 DEF IrqInv
<1>4. CASE x \in Cpus
  <2>1. pc' = [pc EXCEPT ![x] = "return"]
    BY <1>4, GuardConstants, IrqActs DEF IrqLock!Unlock
  <2>2. IrqTypes' /\ IrqLeaves' /\ IrqFlags'
    BY <1>1, <1>4, <2>1, IrqFacts, IrqHandlerStep
  <2>. QED
    BY <1>2, <2>1, <2>2 DEF IrqInv
<1>. QED
  BY <1>3, <1>4 DEF Contexts

\* _interrupts is written by whoever comes next; whose flag that changes is
\* counted as overwritten.
LEMMA IrqStore ==
  ASSUME IrqInv, NEW x \in Contexts, IrqLock!Store(x)
  PROVE  IrqInv'
<1>. DEFINE saving == {t \in Threads : pc[t] \in {"draw", "wait", "held", "load"}}
<1>1. /\ pc[x] = "store" /\ pc' = [pc EXCEPT ![x] = "draw"] /\ queue' = queue
      /\ running' = running /\ ints' = ints /\ irq_depth' = irq_depth
      /\ saved' = saved /\ raced' = raced
      /\ interrupts' = saved[x]
      /\ overwritten' = IF interrupts = saved[x] THEN overwritten
                        ELSE overwritten \cup ({Home[t] : t \in saving} \ {IrqLock!CpuOf(x)})
  BY IrqActs DEF IrqLock!Store, IrqLock!cpuvars
<1>2. IrqBooks'
  BY <1>1, IrqQueue
<1>3. overwritten \subseteq overwritten' /\ interrupts' \in BOOLEAN
  BY <1>1, IrqFacts
<1>4. ASSUME NEW u \in Threads, Home[u] # IrqLock!CpuOf(x), Home[u] \notin overwritten',
             pc[u] \in {"draw", "wait", "held", "load"}
      PROVE  interrupts = interrupts'
  BY <1>1, <1>4
<1>5. CASE x \in Threads
  <2>1. running[Home[x]] = x /\ pc[Home[x]] = "idle" /\ IrqLock!CpuOf(x) = Home[x]
    BY <1>5, GuardConstants, IrqActs DEF IrqLock!Store, IrqLock!CpuOf
  <2>2. Home[x] \notin raced => /\ irq_depth'[Home[x]] = IF "draw" \in Counted THEN 1 ELSE 0
                                /\ "draw" \in Off => ~ints'[Home[x]]
    BY <1>1, <1>5, <2>1, IrqSameCount DEF Counted, Off
  <2>3. Home[x] \notin raced \cup overwritten' => interrupts'
    BY <1>1, <1>3, <1>5, IrqFacts DEF IrqFlags
  <2>4. "draw" \in Counted
    BY DEF Counted
  <2>5. IrqTypes' /\ IrqLeaves' /\ IrqFlags'
    <3>1. /\ pc' = [pc EXCEPT ![x] = "draw"] /\ running' = running /\ raced' = raced
          /\ irq_depth' \in [Cpus -> Int] /\ ints' \in [Cpus -> BOOLEAN]
          /\ \A d \in Cpus : irq_depth'[d] = irq_depth[d] /\ ints'[d] = ints[d]
          /\ saved' = saved /\ saved \in [Contexts -> BOOLEAN]
      BY <1>1, IrqFacts
    <3>. QED
      BY <1>3, <1>4, <1>5, <2>1, <2>2, <2>3, <2>4, <3>1, IrqThreadStep
  <2>. QED
    BY <1>2, <2>5 DEF IrqInv
<1>6. CASE x \in Cpus
  <2>1. IrqLock!CpuOf(x) = x
    BY <1>6 DEF IrqLock!CpuOf
  <2>2. IrqTypes' /\ IrqLeaves' /\ IrqFlags'
    <3>1. /\ pc[x] # "idle" /\ pc' = [pc EXCEPT ![x] = "draw"] /\ running' = running
          /\ raced' = raced /\ irq_depth' = irq_depth /\ ints' \in [Cpus -> BOOLEAN]
          /\ \A d \in Cpus : ints'[d] = ints[d]
          /\ saved' = saved /\ saved \in [Contexts -> BOOLEAN]
      BY <1>1, IrqFacts
    <3>. QED
      BY <1>3, <1>4, <1>6, <2>1, <3>1, IrqHandlerStep, ZenonT(30)
  <2>. QED
    BY <1>2, <2>2 DEF IrqInv
<1>. QED
  BY <1>5, <1>6 DEF Contexts

LEMMA IrqStatus ==
  ASSUME IrqInv, NEW t \in Threads, IrqLock!Status(t)
  PROVE  IrqInv'
<1>1. /\ pc[t] = "idle" /\ pc' = [pc EXCEPT ![t] = "count"] /\ queue' = queue
      /\ running[Home[t]] = t /\ pc[Home[t]] = "idle"
      /\ running' = running /\ ints' = ints /\ irq_depth' = irq_depth /\ interrupts' = interrupts
      /\ saved' = [saved EXCEPT ![t] = ints[Home[t]]]
      /\ raced' = raced /\ overwritten' = overwritten
  BY IrqActs, IrqFacts DEF IrqLock!Status, IrqLock!cpuvars, IrqLock!lockvars
<1>2. IrqBooks'
  BY <1>1, IrqFacts, IrqQueue
<1>3. "count" \notin Counted /\ "count" \notin Off
  BY DEF Counted, Off
<1>4. Home[t] \notin raced => irq_depth'[Home[t]] = IF "count" \in Counted THEN 1 ELSE 0
  BY <1>1, <1>3, IrqSameCount DEF Counted
<1>5. Home[t] \notin raced \cup overwritten' => ints[Home[t]]
  BY <1>1, IrqFacts DEF IrqFlags
<1>6. saved' \in [Contexts -> BOOLEAN] /\ saved'[t] = ints[Home[t]]
      /\ \A u \in Contexts : u # t => saved'[u] = saved[u]
  BY <1>1, IrqFacts
<1>7. IrqTypes' /\ IrqLeaves' /\ IrqFlags'
  <2>1. Home[t] \notin raced \cup overwritten' => saved'[t] /\ ints'[Home[t]]
    BY <1>1, <1>5, <1>6
  <2>2. /\ irq_depth' \in [Cpus -> Int] /\ ints' \in [Cpus -> BOOLEAN] /\ interrupts' \in BOOLEAN
        /\ interrupts' = interrupts
        /\ \A d \in Cpus : irq_depth'[d] = irq_depth[d] /\ ints'[d] = ints[d]
        /\ pc' = [pc EXCEPT ![t] = "count"] /\ running[Home[t]] = t /\ pc[Home[t]] = "idle"
        /\ running' = running /\ raced' = raced /\ overwritten' = overwritten
    BY <1>1, IrqFacts
  <2>. QED
    BY <1>3, <1>4, <1>6, <2>1, <2>2, IrqThreadStep, ZenonT(30)
<1>. QED
  BY <1>2, <1>7 DEF IrqInv

\* A thread that is counted by itself is the first, until its CPU has raced.
LEMMA IrqCount ==
  ASSUME IrqInv, NEW t \in Threads, IrqLock!Count(t)
  PROVE  IrqInv'
<1>1. PICK m \in {"cli", "store"} :
      /\ pc[t] = "count" /\ pc' = [pc EXCEPT ![t] = m] /\ queue' = queue
      /\ m = IF irq_depth[Home[t]] = 0 THEN "cli" ELSE "store"
      /\ running[Home[t]] = t /\ pc[Home[t]] = "idle"
      /\ running' = running /\ ints' = ints /\ interrupts' = interrupts
      /\ irq_depth' = [irq_depth EXCEPT ![Home[t]] = @ + 1]
      /\ saved' = saved /\ raced' = raced /\ overwritten' = overwritten
  <2>1. IrqLock!From(t, "count", IF irq_depth[Home[t]] = 0 THEN "cli" ELSE "store")
    BY DEF IrqLock!Count, IrqLock!First
  <2>2. /\ running' = running /\ ints' = ints /\ interrupts' = interrupts /\ queue' = queue
        /\ irq_depth' = [irq_depth EXCEPT ![Home[t]] = @ + 1]
        /\ saved' = saved /\ raced' = raced /\ overwritten' = overwritten
    BY DEF IrqLock!Count, IrqLock!lockvars
  <2>3. /\ pc[t] = "count" /\ running[Home[t]] = t /\ pc[Home[t]] = "idle"
        /\ pc' = [pc EXCEPT ![t] = IF irq_depth[Home[t]] = 0 THEN "cli" ELSE "store"]
    BY <2>1, IrqActs, IrqFacts
  <2>. QED
    BY <2>2, <2>3
<1>2. IrqBooks'
  BY <1>1, IrqFacts, IrqQueue
<1>3. {"cli", "store"} \subseteq Counted /\ "cli" \notin Off
  BY DEF Counted, Off
<1>4. Home[t] \notin raced => irq_depth[Home[t]] = 0
  BY <1>1, IrqFacts DEF IrqLeaves, Counted
<1>5. /\ irq_depth' \in [Cpus -> Int]
      /\ \A d \in Cpus : d # Home[t] => irq_depth'[d] = irq_depth[d]
      /\ Home[t] \notin raced => irq_depth'[Home[t]] = 1 /\ m = "cli"
  BY <1>1, <1>4, IrqFacts
<1>6. Home[t] \notin raced \cup overwritten' => saved[t] /\ ints[Home[t]]
  BY <1>1, IrqFacts DEF IrqFlags
<1>7. IrqTypes' /\ IrqLeaves' /\ IrqFlags'
  <2>1. /\ m \in Counted /\ m \notin {"draw", "wait", "held", "load"}
        /\ ints' \in [Cpus -> BOOLEAN] /\ saved' \in [Contexts -> BOOLEAN] /\ interrupts' \in BOOLEAN
    BY <1>1, <1>3, IrqFacts
  <2>2. Home[t] \notin raced => m \notin Off
    BY <1>3, <1>5
  <2>3. Home[t] \notin raced \cup overwritten' => saved'[t] /\ ints'[Home[t]]
    BY <1>1, <1>6
  <2>4. /\ \A d \in Cpus : ints'[d] = ints[d]
        /\ interrupts' = interrupts /\ saved' = saved
        /\ pc' = [pc EXCEPT ![t] = m] /\ running[Home[t]] = t /\ pc[Home[t]] = "idle"
        /\ running' = running /\ raced' = raced /\ overwritten' = overwritten
    BY <1>1
  <2>5. m \in Counted \cup {"idle", "count", "switch"}
    BY <2>1
  <2>6. Home[t] \notin raced => /\ irq_depth'[Home[t]] = IF m \in Counted THEN 1 ELSE 0
                                /\ m \in Off => ~ints'[Home[t]]
    BY <1>5, <2>1, <2>2
  <2>7. Home[t] \notin raced \cup overwritten' =>
          /\ m \in {"count", "cli", "store", "sub", "switch"} => saved'[t]
          /\ m \in {"draw", "wait", "held", "load"} => interrupts'
          /\ m \in {"idle", "count", "cli"} => ints'[Home[t]]
    BY <2>1, <2>3
  <2>8. irq_depth' \in [Cpus -> Int]
        /\ \A d \in Cpus : d # Home[t] => irq_depth'[d] = irq_depth[d] /\ ints'[d] = ints[d]
    BY <1>5, <2>4
  <2>9. ints' \in [Cpus -> BOOLEAN] /\ saved' \in [Contexts -> BOOLEAN] /\ interrupts' \in BOOLEAN
    BY <2>1
  <2>. QED
    BY <2>4, <2>5, <2>6, <2>7, <2>8, <2>9, IrqThreadStep
<1>. QED
  BY <1>2, <1>7 DEF IrqInv

LEMMA IrqSwitchOff ==
  ASSUME IrqInv, NEW t \in Threads, IrqLock!SwitchOff(t)
  PROVE  IrqInv'
<1>1. /\ pc[t] = "cli" /\ pc' = [pc EXCEPT ![t] = "store"] /\ queue' = queue
      /\ running[Home[t]] = t /\ pc[Home[t]] = "idle"
      /\ running' = running /\ irq_depth' = irq_depth /\ interrupts' = interrupts
      /\ ints' = [ints EXCEPT ![Home[t]] = FALSE]
      /\ saved' = saved /\ raced' = raced /\ overwritten' = overwritten
  BY IrqActs, IrqFacts DEF IrqLock!SwitchOff, IrqLock!lockvars
<1>2. IrqBooks'
  BY <1>1, IrqFacts, IrqQueue
<1>3. "store" \in Counted
  BY DEF Counted
<1>4. Home[t] \notin raced => irq_depth'[Home[t]] = IF "store" \in Counted THEN 1 ELSE 0
  BY <1>1, IrqFacts DEF IrqLeaves, Counted
<1>5. ints' \in [Cpus -> BOOLEAN] /\ ~ints'[Home[t]]
      /\ \A d \in Cpus : d # Home[t] => ints'[d] = ints[d]
  BY <1>1, IrqFacts
<1>6. Home[t] \notin raced \cup overwritten' => saved[t]
  BY <1>1, IrqFacts DEF IrqFlags
<1>7. IrqTypes' /\ IrqLeaves' /\ IrqFlags'
  BY <1>1, <1>3, <1>4, <1>5, <1>6, IrqFacts, IrqThreadStep, ZenonT(30)
<1>. QED
  BY <1>2, <1>7 DEF IrqInv

LEMMA IrqLoad ==
  ASSUME IrqInv, NEW t \in Threads, IrqLock!Load(t)
  PROVE  IrqInv'
<1>1. /\ pc[t] = "load" /\ pc' = [pc EXCEPT ![t] = "sub"] /\ queue' = queue
      /\ running[Home[t]] = t /\ pc[Home[t]] = "idle"
      /\ running' = running /\ ints' = ints /\ irq_depth' = irq_depth /\ interrupts' = interrupts
      /\ saved' = [saved EXCEPT ![t] = interrupts]
      /\ raced' = raced /\ overwritten' = overwritten
  BY IrqActs, IrqFacts DEF IrqLock!Load, IrqLock!cpuvars, IrqLock!lockvars
<1>2. IrqBooks'
  BY <1>1, IrqFacts, IrqQueue
<1>3. "sub" \in Counted
  BY DEF Counted
<1>4. Home[t] \notin raced => /\ irq_depth'[Home[t]] = IF "sub" \in Counted THEN 1 ELSE 0
                              /\ "sub" \in Off => ~ints'[Home[t]]
  BY <1>1, IrqSameCount DEF Counted, Off
<1>5. Home[t] \notin raced \cup overwritten' => interrupts
  BY <1>1, IrqFacts DEF IrqFlags
<1>6. saved' \in [Contexts -> BOOLEAN] /\ saved'[t] = interrupts
      /\ \A u \in Contexts : u # t => saved'[u] = saved[u]
  BY <1>1, IrqFacts
<1>7. IrqTypes' /\ IrqLeaves' /\ IrqFlags'
  BY <1>1, <1>3, <1>4, <1>5, <1>6, IrqFacts, IrqThreadStep
<1>. QED
  BY <1>2, <1>7 DEF IrqInv

LEMMA IrqSub ==
  ASSUME IrqInv, NEW t \in Threads, IrqLock!Sub(t)
  PROVE  IrqInv'
<1>1. PICK m \in {"switch", "idle"} :
      /\ pc[t] = "sub" /\ pc' = [pc EXCEPT ![t] = m] /\ queue' = queue
      /\ m = IF irq_depth[Home[t]] = 1 THEN "switch" ELSE "idle"
      /\ running[Home[t]] = t /\ pc[Home[t]] = "idle"
      /\ running' = running /\ ints' = ints /\ interrupts' = interrupts
      /\ irq_depth' = [irq_depth EXCEPT ![Home[t]] = @ - 1]
      /\ saved' = saved /\ raced' = raced /\ overwritten' = overwritten
  <2>1. IrqLock!From(t, "sub", IF irq_depth[Home[t]] = 1 THEN "switch" ELSE "idle")
    BY DEF IrqLock!Sub
  <2>2. /\ running' = running /\ ints' = ints /\ interrupts' = interrupts /\ queue' = queue
        /\ irq_depth' = [irq_depth EXCEPT ![Home[t]] = @ - 1]
        /\ saved' = saved /\ raced' = raced /\ overwritten' = overwritten
    BY DEF IrqLock!Sub, IrqLock!lockvars
  <2>3. /\ pc[t] = "sub" /\ running[Home[t]] = t /\ pc[Home[t]] = "idle"
        /\ pc' = [pc EXCEPT ![t] = IF irq_depth[Home[t]] = 1 THEN "switch" ELSE "idle"]
    BY <2>1, IrqActs, IrqFacts
  <2>. QED
    BY <2>2, <2>3
<1>2. IrqBooks'
  BY <1>1, IrqFacts, IrqQueue
<1>3. m \notin Counted /\ m \notin {"draw", "wait", "held", "load"}
  BY DEF Counted
<1>4. Home[t] \notin raced => irq_depth[Home[t]] = 1 /\ ~ints[Home[t]]
  BY <1>1, IrqFacts DEF IrqLeaves, Counted, Off
<1>5. /\ irq_depth' \in [Cpus -> Int]
      /\ \A d \in Cpus : d # Home[t] => irq_depth'[d] = irq_depth[d]
      /\ Home[t] \notin raced => irq_depth'[Home[t]] = 0 /\ m = "switch"
  BY <1>1, <1>4, IrqFacts
<1>6. Home[t] \notin raced \cup overwritten' => saved[t]
  BY <1>1, IrqFacts DEF IrqFlags
<1>7. IrqTypes' /\ IrqLeaves' /\ IrqFlags'
  <2>1. /\ ints' \in [Cpus -> BOOLEAN] /\ saved' \in [Contexts -> BOOLEAN]
        /\ interrupts' \in BOOLEAN
    BY <1>1, IrqFacts
  <2>. QED
    BY <1>1, <1>3, <1>4, <1>5, <1>6, <2>1, IrqThreadStep, ZenonT(30)
<1>. QED
  BY <1>2, <1>7 DEF IrqInv

LEMMA IrqSwitchBack ==
  ASSUME IrqInv, NEW t \in Threads, IrqLock!SwitchBack(t)
  PROVE  IrqInv'
<1>1. /\ pc[t] = "switch" /\ pc' = [pc EXCEPT ![t] = "idle"] /\ queue' = queue
      /\ running[Home[t]] = t /\ pc[Home[t]] = "idle"
      /\ running' = running /\ irq_depth' = irq_depth /\ interrupts' = interrupts
      /\ ints' = [ints EXCEPT ![Home[t]] = saved[t]]
      /\ saved' = saved /\ raced' = raced /\ overwritten' = overwritten
  BY IrqActs, IrqFacts DEF IrqLock!SwitchBack, IrqLock!lockvars
<1>2. IrqBooks'
  BY <1>1, IrqFacts, IrqQueue
<1>3. "idle" \notin Counted /\ "idle" \notin Off
  BY DEF Counted, Off
<1>4. Home[t] \notin raced => irq_depth'[Home[t]] = IF "idle" \in Counted THEN 1 ELSE 0
  BY <1>1, IrqFacts DEF IrqLeaves, Counted
<1>5. ints' \in [Cpus -> BOOLEAN] /\ ints'[Home[t]] = saved[t]
      /\ \A d \in Cpus : d # Home[t] => ints'[d] = ints[d]
  BY <1>1, IrqFacts
<1>6. Home[t] \notin raced \cup overwritten' => saved[t]
  BY <1>1, IrqFacts DEF IrqFlags
<1>7. IrqTypes' /\ IrqLeaves' /\ IrqFlags'
  BY <1>1, <1>3, <1>4, <1>5, <1>6, IrqFacts, IrqThreadStep
<1>. QED
  BY <1>2, <1>7 DEF IrqInv

LEMMA IrqDevice ==
  ASSUME IrqInv, NEW c \in Cpus, IrqLock!DeviceInterrupt(c) \/ IrqLock!DeviceReturn(c)
  PROVE  IrqInv'
<1>1. CASE IrqLock!DeviceInterrupt(c)
  <2>1. /\ ints[c] /\ pc[c] = "idle" /\ pc' = [pc EXCEPT ![c] = "store"] /\ queue' = queue
        /\ running' = running /\ irq_depth' = irq_depth /\ interrupts' = interrupts
        /\ ints' = [ints EXCEPT ![c] = FALSE] /\ saved' = [saved EXCEPT ![c] = FALSE]
        /\ raced' = raced /\ overwritten' = overwritten
    BY <1>1 DEF IrqLock!DeviceInterrupt, IrqLock!InInterrupt, IrqLock!lockvars
  <2>2. IrqBooks'
    BY <2>1, IrqFacts, IrqQueue
  <2>3. /\ ints' \in [Cpus -> BOOLEAN] /\ \A d \in Cpus : d # c => ints'[d] = ints[d]
        /\ saved' \in [Contexts -> BOOLEAN] /\ \A u \in Threads : saved'[u] = saved[u]
    <3>1. /\ ints \in [Cpus -> BOOLEAN] /\ saved \in [Contexts -> BOOLEAN] /\ c \in Contexts
          /\ \A u \in Threads : u \in Contexts /\ u # c
      BY IrqFacts
    <3>. QED
      BY <2>1, <3>1, Zenon
  <2>4. IrqTypes' /\ IrqLeaves' /\ IrqFlags'
    BY <2>1, <2>3, IrqFacts, IrqHandlerStep
  <2>. QED
    BY <2>2, <2>4 DEF IrqInv
<1>2. CASE IrqLock!DeviceReturn(c)
  <2>1. /\ pc[c] = "return" /\ pc' = [pc EXCEPT ![c] = "idle"] /\ queue' = queue
        /\ running' = running /\ irq_depth' = irq_depth /\ interrupts' = interrupts
        /\ ints' = [ints EXCEPT ![c] = TRUE] /\ saved' = saved
        /\ raced' = raced /\ overwritten' = overwritten
    BY <1>2 DEF IrqLock!DeviceReturn, IrqLock!From, IrqLock!lockvars
  <2>2. IrqBooks'
    BY <2>1, IrqFacts, IrqQueue
  <2>3. /\ ints' \in [Cpus -> BOOLEAN] /\ ints'[c] /\ \A d \in Cpus : d # c => ints'[d] = ints[d]
    BY <2>1, IrqFacts
  <2>4. IrqTypes' /\ IrqLeaves' /\ IrqFlags'
    BY <2>1, <2>3, IrqFacts, IrqHandlerStep
  <2>. QED
    BY <2>2, <2>4 DEF IrqInv
<1>. QED
  BY <1>1, <1>2

\* A CPU whose interrupts are on leaves a thread that has not counted itself,
\* or has counted itself and not switched them off, which is the race.
LEMMA IrqSwitch ==
  ASSUME IrqInv, NEW c \in Cpus, NEW t \in Threads, IrqLock!Switch(c, t)
  PROVE  IrqInv'
<1>1. /\ Home[t] = c /\ ints[c] /\ pc[c] = "idle" /\ pc' = pc /\ queue' = queue
      /\ running' = [running EXCEPT ![c] = t]
      /\ raced' = IF pc[running[c]] = "cli" THEN raced \cup {c} ELSE raced
      /\ irq_depth' = irq_depth /\ ints' = ints /\ interrupts' = interrupts
      /\ saved' = saved /\ overwritten' = overwritten
  BY DEF IrqLock!Switch, IrqLock!Preemptible, IrqLock!InInterrupt, IrqLock!lockvars
<1>2. /\ running' \in [Cpus -> Threads] /\ running'[c] = t
      /\ \A d \in Cpus : d # c => running'[d] = running[d]
  BY <1>1, IrqFacts
<1>3. IrqTypes'
  <2>1. RunningHome'
    BY <1>1, <1>2, IrqFacts DEF RunningHome
  <2>. QED
    BY <1>1, <2>1, IrqFacts DEF IrqTypes, Contexts
<1>4. IrqBooks'
  BY <1>1, IrqFacts DEF IrqBooks, QueueBooks, InOrder, Contexts
<1>5. ASSUME c \notin raced'
      PROVE  /\ c \notin raced /\ irq_depth[c] = 0
             /\ \A u \in Threads : Home[u] = c => pc[u] \in {"idle", "count"}
  <2>1. c \notin raced /\ pc[running[c]] # "cli"
    BY <1>1, <1>5
  <2>2. pc[running[c]] \notin Off
    BY <1>1, <2>1, IrqFacts DEF IrqLeaves
  <2>3. pc[running[c]] \in {"idle", "count"}
    BY <2>1, <2>2, IrqFacts DEF IrqTypes, Off, Counted
  <2>4. irq_depth[c] = 0
    BY <2>1, <2>3, IrqFacts DEF IrqLeaves, Counted
  <2>. QED
    BY <2>1, <2>3, <2>4, IrqFacts DEF IrqLeaves
<1>6. raced \subseteq raced'
  BY <1>1
<1>7. IrqLeaves'
  <2>. SUFFICES ASSUME NEW d \in Cpus \ raced'
       PROVE  /\ \A u \in Threads : Home[u] = d /\ u # running'[d] => pc[u] \in {"idle", "count"}
              /\ irq_depth[d] = IF pc[running'[d]] \in Counted THEN 1 ELSE 0
              /\ pc[running'[d]] \in Off => ~ints[d] /\ pc[d] = "idle"
    BY <1>1 DEF IrqLeaves
  <2>1. CASE d = c
    <3>1. pc[t] \in {"idle", "count"} /\ pc[t] \notin Counted /\ pc[t] \notin Off
      BY <1>1, <1>5, <2>1 DEF Counted, Off
    <3>. QED
      BY <1>2, <1>5, <2>1, <3>1
  <2>2. CASE d # c
    BY <1>2, <1>6, <2>2, IrqFacts DEF IrqLeaves
  <2>. QED
    BY <2>1, <2>2
<1>8. IrqFlags'
  <2>. SUFFICES ASSUME NEW d \in Cpus \ (raced' \cup overwritten)
       PROVE  /\ \A u \in Threads : Home[u] = d =>
                   /\ pc[u] \in {"count", "cli", "store", "sub", "switch"} => saved[u]
                   /\ pc[u] \in {"draw", "wait", "held", "load"} => interrupts
              /\ pc[d] = "idle" /\ pc[running'[d]] \in {"idle", "count", "cli"} => ints[d]
    BY <1>1 DEF IrqFlags
  <2>1. d \in Cpus \ (raced \cup overwritten)
    BY <1>6
  <2>2. CASE d = c
    BY <1>1, <2>1, <2>2, IrqFacts DEF IrqFlags
  <2>3. CASE d # c
    BY <1>2, <2>1, <2>3, IrqFacts DEF IrqFlags
  <2>. QED
    BY <2>2, <2>3
<1>. QED
  BY <1>3, <1>4, <1>7, <1>8 DEF IrqInv

LEMMA IrqNext == IrqInv /\ IrqLock!Next => IrqInv'
<1>. SUFFICES ASSUME IrqInv, IrqLock!Next PROVE IrqInv'
  OBVIOUS
<1>1. ASSUME NEW x \in Contexts, IrqLock!Draw(x) PROVE IrqInv'
  BY <1>1, IrqDraw
<1>2. ASSUME NEW x \in Contexts, IrqLock!Served(x) PROVE IrqInv'
  BY <1>2, IrqServed
<1>3. ASSUME NEW x \in Contexts, IrqLock!Unlock(x) PROVE IrqInv'
  BY <1>3, IrqUnlock
<1>4. ASSUME NEW x \in Contexts, IrqLock!Store(x) PROVE IrqInv'
  BY <1>4, IrqStore
<1>5. ASSUME NEW t \in Threads,
             \/ IrqLock!Status(t) \/ IrqLock!Count(t) \/ IrqLock!SwitchOff(t)
             \/ IrqLock!Load(t) \/ IrqLock!Sub(t) \/ IrqLock!SwitchBack(t)
      PROVE  IrqInv'
  BY <1>5, IrqStatus, IrqCount, IrqSwitchOff, IrqLoad, IrqSub, IrqSwitchBack
<1>6. ASSUME NEW t \in Threads
      PROVE  ~IrqLock!Lock(t) /\ ~IrqLock!Disable(t) /\ ~IrqLock!Enable(t)
  <2>1. pc[t] \in IrqLabels
    BY IrqFacts
  <2>. QED
    BY <2>1 DEF IrqLock!Lock, IrqLock!Disable, IrqLock!Enable, IrqLock!From, IrqLabels, Counted
<1>7. ASSUME NEW c \in Cpus, IrqLock!DeviceInterrupt(c) \/ IrqLock!DeviceReturn(c) PROVE IrqInv'
  BY <1>7, IrqDevice
<1>8. \A c \in Cpus : ~IrqLock!Schedule(c)
  BY DEF IrqLock!Schedule
<1>9. ASSUME NEW c \in Cpus, NEW t \in Threads, IrqLock!Switch(c, t) PROVE IrqInv'
  BY <1>9, IrqSwitch
<1>. QED
  BY <1>1, <1>2, <1>3, <1>4, <1>5, <1>6, <1>7, <1>8, <1>9 DEF IrqLock!Next, Contexts

LEMMA OneCounted ==
  ASSUME NEW S, NEW x
  PROVE  IrqLock!Cardinality({}) = 0 /\ (S = {x} => IrqLock!Cardinality(S) = 1)
<1>1. \A T : IrqLock!Cardinality(T) = Cardinality(T)
  BY DEF IrqLock!Cardinality, Cardinality, IrqLock!IsFiniteSet, IsFiniteSet
<1>. QED
  BY <1>1, FS_EmptySet, FS_Singleton

LEMMA IrqInvSound == IrqInv => IrqLock!IrqGuardsHold
<1>. SUFFICES ASSUME IrqInv, NEW c \in Cpus \ raced
     PROVE  /\ \A t \in Threads : Home[t] = c => ~IrqLock!Behind(c, t)
            /\ \A t, u \in Threads : Home[t] = c /\ Home[u] = c => ~IrqLock!Behind(t, u)
            /\ irq_depth[c] = IrqLock!Cardinality(
                 {t \in Threads : Home[t] = c /\ pc[t] \in
                    {"cli", "store", "draw", "wait", "held", "load", "sub"}})
            /\ c \in overwritten \/ IrqLock!Guarded(c) \/ IrqLock!InInterrupt(c) \/ ints[c]
  BY DEF IrqLock!IrqGuardsHold
<1>. DEFINE r == running[c]
<1>1. /\ r \in Threads /\ Home[r] = c
      /\ \A t \in Threads : Home[t] = c /\ t # r => pc[t] \in {"idle", "count"}
      /\ irq_depth[c] = IF pc[r] \in Counted THEN 1 ELSE 0
      /\ pc[r] \in Off => pc[c] = "idle"
  BY IrqFacts DEF IrqLeaves
<1>2. ASSUME NEW x \in Contexts, NEW y \in Contexts, IrqLock!Behind(x, y)
      PROVE  x # y /\ pc[x] \in {"wait", "held"} /\ pc[y] \in {"wait", "held"}
  <2>1. PICK i \in 1..Len(queue), j \in 1..Len(queue) : i < j /\ queue[i] = y /\ queue[j] = x
    BY <1>2, IrqFacts DEF IrqLock!Behind
  <2>. QED
    BY <2>1, IrqFacts DEF IrqBooks, QueueBooks, InOrder
<1>3. ASSUME NEW t \in Threads, Home[t] = c PROVE ~IrqLock!Behind(c, t)
  <2>. SUFFICES ASSUME IrqLock!Behind(c, t) PROVE FALSE
    OBVIOUS
  <2>1. pc[c] \in {"wait", "held"} /\ pc[t] \in {"wait", "held"}
    BY <1>2, IrqFacts
  <2>2. t = r /\ pc[r] \in Off
    BY <1>1, <1>3, <2>1 DEF Off
  <2>. QED
    BY <1>1, <2>1, <2>2
<1>4. ASSUME NEW t \in Threads, NEW u \in Threads, Home[t] = c, Home[u] = c
      PROVE  ~IrqLock!Behind(t, u)
  <2>. SUFFICES ASSUME IrqLock!Behind(t, u) PROVE FALSE
    OBVIOUS
  <2>1. t # u /\ pc[t] \in {"wait", "held"} /\ pc[u] \in {"wait", "held"}
    BY <1>2, IrqFacts
  <2>. QED
    BY <1>1, <1>4, <2>1
<1>5. irq_depth[c] = IrqLock!Cardinality(
         {t \in Threads : Home[t] = c /\ pc[t] \in
            {"cli", "store", "draw", "wait", "held", "load", "sub"}})
  <2>. DEFINE S == {t \in Threads : Home[t] = c /\ pc[t] \in Counted}
  <2>1. pc[r] \in Counted => S = {r}
    BY <1>1 DEF Counted
  <2>2. pc[r] \notin Counted => S = {}
    BY <1>1 DEF Counted
  <2>. HIDE DEF S
  <2>3. irq_depth[c] = IrqLock!Cardinality(S)
    BY <1>1, <2>1, <2>2, OneCounted
  <2>. QED
    BY <2>3 DEF S, Counted
<1>6. c \in overwritten \/ IrqLock!Guarded(c) \/ IrqLock!InInterrupt(c) \/ ints[c]
  <2>. SUFFICES ASSUME c \notin overwritten, ~IrqLock!Guarded(c), ~IrqLock!InInterrupt(c)
                PROVE  ints[c]
    OBVIOUS
  <2>1. pc[r] \in {"idle", "count", "cli"} /\ pc[c] = "idle"
    BY <1>1 DEF IrqLock!Guarded, IrqLock!InInterrupt
  <2>. QED
    BY <2>1, IrqFacts DEF IrqFlags
<1>. QED
  BY <1>3, <1>4, <1>5, <1>6

\* spinlock_irq, for any CPUs and threads: until one of the two races that are
\* named happens to it, no handler or thread of a CPU waits for its own CPU, the
\* depth counts the threads inside, and a CPU that has left has its interrupts.
THEOREM IrqGuardsHoldInvariant == Spec => []IrqGuardsHold
<1>. DEFINE I == part = "irq" => IrqInv
<1>1. Init => I
  BY IrqInit DEF Init
<1>2. I /\ [Next]_vars => I'
  <2>. SUFFICES ASSUME I, [Next]_vars, part' = "irq" PROVE IrqInv'
    OBVIOUS
  <2>1. part = "irq" /\ IrqInv
    BY DEF Next, vars
  <2>2. CASE IrqLock!Next
    BY <2>1, <2>2, IrqNext
  <2>3. CASE UNCHANGED guardVars
    <3>1. IrqTypes' /\ IrqBooks'
      BY <2>1, <2>3 DEF guardVars, IrqInv, IrqTypes, IrqBooks, RunningHome, QueueBooks, InOrder,
        Contexts
    <3>2. IrqLeaves' /\ IrqFlags'
      BY <2>1, <2>3 DEF guardVars, IrqInv, IrqLeaves, IrqFlags
    <3>. QED
      BY <3>1, <3>2 DEF IrqInv
  <2>. QED
    BY <2>1, <2>2, <2>3 DEF Next, vars
<1>3. I => IrqGuardsHold
  BY IrqInvSound DEF IrqGuardsHold
<1>. QED
  BY <1>1, <1>2, <1>3, PTL DEF Spec

-----------------------------------------------------------------------------
(* The start of the processors.                                            *)

\* The entries of processors that the boot CPU starts.
Startable(i) == Processors!Usable(Entries[i]) /\ Entries[i].id # BspAid

SmpTypes ==
  /\ Processors!TypeOK
  /\ LimineMp \in BOOLEAN /\ info \in [proc : 0..Len(bases), flag : BOOLEAN]
  /\ Len(bases) # 0

\* The boot CPU goes through the entries in their order: it has seen every
\* processor before the one it looks at, has not touched those after it, and the
\* block in memory is for the one it waits for, or gave up.
SmpOrder ==
  /\ \A i \in DOMAIN Entries : Startable(i) =>
       LET a == Entries[i].id
       IN  /\ i < nxt => ap[a] \in {"flag", "entry", "online"} /\ (LimineMp => ap[a] = "online")
           /\ i > nxt => ap[a] = "off"
           /\ i = nxt /\ bsp = "start" => ap[a] = "off"
           /\ i = nxt /\ bsp # "start" => /\ info.proc = Len(bases) /\ bases[Len(bases)] = a
                                          /\ info.flag => ap[a] \in {"flag", "entry", "online"}
  /\ bsp = "wait" => nxt \in DOMAIN Entries /\ Startable(nxt)
  /\ bsp \in {"all", "done"} => nxt > Len(Entries) \/ Processors!Aps = {}

\* A processor's structure is its own, and no other has set itself online.
SmpOwn ==
  /\ \A a \in Processors!Aps : ap[a] \in {"proc", "flag", "entry", "online"} =>
       proc[a] \in 1..Len(bases) /\ bases[proc[a]] = a
  /\ \A k \in online : \E a \in Processors!Aps : ap[a] = "online" /\ proc[a] = k

SmpDone == bsp = "done" => \A a \in Processors!Aps : ap[a] = "online"

SmpInv == SmpTypes /\ SmpOrder /\ SmpOwn /\ SmpDone

LEMMA SmpConstants ==
  /\ Entries \in Seq([id : Nat, enabled : BOOLEAN, capable : BOOLEAN])
  /\ DOMAIN Entries = 1..Len(Entries) /\ Len(Entries) \in Nat
  /\ BspAid \in Processors!Ids /\ Builds \subseteq BOOLEAN
  /\ Processors!Aps = Processors!Ids \ {BspAid}
  /\ \A i, j \in DOMAIN Entries :
       Processors!Usable(Entries[i]) /\ Processors!Usable(Entries[j])
         /\ Entries[i].id = Entries[j].id => i = j
<1>1. Entries \in Seq([id : Nat, enabled : BOOLEAN, capable : BOOLEAN])
  BY PlatformAssumption DEF Processors!SmpAssumption
<1>. QED
  BY <1>1, PlatformAssumption DEF Processors!SmpAssumption, Processors!Aps

\* Each processor that is to be started has one entry.
LEMMA SmpEntries ==
  /\ \A a \in Processors!Aps : \E i \in DOMAIN Entries : Startable(i) /\ Entries[i].id = a
  /\ \A i \in DOMAIN Entries : Startable(i) => Entries[i].id \in Processors!Aps
  /\ \A i, j \in DOMAIN Entries :
       Startable(i) /\ Startable(j) /\ Entries[i].id = Entries[j].id => i = j
<1>1. \A a \in Processors!Ids : \E i \in DOMAIN Entries :
        Processors!Usable(Entries[i]) /\ Entries[i].id = a
  BY DEF Processors!Ids
<1>2. \A i \in DOMAIN Entries : Processors!Usable(Entries[i]) => Entries[i].id \in Processors!Ids
  BY DEF Processors!Ids
<1>. QED
  BY <1>1, <1>2, SmpConstants DEF Startable

LEMMA SmpCardinality == \A T : Processors!Cardinality(T) = Cardinality(T)
  BY DEF Processors!Cardinality, Cardinality, Processors!IsFiniteSet, IsFiniteSet

\* There is one processor to be started less than there are usable ones.
LEMMA SmpCores ==
  /\ IsFiniteSet(Processors!Aps) /\ Processors!NumCores \in Nat \ {0}
  /\ Cardinality(Processors!Aps) = Processors!NumCores - 1
<1>. DEFINE U == {i \in DOMAIN Entries : Processors!Usable(Entries[i])}
            f == [i \in U |-> Entries[i].id]
<1>1. IsFiniteSet(U) /\ Cardinality(U) \in Nat
  <2>1. IsFiniteSet(1..Len(Entries))
    BY SmpConstants, FS_Interval
  <2>2. U \subseteq 1..Len(Entries)
    BY SmpConstants
  <2>3. IsFiniteSet(U)
    BY <2>1, <2>2, FS_Subset
  <2>. QED
    BY <2>3, FS_CardinalityType
<1>2. f \in Surjection(U, Processors!Ids)
  <2>1. Processors!Ids = {Entries[i].id : i \in U}
    BY DEF Processors!Ids
  <2>. QED
    BY <2>1 DEF Surjection
<1>3. f \in Injection(U, Processors!Ids)
  <2>1. \A i, j \in U : f[i] = f[j] => i = j
    BY SmpConstants
  <2>. QED
    BY <1>2, <2>1 DEF Surjection, Injection, IsInjective
<1>4. IsFiniteSet(Processors!Ids) /\ Cardinality(Processors!Ids) = Cardinality(U)
  BY <1>1, <1>2, <1>3, FS_Surjection
<1>5. Processors!NumCores = Cardinality(U)
  BY SmpCardinality DEF Processors!NumCores
<1>6. /\ IsFiniteSet(Processors!Ids \ {BspAid})
      /\ Cardinality(Processors!Ids \ {BspAid}) = Cardinality(Processors!Ids) - 1
  BY <1>4, SmpConstants, FS_RemoveElement
<1>7. Cardinality(Processors!Ids \ {BspAid}) \in Nat
  BY <1>6, FS_CardinalityType
<1>. QED
  BY <1>1, <1>4, <1>5, <1>6, <1>7, SmpConstants

LEMMA SmpNoOther == Processors!NumCores <= 1 => Processors!Aps = {}
  BY SmpCores, FS_EmptySet

LEMMA SmpInit == Processors!Init => SmpInv
<1>. SUFFICES ASSUME Processors!Init PROVE SmpInv
  OBVIOUS
<1>1. /\ bsp = "start" /\ nxt = 1 /\ bases = <<BspAid>> /\ info = [proc |-> 0, flag |-> FALSE]
      /\ ap = [a \in Processors!Aps |-> "off"] /\ proc = [a \in Processors!Aps |-> 0]
      /\ online = {} /\ LimineMp \in BOOLEAN /\ mapped \in BOOLEAN
  BY SmpConstants DEF Processors!Init
<1>2. bases \in Seq(Processors!Ids) /\ Len(bases) = 1
  BY <1>1, SmpConstants
<1>3. Processors!TypeOK
  BY <1>1, <1>2, SmpConstants DEF Processors!TypeOK
<1>4. info \in [proc : 0..Len(bases), flag : BOOLEAN]
  BY <1>1, <1>2
<1>5. SmpOrder
  BY <1>1, SmpConstants, SmpEntries DEF SmpOrder
<1>6. SmpOwn /\ SmpDone
  BY <1>1 DEF SmpOwn, SmpDone
<1>. QED
  BY <1>1, <1>3, <1>4, <1>5, <1>6 DEF SmpInv, SmpTypes

LEMMA SmpFacts ==
  ASSUME SmpInv
  PROVE  /\ SmpTypes /\ SmpOrder /\ SmpOwn /\ SmpDone /\ LimineMp \in BOOLEAN
         /\ bsp \in {"start", "wait", "all", "done", "panic"} /\ mapped \in BOOLEAN
         /\ nxt \in 1..(Len(Entries) + 1) /\ nxt \in Nat
         /\ bases \in Seq(Processors!Ids) /\ Len(bases) \in Nat
         /\ online \subseteq 1..Len(bases)
         /\ ap \in [Processors!Aps -> {"off", "sipi", "early", "proc", "flag", "entry", "online"}]
         /\ proc \in [Processors!Aps -> 0..Len(bases)]
         /\ info.proc \in 0..Len(bases) /\ info.flag \in BOOLEAN
<1>1. SmpTypes /\ SmpOrder /\ SmpOwn /\ SmpDone
  BY DEF SmpInv
<1>2. bases \in Seq(Processors!Ids) /\ nxt \in 1..(Len(Entries) + 1)
  BY <1>1 DEF SmpTypes, Processors!TypeOK
<1>3. DOMAIN bases = 1..Len(bases) /\ Len(bases) \in Nat /\ nxt \in Nat
  BY <1>2, SmpConstants
<1>4. info.proc \in 0..Len(bases) /\ info.flag \in BOOLEAN
  BY <1>1 DEF SmpTypes
<1>. QED
  BY <1>1, <1>2, <1>3, <1>4 DEF SmpTypes, Processors!TypeOK

\* A processor between "off" and the flag is the one the boot CPU waits for.
LEMMA SmpCurrent ==
  ASSUME SmpInv, NEW a \in Processors!Aps, ap[a] \in {"sipi", "early", "proc"}
  PROVE  /\ nxt \in DOMAIN Entries /\ Startable(nxt) /\ Entries[nxt].id = a
         /\ bsp \in {"wait", "panic"} /\ info.proc = Len(bases) /\ bases[Len(bases)] = a
         /\ ~info.flag
<1>1. PICK i \in DOMAIN Entries : Startable(i) /\ Entries[i].id = a
  BY SmpEntries
<1>2. i \in Nat /\ nxt \in Nat
  BY SmpFacts, SmpConstants
<1>3. ~(i < nxt) /\ ~(i > nxt)
  BY <1>1, SmpFacts DEF SmpOrder
<1>4. i = nxt
  BY <1>2, <1>3
<1>5. bsp # "start" /\ info.proc = Len(bases) /\ bases[Len(bases)] = a /\ ~info.flag
  BY <1>1, <1>4, SmpFacts DEF SmpOrder
<1>6. bsp \notin {"all", "done"}
  BY <1>2, <1>4, SmpFacts, SmpConstants DEF SmpOrder
<1>. QED
  BY <1>1, <1>4, <1>5, <1>6, SmpFacts

LEMMA SmpSkip == SmpInv /\ Processors!Skip => SmpInv'
<1>. SUFFICES ASSUME SmpInv, Processors!Skip PROVE SmpInv'
  OBVIOUS
<1>1. /\ bsp = "start" /\ nxt <= Len(Entries) /\ ~Startable(nxt) /\ nxt' = nxt + 1
      /\ UNCHANGED <<LimineMp, bsp, bases, info, mapped, ap, proc, online>>
  BY DEF Processors!Skip, Startable
<1>2. nxt \in 1..Len(Entries) /\ nxt' \in 1..(Len(Entries) + 1)
  BY <1>1, SmpFacts, SmpConstants
<1>3. SmpTypes'
  BY <1>1, <1>2, SmpFacts DEF SmpTypes, Processors!TypeOK
<1>4. SmpOrder'
  <2>1. ASSUME NEW i \in DOMAIN Entries, Startable(i)
        PROVE  /\ i < nxt' => /\ ap[Entries[i].id] \in {"flag", "entry", "online"}
                              /\ LimineMp => ap[Entries[i].id] = "online"
               /\ i >= nxt' => ap[Entries[i].id] = "off"
    <3>1. i # nxt
      BY <1>1, <2>1
    <3>2. i < nxt' => i < nxt
      BY <1>1, <1>2, <3>1, SmpConstants
    <3>3. i >= nxt' => i > nxt
      BY <1>1, <1>2, <3>1, SmpConstants
    <3>. QED
      BY <2>1, <3>2, <3>3, SmpFacts DEF SmpOrder
  <2>2. \A i \in DOMAIN Entries : (i > nxt' => i >= nxt') /\ (i = nxt' => i >= nxt')
    BY <1>2, SmpConstants
  <2>. QED
    BY <1>1, <2>1, <2>2 DEF SmpOrder
<1>5. SmpOwn' /\ SmpDone'
  BY <1>1, SmpFacts DEF SmpOwn, SmpDone
<1>. QED
  BY <1>3, <1>4, <1>5 DEF SmpInv

LEMMA SmpStartAp == SmpInv /\ Processors!StartAp => SmpInv'
<1>. SUFFICES ASSUME SmpInv, Processors!StartAp PROVE SmpInv'
  OBVIOUS
<1>. DEFINE b == Entries[nxt].id
<1>1. /\ bsp = "start" /\ nxt <= Len(Entries) /\ Startable(nxt) /\ bsp' = "wait"
      /\ bases' = Append(bases, b) /\ info' = [proc |-> Len(bases) + 1, flag |-> FALSE]
      /\ ap' = [ap EXCEPT ![b] = "sipi"]
      /\ UNCHANGED <<LimineMp, nxt, mapped, proc, online>>
  BY DEF Processors!StartAp, Processors!Request, Startable
<1>2. nxt \in DOMAIN Entries /\ b \in Processors!Aps /\ b \in Processors!Ids /\ nxt \in Nat
  BY <1>1, SmpFacts, SmpConstants, SmpEntries
<1>. HIDE DEF b
<1>3. /\ bases' \in Seq(Processors!Ids) /\ Len(bases') = Len(bases) + 1 /\ bases'[Len(bases')] = b
      /\ \A k \in 1..Len(bases) : bases'[k] = bases[k]
      /\ DOMAIN bases' = 1..Len(bases')
  BY <1>1, <1>2, SmpFacts
<1>4. \A a \in Processors!Aps : ap'[a] = IF a = b THEN "sipi" ELSE ap[a]
  BY <1>1, SmpFacts
<1>5. SmpTypes'
  <2>1. ap' \in [Processors!Aps -> {"off", "sipi", "early", "proc", "flag", "entry", "online"}]
    BY <1>1, SmpFacts
  <2>2. online' \subseteq DOMAIN bases' /\ proc' \in [Processors!Aps -> 0..Len(bases')]
    BY <1>1, <1>3, SmpFacts
  <2>3. info' \in [proc : 0..Len(bases'), flag : BOOLEAN]
    BY <1>1, <1>3, SmpFacts
  <2>. QED
    BY <1>1, <1>3, <2>1, <2>2, <2>3, SmpFacts DEF SmpTypes, Processors!TypeOK
<1>6. SmpOrder'
  <2>1. ASSUME NEW i \in DOMAIN Entries, Startable(i)
        PROVE  LET a == Entries[i].id
               IN  /\ i < nxt' => ap'[a] \in {"flag", "entry", "online"} /\ (LimineMp' => ap'[a] = "online")
                   /\ i > nxt' => ap'[a] = "off"
                   /\ i = nxt' => /\ info'.proc = Len(bases') /\ bases'[Len(bases')] = a
                                  /\ ~info'.flag
    <3>. DEFINE a == Entries[i].id
    <3>1. a \in Processors!Aps /\ (a = b <=> i = nxt)
      BY <1>1, <1>2, <2>1, SmpEntries DEF b
    <3>2. CASE i = nxt
      BY <1>1, <1>2, <1>3, <3>1, <3>2
    <3>3. CASE i # nxt
      <4>1. ap'[a] = ap[a]
        BY <1>4, <3>1, <3>3
      <4>. QED
        BY <1>1, <2>1, <3>3, <4>1, SmpFacts DEF SmpOrder
    <3>. QED
      BY <3>2, <3>3
  <2>. QED
    BY <1>1, <1>2, <2>1 DEF SmpOrder
<1>7. SmpOwn'
  <2>0. ap[b] = "off"
    BY <1>1, <1>2, SmpFacts DEF SmpOrder, b
  <2>1. ASSUME NEW a \in Processors!Aps, ap'[a] \in {"proc", "flag", "entry", "online"}
        PROVE  proc'[a] \in 1..Len(bases') /\ bases'[proc'[a]] = a
    <3>1. proc[a] \in 1..Len(bases) /\ bases[proc[a]] = a
      BY <1>4, <2>1, SmpFacts DEF SmpOwn
    <3>. QED
      BY <1>1, <1>3, <3>1, SmpFacts
  <2>2. ASSUME NEW k \in online
        PROVE  \E a \in Processors!Aps : ap'[a] = "online" /\ proc'[a] = k
    <3>1. PICK a \in Processors!Aps : ap[a] = "online" /\ proc[a] = k
      BY SmpFacts DEF SmpOwn
    <3>. QED
      BY <1>1, <1>4, <2>0, <3>1
  <2>. QED
    BY <1>1, <2>1, <2>2 DEF SmpOwn
<1>8. SmpDone'
  BY <1>1 DEF SmpDone
<1>. QED
  BY <1>5, <1>6, <1>7, <1>8 DEF SmpInv

\* The boot CPU goes on once it has seen that processor, and no other.
LEMMA SmpWaited == SmpInv /\ Processors!Waited => SmpInv'
<1>. SUFFICES ASSUME SmpInv, Processors!Waited PROVE SmpInv'
  OBVIOUS
<1>. DEFINE b == Entries[nxt].id
<1>1. /\ bsp = "wait" /\ bsp' = "start" /\ nxt' = nxt + 1
      /\ LimineMp => info.proc \in online
      /\ ~LimineMp => info.flag
      /\ UNCHANGED <<LimineMp, bases, info, mapped, ap, proc, online>>
  BY DEF Processors!Waited, Processors!Seen
<1>2. nxt \in DOMAIN Entries /\ Startable(nxt) /\ b \in Processors!Aps
  BY <1>1, SmpFacts, SmpEntries DEF SmpOrder
<1>3. nxt' \in 1..(Len(Entries) + 1) /\ nxt \in Nat
  BY <1>1, <1>2, SmpConstants
<1>4. info.proc = Len(bases) /\ bases[Len(bases)] = b
      /\ (info.flag => ap[b] \in {"flag", "entry", "online"})
  BY <1>1, <1>2, SmpFacts DEF SmpOrder
<1>5. ap[b] \in {"flag", "entry", "online"} /\ (LimineMp => ap[b] = "online")
  <2>1. CASE LimineMp
    <3>1. PICK a \in Processors!Aps : ap[a] = "online" /\ proc[a] = info.proc
      BY <1>1, <2>1, SmpFacts DEF SmpOwn
    <3>2. bases[proc[a]] = a
      BY <3>1, SmpFacts DEF SmpOwn
    <3>. QED
      BY <1>4, <3>1, <3>2
  <2>2. CASE ~LimineMp
    BY <1>1, <1>4, <2>2
  <2>. QED
    BY <2>1, <2>2
<1>6. SmpTypes'
  BY <1>1, <1>3, SmpFacts DEF SmpTypes, Processors!TypeOK
<1>7. SmpOrder'
  <2>1. ASSUME NEW i \in DOMAIN Entries, Startable(i)
        PROVE  /\ i < nxt' => /\ ap[Entries[i].id] \in {"flag", "entry", "online"}
                              /\ LimineMp => ap[Entries[i].id] = "online"
               /\ i >= nxt' => ap[Entries[i].id] = "off"
    <3>1. i < nxt' => i < nxt \/ i = nxt
      BY <1>1, <1>3, SmpConstants
    <3>2. i >= nxt' => i > nxt
      BY <1>1, <1>3, SmpConstants
    <3>. QED
      BY <1>5, <2>1, <3>1, <3>2, SmpFacts DEF SmpOrder
  <2>2. \A i \in DOMAIN Entries : (i > nxt' => i >= nxt') /\ (i = nxt' => i >= nxt')
    BY <1>3, SmpConstants
  <2>. QED
    BY <1>1, <2>1, <2>2 DEF SmpOrder
<1>8. SmpOwn' /\ SmpDone'
  BY <1>1, SmpFacts DEF SmpOwn, SmpDone
<1>. QED
  BY <1>6, <1>7, <1>8 DEF SmpInv

LEMMA SmpEnded == SmpInv /\ Processors!Ended => SmpInv'
<1>. SUFFICES ASSUME SmpInv, Processors!Ended PROVE SmpInv'
  OBVIOUS
<1>1. /\ bsp = "start" /\ bsp' \in {"all", "done"} /\ (bsp' = "done" => LimineMp \/ Processors!Aps = {})
      /\ UNCHANGED <<LimineMp, nxt, bases, info, mapped, ap, proc, online>>
  BY SmpNoOther DEF Processors!Ended
<1>2. nxt > Len(Entries) \/ Processors!Aps = {}
  BY SmpNoOther DEF Processors!Ended
<1>3. SmpTypes'
  BY <1>1, SmpFacts DEF SmpTypes, Processors!TypeOK
<1>4. \A i \in DOMAIN Entries : Startable(i) => i < nxt /\ ~(i = nxt) /\ ~(i > nxt)
  BY <1>2, SmpFacts, SmpConstants, SmpEntries
<1>5. SmpOrder'
  BY <1>1, <1>2, <1>4, SmpFacts DEF SmpOrder
<1>6. SmpOwn'
  BY <1>1, SmpFacts DEF SmpOwn
<1>7. SmpDone'
  <2>. SUFFICES ASSUME bsp' = "done", NEW a \in Processors!Aps PROVE ap[a] = "online"
    BY <1>1 DEF SmpDone
  <2>1. LimineMp
    BY <1>1
  <2>2. PICK i \in DOMAIN Entries : Startable(i) /\ Entries[i].id = a
    BY SmpEntries
  <2>. QED
    BY <1>4, <2>1, <2>2, SmpFacts DEF SmpOrder
<1>. QED
  BY <1>3, <1>5, <1>6, <1>7 DEF SmpInv

\* As many structures online as there are processors: each has its own, so each
\* processor is online.
LEMMA SmpAll == ASSUME SmpInv, Processors!AllSeen
                PROVE  \A a \in Processors!Aps : ap[a] = "online"
<1>. DEFINE K == 2..Processors!NumCores
            f == [k \in K |-> bases[k]]
<1>1. ASSUME NEW k \in K
      PROVE  bases[k] \in Processors!Aps /\ ap[bases[k]] = "online" /\ proc[bases[k]] = k
  <2>1. PICK a \in Processors!Aps : ap[a] = "online" /\ proc[a] = k
    BY SmpFacts DEF SmpOwn, Processors!AllSeen
  <2>2. bases[proc[a]] = a
    BY <2>1, SmpFacts DEF SmpOwn
  <2>. QED
    BY <2>1, <2>2
<1>2. f \in Injection(K, Processors!Aps)
  <2>1. f \in [K -> Processors!Aps]
    BY <1>1
  <2>2. \A k, l \in K : f[k] = f[l] => k = l
    BY <1>1
  <2>. QED
    BY <2>1, <2>2 DEF Injection, IsInjective
<1>3. Cardinality(K) = Processors!NumCores - 1
  BY SmpCores, FS_Interval
<1>4. f \in Surjection(K, Processors!Aps)
  BY <1>2, <1>3, SmpCores, FS_Injection
<1>5. ASSUME NEW a \in Processors!Aps PROVE \E k \in K : bases[k] = a
  BY <1>4 DEF Surjection
<1>. QED
  BY <1>1, <1>5

LEMMA SmpAllWaited == SmpInv /\ Processors!AllWaited => SmpInv'
<1>. SUFFICES ASSUME SmpInv, Processors!AllWaited PROVE SmpInv'
  OBVIOUS
<1>1. /\ bsp = "all" /\ bsp' = "done" /\ mapped' = FALSE
      /\ UNCHANGED <<LimineMp, nxt, bases, info, ap, proc, online>>
  BY DEF Processors!AllWaited
<1>2. SmpTypes'
  BY <1>1, SmpFacts DEF SmpTypes, Processors!TypeOK
<1>3. SmpOrder'
  BY <1>1, SmpFacts DEF SmpOrder
<1>4. SmpOwn'
  BY <1>1, SmpFacts DEF SmpOwn
<1>5. SmpDone'
  BY <1>1, SmpAll DEF SmpDone, Processors!AllWaited
<1>. QED
  BY <1>2, <1>3, <1>4, <1>5 DEF SmpInv

LEMMA SmpPanic == SmpInv /\ Processors!Panic => SmpInv'
<1>. SUFFICES ASSUME SmpInv, Processors!Panic PROVE SmpInv'
  OBVIOUS
<1>1. /\ bsp \in {"wait", "all"} /\ bsp' = "panic"
      /\ UNCHANGED <<LimineMp, nxt, bases, info, mapped, ap, proc, online>>
  BY DEF Processors!Panic
<1>2. SmpTypes'
  BY <1>1, SmpFacts DEF SmpTypes, Processors!TypeOK
<1>3. SmpOrder'
  BY <1>1, SmpFacts DEF SmpOrder
<1>4. SmpOwn' /\ SmpDone'
  BY <1>1, SmpFacts DEF SmpOwn, SmpDone
<1>. QED
  BY <1>2, <1>3, <1>4 DEF SmpInv

\* What a step of a processor keeps: it goes on from a label to the next, takes
\* the structure that is in the block and sets itself online with its own.
LEMMA SmpApStep ==
  ASSUME SmpInv, NEW a \in Processors!Aps, ap[a] # "off", ap[a] # "online",
         NEW l \in {"early", "proc", "flag", "entry", "online"}, ap' = [ap EXCEPT ![a] = l],
         ap[a] \in {"flag", "entry"} => l \in {"entry", "online"},
         l = "early" => ap[a] = "sipi",
         UNCHANGED <<LimineMp, bsp, nxt, bases, mapped>>,
         \/ info' = info
         \/ ~LimineMp /\ l = "flag" /\ info' = [info EXCEPT !.flag = TRUE],
         \/ proc' = proc /\ (l = "early" \/ ap[a] \in {"proc", "flag", "entry"})
         \/ ap[a] = "early" /\ l = "proc" /\ proc' = [proc EXCEPT ![a] = info.proc],
         \/ online' = online
         \/ ap[a] = "entry" /\ l = "online" /\ online' = online \cup {proc[a]}
  PROVE  SmpInv'
<1>1. /\ \A b \in Processors!Aps : ap'[b] = IF b = a THEN l ELSE ap[b]
      /\ ap' \in [Processors!Aps -> {"off", "sipi", "early", "proc", "flag", "entry", "online"}]
  BY SmpFacts
<1>2. info' \in [proc : 0..Len(bases), flag : BOOLEAN] /\ info'.proc = info.proc
  BY SmpFacts DEF SmpTypes
<1>3. l = "flag" /\ info' # info => ap[a] \in {"sipi", "early", "proc"}
  BY SmpFacts
<1>4. proc' \in [Processors!Aps -> 0..Len(bases)]
      /\ \A b \in Processors!Aps : b # a => proc'[b] = proc[b]
  BY SmpFacts
<1>5. l \in {"proc", "flag", "entry", "online"} => proc'[a] \in 1..Len(bases) /\ bases[proc'[a]] = a
  <2>. SUFFICES ASSUME l \in {"proc", "flag", "entry", "online"}
                PROVE  proc'[a] \in 1..Len(bases) /\ bases[proc'[a]] = a
    OBVIOUS
  <2>1. CASE proc' = proc /\ (l = "early" \/ ap[a] \in {"proc", "flag", "entry"})
    BY <2>1, SmpFacts DEF SmpOwn
  <2>2. CASE ap[a] = "early" /\ l = "proc" /\ proc' = [proc EXCEPT ![a] = info.proc]
    <3>1. info.proc = Len(bases) /\ bases[Len(bases)] = a /\ proc'[a] = Len(bases)
      BY <2>2, SmpCurrent, SmpFacts
    <3>2. Len(bases) # 0
      BY SmpFacts DEF SmpTypes
    <3>. QED
      BY <3>1, <3>2, SmpFacts
  <2>. QED
    BY <2>1, <2>2
<1>6. online' \subseteq DOMAIN bases
  BY SmpFacts DEF SmpOwn
<1>7. SmpTypes'
  BY <1>1, <1>2, <1>4, <1>6, SmpFacts DEF SmpTypes, Processors!TypeOK
<1>8. SmpOrder'
  <2>1. ASSUME NEW i \in DOMAIN Entries, Startable(i)
        PROVE  LET b == Entries[i].id
               IN  /\ i < nxt => ap'[b] \in {"flag", "entry", "online"} /\ (LimineMp => ap'[b] = "online")
                   /\ i > nxt => ap'[b] = "off"
                   /\ i = nxt /\ bsp = "start" => ap'[b] = "off"
                   /\ i = nxt /\ bsp # "start" => /\ info'.proc = Len(bases) /\ bases[Len(bases)] = b
                                                  /\ info'.flag => ap'[b] \in {"flag", "entry", "online"}
    <3>. DEFINE b == Entries[i].id
    <3>1. b \in Processors!Aps
      BY <2>1, SmpEntries
    <3>2. /\ i < nxt => ap[b] \in {"flag", "entry", "online"} /\ (LimineMp => ap[b] = "online")
          /\ i > nxt => ap[b] = "off"
          /\ i = nxt /\ bsp = "start" => ap[b] = "off"
          /\ i = nxt /\ bsp # "start" => /\ info.proc = Len(bases) /\ bases[Len(bases)] = b
                                         /\ info.flag => ap[b] \in {"flag", "entry", "online"}
      BY <2>1, SmpFacts DEF SmpOrder
    <3>. HIDE DEF b
    <3>3. CASE b = a
      <4>1. ap'[b] = l
        BY <1>1, <3>1, <3>3
      <4>2. info'.flag => info.flag \/ l = "flag"
        BY SmpFacts
      <4>3. ap[a] \in {"flag", "entry", "online"} => l \in {"flag", "entry", "online"}
        OBVIOUS
      <4>. QED
        BY <1>2, <3>2, <3>3, <4>1, <4>2, <4>3 DEF b
    <3>4. CASE b # a
      <4>1. ap'[b] = ap[b]
        BY <1>1, <3>1, <3>4
      <4>2. i = nxt => info' = info
        <5>. SUFFICES ASSUME i = nxt, info' # info PROVE FALSE
          OBVIOUS
        <5>1. ap[a] \in {"sipi", "early", "proc"}
          BY <1>3
        <5>2. Entries[nxt].id = a
          BY <5>1, SmpCurrent
        <5>. QED
          BY <3>4, <5>2 DEF b
      <4>. QED
        BY <3>2, <4>1, <4>2 DEF b
    <3>. QED
      BY <3>3, <3>4 DEF b
  <2>. QED
    BY <2>1, SmpFacts DEF SmpOrder
<1>9. SmpOwn'
  <2>1. ASSUME NEW b \in Processors!Aps, ap'[b] \in {"proc", "flag", "entry", "online"}
        PROVE  proc'[b] \in 1..Len(bases) /\ bases[proc'[b]] = b
    <3>1. CASE b = a
      BY <1>1, <1>5, <2>1, <3>1
    <3>2. CASE b # a
      BY <1>1, <1>4, <2>1, <3>2, SmpFacts DEF SmpOwn
    <3>. QED
      BY <3>1, <3>2
  <2>2. ASSUME NEW k \in online'
        PROVE  \E b \in Processors!Aps : ap'[b] = "online" /\ proc'[b] = k
    <3>1. CASE k \in online
      <4>1. PICK b \in Processors!Aps : ap[b] = "online" /\ proc[b] = k
        BY <3>1, SmpFacts DEF SmpOwn
      <4>. QED
        BY <1>1, <1>4, <4>1
    <3>2. CASE k \notin online
      <4>1. l = "online" /\ k = proc[a] /\ ap[a] = "entry"
        BY <3>2
      <4>2. proc' = proc
        BY <4>1
      <4>. QED
        BY <1>1, <4>1, <4>2
    <3>. QED
      BY <3>1, <3>2
  <2>. QED
    BY <2>1, <2>2 DEF SmpOwn
<1>10. SmpDone'
  BY SmpFacts DEF SmpDone
<1>. QED
  BY <1>7, <1>8, <1>9, <1>10 DEF SmpInv

LEMMA SmpNext == SmpInv /\ Processors!Next => SmpInv'
<1>. SUFFICES ASSUME SmpInv, Processors!Next PROVE SmpInv'
  OBVIOUS
<1>1. ASSUME NEW a \in Processors!Aps, Processors!Early(a) PROVE SmpInv'
  BY <1>1, SmpApStep DEF Processors!Early, Processors!Step
<1>2. ASSUME NEW a \in Processors!Aps, Processors!TakeProc(a) PROVE SmpInv'
  BY <1>2, SmpApStep DEF Processors!TakeProc, Processors!Step
<1>3. ASSUME NEW a \in Processors!Aps, Processors!SetFlag(a) PROVE SmpInv'
  BY <1>3, SmpApStep DEF Processors!SetFlag, Processors!Step
<1>4. ASSUME NEW a \in Processors!Aps, Processors!Jump(a) PROVE SmpInv'
  BY <1>4, SmpApStep DEF Processors!Jump, Processors!Step
<1>5. ASSUME NEW a \in Processors!Aps, Processors!Online(a) PROVE SmpInv'
  BY <1>5, SmpApStep DEF Processors!Online, Processors!Step
<1>. QED
  BY <1>1, <1>2, <1>3, <1>4, <1>5, SmpSkip, SmpStartAp, SmpWaited, SmpEnded, SmpAllWaited,
    SmpPanic DEF Processors!Next

LEMMA SmpInvSound == SmpInv => Processors!ProcessorsApart
<1>. SUFFICES ASSUME SmpInv PROVE Processors!ProcessorsApart
  OBVIOUS
<1>1. Processors!TypeOK
  BY DEF SmpInv, SmpTypes
<1>2. \A a \in Processors!Aps : ap[a] \in {"proc", "flag", "entry", "online"} => bases[proc[a]] = a
  BY SmpFacts DEF SmpOwn
<1>3. Processors!Cardinality({a \in Processors!Aps : ap[a] \in {"sipi", "early", "proc"}}) <= 1
  <2>. DEFINE S == {a \in Processors!Aps : ap[a] \in {"sipi", "early", "proc"}}
  <2>1. S \subseteq {Entries[nxt].id}
    BY SmpCurrent
  <2>2. IsFiniteSet({Entries[nxt].id}) /\ Cardinality({Entries[nxt].id}) = 1
    BY FS_Singleton
  <2>. HIDE DEF S
  <2>3. Cardinality(S) <= 1
    BY <2>1, <2>2, FS_Subset
  <2>. QED
    BY <2>3, SmpCardinality DEF S
<1>4. bsp = "done" => \A a \in Processors!Aps : ap[a] = "online"
  BY SmpFacts DEF SmpDone
<1>. QED
  BY <1>1, <1>2, <1>3, <1>4 DEF Processors!ProcessorsApart

\* cpu::init() and boot_cores(), for any number of processors in any order of
\* the firmware's tables, however slow each is: none is mistaken for another, at
\* most one is on the temporary stack, and the kernel goes on with all or none.
THEOREM ProcessorsApartInvariant == Spec => []ProcessorsApart
<1>. DEFINE I == part = "processors" => SmpInv
<1>1. Init => I
  BY SmpInit DEF Init
<1>2. I /\ [Next]_vars => I'
  <2>. SUFFICES ASSUME I, [Next]_vars, part' = "processors" PROVE SmpInv'
    OBVIOUS
  <2>1. part = "processors" /\ SmpInv
    BY DEF Next, vars
  <2>2. CASE Processors!Next
    BY <2>1, <2>2, SmpNext
  <2>3. CASE UNCHANGED processorVars
    BY <2>1, <2>3 DEF processorVars, SmpInv, SmpTypes, SmpOrder, SmpOwn, SmpDone,
      Processors!TypeOK
  <2>. QED
    BY <2>1, <2>2, <2>3 DEF Next, vars
<1>3. I => ProcessorsApart
  BY SmpInvSound DEF ProcessorsApart
<1>. QED
  BY <1>1, <1>2, <1>3, PTL DEF Spec

-----------------------------------------------------------------------------
(* The clocks.                                                             *)

\* How far a clock was ahead of the real time when its offset was set, and what
\* it has lost since.
LostAt(c, p) == IF c = "tsc" THEN tscLag[p] ELSE 0
Ahead(c, p) == Started[c][p] - offset[c][p] - LostAt(c, p)
Lost(c, p) == IF c = "tsc" THEN lag - tscLag[p] ELSE 0

TimeTypes ==
  /\ now \in Nat /\ slack \in Nat /\ lag \in Nat
  /\ tscLag \in [Cpus -> Nat] /\ \A p \in Cpus : tscLag[p] <= lag
  /\ clocks \subseteq Time!ClockNames /\ tasks \subseteq Time!ClockNames
  /\ main \in Time!ClockNames \cup {Time!None}
  /\ offset \in [Time!ClockNames -> [Cpus -> Int]]
  /\ seen \in [Cpus -> Int] /\ held \in [Cpus -> Time!ClockNames \cup {Time!None}]
  /\ running_cpus \subseteq Cpus
  /\ init \in [Cpus -> [clock : Time!ClockNames \cup {Time!None}, own : Int, at : Nat]]

\* What a task has read of its new clock is not from the future.
TimeReads ==
  \A p \in Cpus :
    IF init[p].clock = Time!None THEN init[p] = Time!Idle
    ELSE init[p].at <= now /\ init[p].own = init[p].at + Ahead(init[p].clock, p)

\* The main clock is the registered one of the highest priority.
TimeMain ==
  /\ main = Time!None <=> clocks = {}
  /\ main # Time!None => main \in clocks
  /\ \A e \in clocks : Time!priority[e] <= Time!priority[main]

\* The tasks run one after the other on the boot CPU, before the others start.
TimeOrder ==
  /\ Bsp \in running_cpus
  /\ \A p \in Cpus \ {Bsp} :
       /\ p \in running_cpus \/ init[p] # Time!Idle => tasks = Time!ClockNames /\ init[Bsp] = Time!Idle
       /\ init[p] # Time!Idle => p \notin running_cpus /\ init[p].clock = "tsc"
  /\ \A p \in Cpus \ running_cpus : held[p] = Time!None /\ seen[p] = 0
  /\ init[Bsp] # Time!Idle => init[Bsp].clock \in tasks \ clocks /\ held[Bsp] = Time!None
  /\ \A c \in tasks : Time!Requires(c) \subseteq tasks
  /\ clocks \subseteq tasks
  /\ "acpipm" \in tasks => "acpipm" \in clocks \/ init[Bsp].clock = "acpipm"
  /\ init[Bsp].clock = "acpipm" => tasks = {"acpipm"}
  /\ init[Bsp].clock = "kvm" => "tsc" \notin tasks
  /\ "tsc" \in clocks => running_cpus = Cpus /\ tasks = Time!ClockNames /\ init[Bsp] = Time!Idle
  /\ tscFrom = "hpet" => {"hpet"} \subseteq clocks /\ "kvm" \in tasks \ clocks
                         /\ init[Bsp].clock # "kvm"

\* By how much the tsc of a CPU may be behind the clock it takes over from.
TscGap(p) == IF p = Bsp /\ tscFrom # "hpet" THEN slack ELSE 0
Gap(p) == IF main = "tsc" THEN TscGap(p) ELSE 0

TscSet(p) ==
  is_calibrated /\ IF p = Bsp THEN "tsc" \in tasks /\ init[Bsp].clock # "tsc" ELSE p \in running_cpus

TimeAhead ==
  /\ \A c \in Time!ClockNames \ {"tsc"}, p \in Cpus : Ahead(c, p) = Ahead(c, Bsp)
  /\ main \notin {"tsc", Time!None} =>
       /\ now + Ahead(main, Bsp) >= 0
       /\ \A p \in Cpus : TscSet(p) => Ahead(main, p) <= Ahead("tsc", p) + TscGap(p)

\* No CPU was told more than its next reading shows, but for the gap.
TimeSeen ==
  \A p \in Cpus :
    /\ main = Time!None => seen[p] = 0
    /\ main # Time!None => seen[p] <= now + Ahead(main, p) + Gap(p)
    /\ held[p] # Time!None =>
         /\ held[p] \in clocks
         /\ seen[p] <= now + Ahead(held[p], p) + Gap(p)
         /\ Ahead(held[p], p) <= Ahead(main, p) + Gap(p)

TimeInv == TimeTypes /\ TimeReads /\ TimeMain /\ TimeOrder /\ TimeAhead /\ TimeSeen

LEMMA ClockConstants ==
  /\ Bsp \in Cpus /\ Started \in [Time!ClockNames -> [Cpus -> Nat]]
  /\ \A c \in Time!ClockNames \ {"tsc"}, p \in Cpus : Started[c][p] = Started[c][Bsp]
  /\ Time!None \notin Time!ClockNames
<1>1. Time!None \notin Time!ClockNames
  BY DEF Time!None, Time!ClockNames
<1>. QED
  BY <1>1, PlatformAssumption DEF Time!ClocksAssumption

LEMMA Priorities ==
  /\ Time!priority["pit"] = 0 /\ Time!priority["acpipm"] = 25 /\ Time!priority["hpet"] = 50
  /\ Time!priority["tsc"] = 75 /\ Time!priority["kvm"] = 100
  BY DEF Time!priority

LEMMA PriorityNat == \A c \in Time!ClockNames : Time!priority[c] \in Nat
  BY Priorities DEF Time!ClockNames

LEMMA PrioritiesDiffer ==
  \A c, d \in Time!ClockNames : Time!priority[c] = Time!priority[d] => c = d
  BY Priorities DEF Time!ClockNames

LEMMA Requirements ==
  /\ Time!Requires("acpipm") = {} /\ Time!Requires("tsc") = {"acpipm", "kvm"}
  /\ \A c \in Time!ClockNames \ {"acpipm"} : "acpipm" \in Time!Requires(c)
  /\ \A c \in Time!ClockNames : Time!Requires(c) \subseteq Time!ClockNames
  BY DEF Time!Requires, Time!ClockNames

LEMMA AheadInt ==
  ASSUME TimeTypes, NEW c \in Time!ClockNames, NEW p \in Cpus
  PROVE  Ahead(c, p) \in Int
  BY ClockConstants DEF TimeTypes, Ahead, LostAt

LEMMA TimeFacts ==
  ASSUME TimeInv
  PROVE  /\ TimeTypes /\ TimeReads /\ TimeMain /\ TimeOrder /\ TimeAhead /\ TimeSeen
         /\ now \in Nat /\ slack \in Nat /\ lag \in Nat /\ tscLag \in [Cpus -> Nat]
         /\ \A p \in Cpus : tscLag[p] \in Nat /\ tscLag[p] <= lag
         /\ offset \in [Time!ClockNames -> [Cpus -> Int]]
         /\ seen \in [Cpus -> Int] /\ held \in [Cpus -> Time!ClockNames \cup {Time!None}]
         /\ clocks \subseteq Time!ClockNames /\ tasks \subseteq Time!ClockNames
         /\ running_cpus \subseteq Cpus
         /\ \A p \in Cpus : /\ seen[p] \in Int /\ TscGap(p) \in Nat /\ TscGap(p) <= slack
                            /\ Gap(p) \in Nat /\ Gap(p) <= slack
                            /\ \A c \in Time!ClockNames : Ahead(c, p) \in Int
                            /\ held[p] # Time!None => held[p] \in Time!ClockNames
         /\ main # Time!None => main \in Time!ClockNames
<1>1. TimeTypes /\ TimeReads /\ TimeMain /\ TimeOrder /\ TimeAhead /\ TimeSeen
  BY DEF TimeInv
<1>2. \A p \in Cpus, c \in Time!ClockNames : Ahead(c, p) \in Int
  BY <1>1, AheadInt
<1>3. now \in Nat /\ slack \in Nat
  BY <1>1 DEF TimeTypes
<1>4. \A p \in Cpus : /\ TscGap(p) \in Nat /\ TscGap(p) <= slack /\ Gap(p) \in Nat /\ Gap(p) <= slack
  BY <1>3 DEF TscGap, Gap
<1>. QED
  BY <1>1, <1>2, <1>3, <1>4 DEF TimeTypes

\* What a reading shows.
LEMMA TimeNsIs ==
  ASSUME TimeInv, NEW c \in Time!ClockNames, NEW p \in Cpus
  PROVE  /\ Time!TimeNs(c, p) = now + Ahead(c, p) - Lost(c, p)
         /\ Lost(c, p) \in Nat /\ (c # "tsc" => Lost(c, p) = 0)
<1>1. /\ offset[c][p] \in Int /\ Started[c][p] \in Int /\ now \in Nat /\ lag \in Nat
      /\ tscLag[p] \in Nat /\ tscLag[p] <= lag
  BY TimeFacts, ClockConstants
<1>. QED
  BY <1>1 DEF Time!TimeNs, Ahead, LostAt, Lost

\* A reading that starts over from what the tsc has lost by now.
LEMMA TimeNsNow ==
  ASSUME TimeInv, NEW c \in Time!ClockNames, NEW p \in Cpus,
         tscLag' = IF c = "tsc" THEN [tscLag EXCEPT ![p] = lag] ELSE tscLag, offset' = offset
  PROVE  /\ Time!TimeNs(c, p) = now + Ahead(c, p)' /\ Ahead(c, p)' \in Int
         /\ tscLag' \in [Cpus -> Nat] /\ \A q \in Cpus : tscLag'[q] <= lag
         /\ \A d, q : d # "tsc" \/ (q \in Cpus /\ q # p) => Ahead(d, q)' = Ahead(d, q)
<1>1. /\ offset[c][p] \in Int /\ Started[c][p] \in Int /\ now \in Nat /\ lag \in Nat
      /\ tscLag \in [Cpus -> Nat] /\ \A q \in Cpus : tscLag[q] <= lag
  BY TimeFacts, ClockConstants
<1>2. /\ tscLag' \in [Cpus -> Nat] /\ \A q \in Cpus : tscLag'[q] <= lag
      /\ c = "tsc" => tscLag'[p] = lag
      /\ \A q \in Cpus : q # p => tscLag'[q] = tscLag[q]
  BY <1>1
<1>. QED
  BY <1>1, <1>2 DEF Time!TimeNs, Ahead, LostAt

LEMMA TimeIdle ==
  ASSUME TimeInv, NEW p \in Cpus
  PROVE  /\ init[p] = Time!Idle <=> init[p].clock = Time!None
         /\ init[p] # Time!Idle => /\ init[p].clock \in Time!ClockNames /\ init[p].at \in Nat
                                   /\ init[p].at <= now /\ init[p].own \in Int
                                   /\ init[p].own = init[p].at + Ahead(init[p].clock, p)
<1>1. /\ init[p].clock \in Time!ClockNames \cup {Time!None} /\ init[p].at \in Nat
      /\ init[p].own \in Int
  BY TimeFacts DEF TimeTypes
<1>2. Time!Idle.clock = Time!None
  BY DEF Time!Idle
<1>3. IF init[p].clock = Time!None THEN init[p] = Time!Idle
      ELSE init[p].at <= now /\ init[p].own = init[p].at + Ahead(init[p].clock, p)
  BY TimeFacts DEF TimeReads
<1>. QED
  BY <1>1, <1>2, <1>3

LEMMA TimeInit == Time!Init => TimeInv
<1>. SUFFICES ASSUME Time!Init PROVE TimeInv
  OBVIOUS
<1>1. /\ now = 0 /\ clocks = {} /\ main = Time!None /\ tasks = {} /\ slack = 0
      /\ offset = [c \in Time!ClockNames |-> [p \in Cpus |-> 0]]
      /\ init = [p \in Cpus |-> Time!Idle] /\ running_cpus = {Bsp}
      /\ held = [p \in Cpus |-> Time!None] /\ seen = [p \in Cpus |-> 0] /\ tscFrom = Time!None
      /\ lag = 0 /\ tscLag = [p \in Cpus |-> 0]
  BY DEF Time!Init
<1>2. Time!Idle = [clock |-> Time!None, own |-> 0, at |-> 0]
  BY DEF Time!Idle
<1>3. TimeTypes
  BY <1>1, <1>2, ClockConstants DEF TimeTypes
<1>4. TimeReads
  BY <1>1, <1>2 DEF TimeReads
<1>5. TimeMain
  BY <1>1 DEF TimeMain
<1>6. TimeOrder
  BY <1>1, <1>2, ClockConstants DEF TimeOrder, Time!None
<1>7. TimeAhead
  BY <1>1, ClockConstants DEF TimeAhead, Ahead, LostAt
<1>8. TimeSeen
  BY <1>1 DEF TimeSeen
<1>. QED
  BY <1>3, <1>4, <1>5, <1>6, <1>7, <1>8 DEF TimeInv

LEMMA TimeTick == TimeInv /\ Time!Tick => TimeInv'
<1>. SUFFICES ASSUME TimeInv, Time!Tick PROVE TimeInv'
  OBVIOUS
<1>1. /\ now' = now + 1 /\ lag' \in {lag, lag + 1}
      /\ UNCHANGED <<clocks, main, offset, tasks, init, is_calibrated, running_cpus, held, seen,
                     tscLag, tscFrom, slack>>
  BY DEF Time!Tick
<1>2. \A c, p : Ahead(c, p)' = Ahead(c, p)
  BY <1>1 DEF Ahead, LostAt
<1>3. \A p : Gap(p)' = Gap(p) /\ TscGap(p)' = TscGap(p) /\ TscSet(p)' = TscSet(p)
  BY <1>1 DEF Gap, TscGap, TscSet
<1>4. TimeTypes'
  BY <1>1, TimeFacts DEF TimeTypes
<1>5. TimeReads'
  BY <1>1, <1>2, TimeFacts DEF TimeReads, TimeTypes
<1>6. TimeMain' /\ TimeOrder'
  BY <1>1, TimeFacts DEF TimeMain, TimeOrder
<1>7. TimeAhead'
  BY <1>1, <1>2, <1>3, TimeFacts, ClockConstants DEF TimeAhead
<1>8. TimeSeen'
  BY <1>1, <1>2, <1>3, TimeFacts DEF TimeSeen
<1>. QED
  BY <1>4, <1>5, <1>6, <1>7, <1>8 DEF TimeInv

\* What a step keeps that leaves the clocks, the offsets and the slack alone.
LEMMA TimeStill ==
  ASSUME TimeInv, UNCHANGED <<now, clocks, main, offset, is_calibrated, tscLag, tscFrom, slack>>
  PROVE  /\ TimeMain' /\ \A c, p : Ahead(c, p)' = Ahead(c, p)
         /\ \A p : Gap(p)' = Gap(p) /\ TscGap(p)' = TscGap(p)
         /\ (\A p \in Cpus : TscSet(p)' => TscSet(p)) => TimeAhead'
         /\ held' = held /\ seen' = seen => TimeSeen'
<1>1. TimeMain'
  BY TimeFacts DEF TimeMain
<1>2. \A c, p : Ahead(c, p)' = Ahead(c, p)
  BY DEF Ahead, LostAt
<1>3. \A p : Gap(p)' = Gap(p) /\ TscGap(p)' = TscGap(p)
  BY DEF Gap, TscGap
<1>4. ASSUME \A p \in Cpus : TscSet(p)' => TscSet(p) PROVE TimeAhead'
  BY <1>2, <1>3, <1>4, TimeFacts DEF TimeAhead
<1>5. held' = held /\ seen' = seen => TimeSeen'
  BY <1>2, <1>3, TimeFacts DEF TimeSeen
<1>. QED
  BY <1>1, <1>2, <1>3, <1>4, <1>5

\* The same for a step that reads the tsc of a CPU that has not set it: nothing
\* was told by it yet.
LEMMA TimeStillReading ==
  ASSUME TimeInv, UNCHANGED <<now, clocks, main, offset, is_calibrated, tscFrom, slack, held, seen>>,
         NEW q \in Cpus, "tsc" \notin clocks, \A p \in Cpus : TscSet(p)' => TscSet(p) /\ p # q,
         \A d, p : d # "tsc" \/ (p \in Cpus /\ p # q) => Ahead(d, p)' = Ahead(d, p)
  PROVE  TimeMain' /\ TimeAhead' /\ TimeSeen'
<1>1. TimeMain'
  BY TimeFacts DEF TimeMain
<1>2. \A p : Gap(p)' = Gap(p) /\ TscGap(p)' = TscGap(p)
  BY DEF Gap, TscGap
<1>3. main # "tsc" /\ \A p \in Cpus : held[p] # "tsc"
  BY TimeFacts DEF TimeMain, TimeSeen, Time!None
<1>4. PICK m : m = main
  OBVIOUS
<1>5. \A p : Ahead(main, p)' = Ahead(m, p)' /\ Ahead(m, p) = Ahead(main, p)
  BY <1>4 DEF Ahead, LostAt
<1>6. \A p \in Cpus : Ahead(main, p)' = Ahead(main, p)
  BY <1>3, <1>4, <1>5
<1>7. TimeAhead'
  BY <1>2, <1>6, TimeFacts, ClockConstants DEF TimeAhead
<1>8. ASSUME NEW p \in Cpus PROVE Ahead(held[p], p)' = Ahead(held[p], p)
  <2>1. PICK h : h = held[p]
    OBVIOUS
  <2>2. Ahead(held[p], p)' = Ahead(h, p)' /\ Ahead(h, p) = Ahead(held[p], p) /\ h # "tsc"
    BY <1>3, <2>1 DEF Ahead, LostAt
  <2>. QED
    BY <2>2
<1>9. TimeSeen'
  BY <1>2, <1>6, <1>8, TimeFacts DEF TimeSeen
<1>. QED
  BY <1>1, <1>7, <1>9

LEMMA TimeBootTask ==
  ASSUME TimeInv, NEW c \in Time!ClockNames, Time!BootTask(c)
  PROVE  TimeInv'
<1>. DEFINE r == [clock |-> c, own |-> now + Ahead(c, Bsp)', at |-> now]
<1>1. /\ c \notin tasks /\ Time!Requires(c) \subseteq tasks /\ init[Bsp] = Time!Idle
      /\ held[Bsp] = Time!None /\ tasks' = tasks \cup {c}
      /\ tscLag' = IF c = "tsc" THEN [tscLag EXCEPT ![Bsp] = lag] ELSE tscLag
      /\ UNCHANGED <<now, clocks, main, offset, is_calibrated, running_cpus, held, seen, lag,
                     tscFrom, slack>>
  BY DEF Time!BootTask
<1>2. /\ Time!Present(c) => init' = [init EXCEPT ![Bsp] = r]
      /\ ~Time!Present(c) => init' = init /\ c \in {"kvm", "tsc"}
  <2>1. Time!TimeNs(c, Bsp) = now + Ahead(c, Bsp)'
    BY <1>1, ClockConstants, TimeNsNow
  <2>2. ~Time!Present(c) => c \in {"kvm", "tsc"}
    BY DEF Time!Present
  <2>. QED
    BY <2>1, <2>2 DEF Time!BootTask
<1>3. c = "tsc" /\ ~Time!Present(c) => ~is_calibrated
  BY DEF Time!Present
<1>4. /\ r.clock = c /\ r.own = now + Ahead(c, Bsp)' /\ r.at = now /\ r # Time!Idle
      /\ r \in [clock : Time!ClockNames \cup {Time!None}, own : Int, at : Nat]
      /\ Time!Idle.clock = Time!None
  <2>0. Ahead(c, Bsp)' \in Int
    BY <1>1, TimeNsNow, ClockConstants
  <2>1. now + Ahead(c, Bsp)' \in Int /\ now \in Nat
    BY <2>0, TimeFacts
  <2>2. c # Time!None
    BY ClockConstants
  <2>. QED
    BY <2>1, <2>2 DEF Time!Idle
<1>. HIDE DEF r
<1>5. /\ init \in [Cpus -> [clock : Time!ClockNames \cup {Time!None}, own : Int, at : Nat]]
      /\ Bsp \in Cpus
  BY TimeFacts, ClockConstants DEF TimeTypes
<1>6. /\ init' \in [Cpus -> [clock : Time!ClockNames \cup {Time!None}, own : Int, at : Nat]]
      /\ \A p \in Cpus \ {Bsp} : init'[p] = init[p]
      /\ init'[Bsp] = IF Time!Present(c) THEN r ELSE Time!Idle
  BY <1>1, <1>2, <1>4, <1>5
<1>7. /\ tscLag' \in [Cpus -> Nat] /\ \A p \in Cpus : tscLag'[p] <= lag
      /\ Ahead(c, Bsp)' \in Int
      /\ \A d, p : d # "tsc" \/ (p \in Cpus /\ p # Bsp) => Ahead(d, p)' = Ahead(d, p)
  BY <1>1, <1>5, TimeNsNow
<1>8. TimeTypes'
  BY <1>1, <1>6, <1>7, TimeFacts DEF TimeTypes
<1>9. TimeReads'
  <2>1. ASSUME NEW p \in Cpus
        PROVE  IF init'[p].clock = Time!None THEN init'[p] = Time!Idle
               ELSE init'[p].at <= now /\ init'[p].own = init'[p].at + Ahead(init[p].clock, p)'
    <3>1. CASE p = Bsp /\ Time!Present(c)
      <4>1. init'[p] = r /\ r.clock = c /\ now <= now
        BY <1>4, <1>6, <3>1, TimeFacts
      <4>2. Ahead(init[p].clock, p)' = Ahead(c, Bsp)'
        BY <3>1, <4>1 DEF Ahead, LostAt
      <4>. QED
        BY <1>4, <4>1, <4>2, ClockConstants
    <3>2. CASE p = Bsp /\ ~Time!Present(c)
      BY <1>4, <1>6, <3>2
    <3>3. CASE p # Bsp
      <4>1. init'[p] = init[p]
        BY <1>6, <3>3
      <4>2. PICK d : d = init[p].clock
        OBVIOUS
      <4>3. Ahead(init[p].clock, p)' = Ahead(d, p)'
        BY <4>1, <4>2 DEF Ahead, LostAt
      <4>4. Ahead(d, p)' = Ahead(d, p)
        BY <1>7, <3>3
      <4>. QED
        BY <4>1, <4>2, <4>3, <4>4, TimeFacts DEF TimeReads
    <3>. QED
      BY <3>1, <3>2, <3>3
  <2>. QED
    BY <1>1, <2>1 DEF TimeReads
<1>10. tasks # Time!ClockNames
  BY <1>1
<1>11. \A p \in Cpus \ {Bsp} : p \notin running_cpus /\ init[p] = Time!Idle /\ init'[p] = Time!Idle
  BY <1>6, <1>10, TimeFacts DEF TimeOrder
<1>12. TimeOrder'
  <2>1. init'[Bsp].clock \in {c, Time!None} /\ (init'[Bsp] # Time!Idle => init'[Bsp].clock = c)
    BY <1>4, <1>6
  <2>2. /\ Bsp \in running_cpus' /\ \A p \in Cpus \ running_cpus' : held'[p] = Time!None /\ seen'[p] = 0
        /\ clocks' \subseteq tasks'
    BY <1>1, TimeFacts DEF TimeOrder
  <2>3. init'[Bsp] # Time!Idle => init'[Bsp].clock \in tasks' \ clocks' /\ held'[Bsp] = Time!None
    BY <1>1, <2>1, TimeFacts DEF TimeOrder
  <2>4. \A d \in tasks' : Time!Requires(d) \subseteq tasks'
    BY <1>1, TimeFacts DEF TimeOrder
  <2>5. "acpipm" \in tasks' => "acpipm" \in clocks' \/ init'[Bsp].clock = "acpipm"
    <3>1. CASE c = "acpipm"
      BY <1>2, <1>4, <1>6, <3>1
    <3>2. CASE c # "acpipm"
      <4>1. "acpipm" \in tasks /\ init[Bsp].clock # "acpipm"
        BY <1>1, <1>4, <3>2, Requirements DEF Time!None
      <4>. QED
        BY <1>1, <4>1, TimeFacts DEF TimeOrder
    <3>. QED
      BY <3>1, <3>2
  <2>6. init'[Bsp].clock = "acpipm" => tasks' = {"acpipm"}
    <3>. SUFFICES ASSUME init'[Bsp].clock = "acpipm" PROVE tasks' = {"acpipm"}
      OBVIOUS
    <3>1. c = "acpipm"
      BY <2>1 DEF Time!None
    <3>2. tasks = {}
      <4>. SUFFICES ASSUME NEW d \in tasks PROVE FALSE
        OBVIOUS
      <4>1. d \in Time!ClockNames /\ d # "acpipm" /\ Time!Requires(d) \subseteq tasks
        BY <1>1, <3>1, TimeFacts DEF TimeOrder
      <4>. QED
        BY <1>1, <3>1, <4>1, Requirements
    <3>. QED
      BY <1>1, <3>1, <3>2
  <2>7. init'[Bsp].clock = "kvm" => "tsc" \notin tasks'
    <3>. SUFFICES ASSUME init'[Bsp].clock = "kvm" PROVE "tsc" \notin tasks'
      OBVIOUS
    <3>1. c = "kvm"
      BY <2>1 DEF Time!None
    <3>2. "tsc" \notin tasks
      BY <1>1, <3>1, Requirements, TimeFacts DEF TimeOrder
    <3>. QED
      BY <1>1, <3>1, <3>2
  <2>8. "tsc" \notin clocks'
    BY <1>1, <1>10, TimeFacts DEF TimeOrder
  <2>9. tscFrom' = "hpet" => /\ {"hpet"} \subseteq clocks' /\ "kvm" \in tasks' \ clocks'
                             /\ init'[Bsp].clock # "kvm"
    BY <1>1, <2>1, TimeFacts DEF TimeOrder, Time!None
  <2>. QED
    BY <1>11, <2>2, <2>3, <2>4, <2>5, <2>6, <2>7, <2>8, <2>9, <1>1 DEF TimeOrder
<1>13. TimeMain' /\ TimeAhead' /\ TimeSeen'
  <2>0. "tsc" \notin clocks
    BY <1>1, <1>10, TimeFacts DEF TimeOrder
  <2>1. ASSUME NEW p \in Cpus, TscSet(p)' PROVE TscSet(p) /\ (p = Bsp => c # "tsc")
    <3>1. CASE p = Bsp
      <4>1. is_calibrated /\ "tsc" \in tasks' /\ init'[Bsp].clock # "tsc"
        BY <1>1, <2>1, <3>1 DEF TscSet
      <4>2. c # "tsc"
        BY <1>3, <1>4, <1>6, <4>1
      <4>3. init[Bsp].clock # "tsc"
        BY <1>1, <1>4 DEF Time!None
      <4>. QED
        BY <1>1, <3>1, <4>1, <4>2, <4>3 DEF TscSet
    <3>2. CASE p # Bsp
      BY <1>1, <2>1, <3>2 DEF TscSet
    <3>. QED
      BY <3>1, <3>2
  <2>2. CASE c = "tsc"
    <3>1. \A p \in Cpus : TscSet(p)' => TscSet(p) /\ p # Bsp
      BY <2>1, <2>2
    <3>. QED
      BY <1>1, <1>5, <1>7, <2>0, <3>1, TimeStillReading
  <2>3. CASE c # "tsc"
    <3>1. tscLag' = tscLag /\ \A p \in Cpus : TscSet(p)' => TscSet(p)
      BY <1>1, <2>1, <2>3
    <3>. QED
      BY <1>1, <3>1, TimeStill
  <2>. QED
    BY <2>2, <2>3
<1>. QED
  BY <1>8, <1>9, <1>12, <1>13 DEF TimeInv

LEMMA TimeApInit ==
  ASSUME TimeInv, NEW q \in Cpus, Time!ApInit(q)
  PROVE  TimeInv'
<1>. DEFINE r == [clock |-> "tsc", own |-> now + Ahead("tsc", q)', at |-> now]
<1>0. /\ tscLag' = [tscLag EXCEPT ![q] = lag] /\ offset' = offset /\ "tsc" \in Time!ClockNames
  BY DEF Time!ApInit, Time!ClockNames
<1>1. /\ q \notin running_cpus /\ tasks = Time!ClockNames /\ init[Bsp] = Time!Idle
      /\ init' = [init EXCEPT ![q] = r]
      /\ UNCHANGED <<now, clocks, main, offset, tasks, is_calibrated, running_cpus, held, seen, lag,
                     tscFrom, slack>>
  <2>1. Time!TimeNs("tsc", q) = now + Ahead("tsc", q)'
    BY <1>0, TimeNsNow
  <2>. QED
    BY <2>1 DEF Time!ApInit
<1>2. q # Bsp /\ Bsp \in Cpus
  BY <1>1, TimeFacts, ClockConstants DEF TimeOrder
<1>3. /\ r.clock = "tsc" /\ r.own = now + Ahead("tsc", q)' /\ r.at = now
      /\ r \in [clock : Time!ClockNames \cup {Time!None}, own : Int, at : Nat]
  <2>1. now + Ahead("tsc", q)' \in Int /\ now \in Nat /\ "tsc" \in Time!ClockNames
    <3>1. Ahead("tsc", q)' \in Int
      BY <1>0, TimeNsNow
    <3>. QED
      BY <1>0, <3>1, TimeFacts
  <2>. QED
    BY <2>1
<1>. HIDE DEF r
<1>4. init \in [Cpus -> [clock : Time!ClockNames \cup {Time!None}, own : Int, at : Nat]]
  BY TimeFacts DEF TimeTypes
<1>5. /\ init' \in [Cpus -> [clock : Time!ClockNames \cup {Time!None}, own : Int, at : Nat]]
      /\ \A p \in Cpus \ {q} : init'[p] = init[p]
      /\ init'[q] = r /\ init'[Bsp] = init[Bsp]
  BY <1>1, <1>2, <1>3, <1>4
<1>6. /\ tscLag' \in [Cpus -> Nat] /\ \A p \in Cpus : tscLag'[p] <= lag
      /\ \A d, p : d # "tsc" \/ (p \in Cpus /\ p # q) => Ahead(d, p)' = Ahead(d, p)
  BY <1>0, TimeNsNow
<1>7. TimeTypes'
  BY <1>1, <1>5, <1>6, TimeFacts DEF TimeTypes
<1>8. TimeReads'
  <2>1. ASSUME NEW p \in Cpus
        PROVE  IF init'[p].clock = Time!None THEN init'[p] = Time!Idle
               ELSE init'[p].at <= now /\ init'[p].own = init'[p].at + Ahead(init[p].clock, p)'
    <3>1. CASE p = q
      <4>1. Time!None # "tsc" /\ init'[p] = r /\ r.clock = "tsc" /\ now <= now
        BY <1>3, <1>5, <3>1, TimeFacts DEF Time!None
      <4>2. Ahead(init[p].clock, p)' = Ahead("tsc", q)'
        BY <3>1, <4>1 DEF Ahead, LostAt
      <4>. QED
        BY <1>3, <4>1, <4>2
    <3>2. CASE p # q
      <4>1. init'[p] = init[p]
        BY <1>5, <3>2
      <4>2. PICK d : d = init[p].clock
        OBVIOUS
      <4>3. Ahead(init[p].clock, p)' = Ahead(d, p)'
        BY <4>1, <4>2 DEF Ahead, LostAt
      <4>4. Ahead(d, p)' = Ahead(d, p)
        BY <1>6, <3>2
      <4>. QED
        BY <4>1, <4>2, <4>3, <4>4, TimeFacts DEF TimeReads
    <3>. QED
      BY <3>1, <3>2
  <2>. QED
    BY <1>1, <2>1 DEF TimeReads
<1>9. TimeOrder'
  BY <1>1, <1>2, <1>3, <1>5, TimeFacts DEF TimeOrder
<1>10. TimeMain' /\ TimeAhead' /\ TimeSeen'
  <2>0. "tsc" \notin clocks
    BY <1>1, TimeFacts DEF TimeOrder
  <2>1. \A p \in Cpus : TscSet(p)' => TscSet(p) /\ p # q
    BY <1>1, <1>2, <1>5 DEF TscSet
  <2>. QED
    BY <1>1, <1>6, <2>0, <2>1, TimeStillReading
<1>. QED
  BY <1>7, <1>8, <1>9, <1>10 DEF TimeInv

LEMMA TimeMainClock ==
  ASSUME TimeInv, NEW q \in Cpus, Time!MainClock(q)
  PROVE  TimeInv'
<1>1. /\ q \in running_cpus /\ init[q] = Time!Idle /\ held[q] = Time!None /\ main # Time!None
      /\ held' = [held EXCEPT ![q] = main]
      /\ UNCHANGED <<now, clocks, main, offset, tasks, init, is_calibrated, running_cpus, seen,
                     lag, tscLag, tscFrom, slack>>
  BY DEF Time!MainClock
<1>2. TimeMain' /\ (\A c, p : Ahead(c, p)' = Ahead(c, p)) /\ (\A p : Gap(p)' = Gap(p))
      /\ TimeAhead'
  BY <1>1, TimeStill DEF TscSet
<1>3. main \in clocks
  BY <1>1, TimeFacts DEF TimeMain
<1>4. held' \in [Cpus -> Time!ClockNames \cup {Time!None}]
      /\ \A p \in Cpus : held'[p] = IF p = q THEN main ELSE held[p]
  BY <1>1, <1>3, TimeFacts
<1>5. TimeTypes' /\ TimeReads'
  BY <1>1, <1>2, <1>4, TimeFacts DEF TimeTypes, TimeReads
<1>6. TimeOrder'
  BY <1>1, <1>4, TimeFacts DEF TimeOrder
<1>7. TimeSeen'
  <2>. SUFFICES ASSUME NEW p \in Cpus
       PROVE  /\ main = Time!None => seen[p] = 0
              /\ main # Time!None => seen[p] <= now + Ahead(main, p) + Gap(p)
              /\ held'[p] # Time!None =>
                   /\ held'[p] \in clocks
                   /\ seen[p] <= now + Ahead(held'[p], p) + Gap(p)
                   /\ Ahead(held'[p], p) <= Ahead(main, p) + Gap(p)
    BY <1>1, <1>2 DEF TimeSeen
  <2>1. CASE p = q
    BY <1>1, <1>3, <1>4, <2>1, TimeFacts DEF TimeSeen
  <2>2. CASE p # q
    BY <1>4, <2>2, TimeFacts DEF TimeSeen
  <2>. QED
    BY <2>1, <2>2
<1>. QED
  BY <1>2, <1>5, <1>6, <1>7 DEF TimeInv

\* The reading that a CPU is told.
LEMMA TimeNsStep ==
  ASSUME TimeInv, NEW q \in Cpus, Time!Ns(q)
  PROVE  /\ TimeInv' /\ seen'[q] = now + Ahead(held[q], q) - Lost(held[q], q)
         /\ \A p \in Cpus : p # q => seen'[p] = seen[p]
<1>1. /\ held[q] # Time!None /\ held' = [held EXCEPT ![q] = Time!None]
      /\ seen' = [seen EXCEPT ![q] = now + Ahead(held[q], q) - Lost(held[q], q)]
      /\ held[q] \in Time!ClockNames /\ Lost(held[q], q) \in Nat
      /\ UNCHANGED <<now, clocks, main, offset, tasks, init, is_calibrated, running_cpus,
                     lag, tscLag, tscFrom, slack>>
  <2>1. held[q] # Time!None
    BY DEF Time!Ns
  <2>2. /\ held[q] \in Time!ClockNames /\ Lost(held[q], q) \in Nat
        /\ Time!TimeNs(held[q], q) = now + Ahead(held[q], q) - Lost(held[q], q)
    <3>1. held[q] \in Time!ClockNames
      BY <2>1, TimeFacts
    <3>. QED
      BY <3>1, TimeNsIs
  <2>. QED
    BY <2>1, <2>2 DEF Time!Ns
<1>2. TimeMain' /\ (\A c, p : Ahead(c, p)' = Ahead(c, p)) /\ (\A p : Gap(p)' = Gap(p))
      /\ TimeAhead'
  BY <1>1, TimeStill DEF TscSet
<1>3. /\ held[q] \in Time!ClockNames /\ now \in Int /\ Ahead(held[q], q) \in Int
      /\ Lost(held[q], q) \in Nat
      /\ main # Time!None /\ main \in Time!ClockNames
      /\ seen[q] <= now + Ahead(held[q], q) + Gap(q)
      /\ Ahead(held[q], q) <= Ahead(main, q) + Gap(q)
  BY <1>1, TimeFacts DEF TimeSeen, TimeMain
<1>4. /\ held' \in [Cpus -> Time!ClockNames \cup {Time!None}] /\ seen' \in [Cpus -> Int]
      /\ held'[q] = Time!None /\ seen'[q] = now + Ahead(held[q], q) - Lost(held[q], q)
      /\ \A p \in Cpus : p # q => held'[p] = held[p] /\ seen'[p] = seen[p]
  BY <1>1, <1>3, TimeFacts
<1>5. TimeTypes' /\ TimeReads'
  BY <1>1, <1>2, <1>4, TimeFacts DEF TimeTypes, TimeReads
<1>6. TimeOrder'
  BY <1>1, <1>4, TimeFacts DEF TimeOrder
<1>7. TimeSeen'
  <2>. SUFFICES ASSUME NEW p \in Cpus
       PROVE  /\ main = Time!None => seen'[p] = 0
              /\ main # Time!None => seen'[p] <= now + Ahead(main, p) + Gap(p)
              /\ held'[p] # Time!None =>
                   /\ held'[p] \in clocks
                   /\ seen'[p] <= now + Ahead(held'[p], p) + Gap(p)
                   /\ Ahead(held'[p], p) <= Ahead(main, p) + Gap(p)
    BY <1>1, <1>2 DEF TimeSeen
  <2>1. CASE p = q
    BY <1>3, <1>4, <2>1, TimeFacts
  <2>2. CASE p # q
    BY <1>4, <2>2, TimeFacts DEF TimeSeen
  <2>. QED
    BY <2>1, <2>2
<1>. QED
  BY <1>2, <1>4, <1>5, <1>6, <1>7 DEF TimeInv

\* The main clock that a registration leaves.
LEMMA RegisterMain ==
  ASSUME TimeInv, NEW c \in Time!ClockNames, Time!Register(c)
  PROVE  /\ clocks' = clocks \cup {c} /\ TimeMain'
         /\ main' \in {c, main} /\ main' \in Time!ClockNames /\ main' # Time!None
         /\ main # Time!None /\ main' = main => Time!priority[c] <= Time!priority[main]
         /\ main # Time!None /\ main' # main => Time!priority[main] <= Time!priority[c]
<1>. DEFINE best == IF main # Time!None /\ Time!priority[c] <= Time!priority[main] THEN main ELSE c
<1>1. clocks' = clocks \cup {c}
      /\ main' = CHOOSE d \in clocks \cup {c} :
                   \A e \in clocks \cup {c} : Time!priority[e] <= Time!priority[d]
  BY DEF Time!Register
<1>2. best \in clocks \cup {c} /\ \A e \in clocks \cup {c} : Time!priority[e] <= Time!priority[best]
  <2>1. CASE main = Time!None
    BY <2>1, TimeFacts, PriorityNat DEF TimeMain
  <2>2. CASE main # Time!None
    <3>1. main \in clocks /\ \A e \in clocks : Time!priority[e] <= Time!priority[main]
      BY <2>2, TimeFacts DEF TimeMain
    <3>2. Time!priority[c] \in Nat /\ Time!priority[main] \in Nat
          /\ \A e \in clocks : Time!priority[e] \in Nat
      BY <3>1, TimeFacts, PriorityNat
    <3>. QED
      BY <3>1, <3>2, <2>2
  <2>. QED
    BY <2>1, <2>2
<1>3. main' \in clocks' /\ \A e \in clocks' : Time!priority[e] <= Time!priority[main']
  BY <1>1, <1>2
<1>4. best \in Time!ClockNames /\ main' \in Time!ClockNames
  BY <1>1, <1>2, <1>3, TimeFacts
<1>5. main' = best
  <2>1. Time!priority[main'] <= Time!priority[best] /\ Time!priority[best] <= Time!priority[main']
    BY <1>1, <1>2, <1>3
  <2>. QED
    BY <1>4, <2>1, PriorityNat, PrioritiesDiffer
<1>6. main' # Time!None
  BY <1>4, ClockConstants
<1>7. TimeMain'
  BY <1>3, <1>6 DEF TimeMain
<1>8. Time!priority[c] \in Nat /\ (main # Time!None => Time!priority[main] \in Nat)
  BY TimeFacts, PriorityNat
<1>. QED
  BY <1>1, <1>4, <1>5, <1>6, <1>7, <1>8

\* While the boot CPU is in a timer task it is alone, and only the first task
\* finds no main clock.
LEMMA TimeTaskAlone ==
  ASSUME TimeInv, init[Bsp] # Time!Idle
  PROVE  /\ \A p \in Cpus \ {Bsp} : p \notin running_cpus /\ init[p] = Time!Idle
         /\ \A p \in Cpus : held[p] = Time!None
         /\ \A p \in Cpus \ {Bsp} : seen[p] = 0
         /\ init[Bsp].clock \in Time!ClockNames /\ init[Bsp].clock \in tasks \ clocks
         /\ "tsc" \notin clocks /\ main # "tsc"
         /\ main = Time!None => init[Bsp].clock = "acpipm" /\ tasks = {"acpipm"}
<1>1. init[Bsp].clock \in tasks \ clocks /\ held[Bsp] = Time!None /\ "tsc" \notin clocks
  BY TimeFacts DEF TimeOrder
<1>2. \A p \in Cpus \ {Bsp} : p \notin running_cpus /\ init[p] = Time!Idle
  BY TimeFacts DEF TimeOrder
<1>3. \A p \in Cpus \ {Bsp} : held[p] = Time!None /\ seen[p] = 0
  BY <1>2, TimeFacts DEF TimeOrder
<1>4. main # "tsc"
  BY <1>1, TimeFacts DEF TimeMain, Time!None
<1>5. ASSUME main = Time!None PROVE init[Bsp].clock = "acpipm" /\ tasks = {"acpipm"}
  <2>1. clocks = {}
    BY <1>5, TimeFacts DEF TimeMain
  <2>2. "acpipm" \in tasks
    <3>1. init[Bsp].clock \in Time!ClockNames /\ Time!Requires(init[Bsp].clock) \subseteq tasks
      BY <1>1, TimeFacts DEF TimeOrder
    <3>. QED
      BY <1>1, <3>1, Requirements
  <2>. QED
    BY <2>1, <2>2, TimeFacts DEF TimeOrder
<1>. QED
  BY <1>1, <1>2, <1>3, <1>4, <1>5, TimeFacts

\* What the second half of a task makes of its two readings.
LEMMA TaskOffset ==
  ASSUME TimeInv, NEW p \in Cpus, init[p] # Time!Idle, NEW c, c = init[p].clock
  PROVE  /\ Time!NewOffset(c, p, init[p].own) \in Int
         /\ main # Time!None =>
              Started[c][p] - Time!NewOffset(c, p, init[p].own) - LostAt(c, p)
                = Ahead(main, p) + (now - init[p].at)
         /\ main = Time!None /\ c # "pit" =>
              Started[c][p] - Time!NewOffset(c, p, init[p].own) - LostAt(c, p) = 0 - init[p].at
<1>1. /\ c \in Time!ClockNames /\ init[p].at \in Nat
      /\ init[p].own = init[p].at + (Started[c][p] - offset[c][p] - LostAt(c, p))
  BY TimeIdle DEF Ahead
<1>2. offset[c][p] \in Int /\ Started[c][p] \in Int /\ now \in Int /\ LostAt(c, p) \in Int
  BY <1>1, TimeFacts, ClockConstants DEF LostAt
<1>3. ASSUME main # Time!None
      PROVE  /\ Ahead(main, p) \in Int
             /\ Time!NewOffset(c, p, init[p].own) = offset[c][p] + (init[p].own - (now + Ahead(main, p)))
  <2>1. main \in Time!ClockNames /\ main # "tsc"
    <3>1. "tsc" \notin clocks
      BY ClockConstants, TimeFacts DEF TimeOrder
    <3>. QED
      BY <1>3, <3>1, TimeFacts DEF TimeMain
  <2>2. Time!TimeNs(main, p) = now + Ahead(main, p)
    <3>1. now \in Int /\ Ahead(main, p) \in Int
      BY <2>1, TimeFacts
    <3>. QED
      BY <2>1, <3>1, TimeNsIs
  <2>3. Time!NewOffset(c, p, init[p].own) = offset[c][p] + (init[p].own - Time!TimeNs(main, p))
    BY <1>3 DEF Time!NewOffset
  <2>. QED
    BY <2>1, <2>2, <2>3, TimeFacts
<1>4. ASSUME main = Time!None, c # "pit"
      PROVE  Time!NewOffset(c, p, init[p].own) = offset[c][p] + init[p].own
  BY <1>4 DEF Time!NewOffset
<1>5. ASSUME main = Time!None, c = "pit"
      PROVE  Time!NewOffset(c, p, init[p].own) = offset[c][p] + 0
  BY <1>5 DEF Time!NewOffset
<1>. HIDE DEF Time!NewOffset
<1>6. CASE main # Time!None
  BY <1>1, <1>2, <1>3, <1>6
<1>7. CASE main = Time!None /\ c # "pit"
  BY <1>1, <1>2, <1>4, <1>7
<1>8. CASE main = Time!None /\ c = "pit"
  BY <1>1, <1>2, <1>5, <1>8
<1>. QED
  BY <1>6, <1>7, <1>8

\* Both halves of SetOffset share what happens to the task that ends.
LEMMA TaskEnds ==
  ASSUME TimeInv, Time!SetOffset, NEW c, c = init[Bsp].clock
  PROVE  /\ init[Bsp] # Time!Idle /\ c \in Time!ClockNames /\ c # Time!None
         /\ init' \in [Cpus -> [clock : Time!ClockNames \cup {Time!None}, own : Int, at : Nat]]
         /\ \A p \in Cpus : init'[p] = Time!Idle
         /\ Time!Idle.clock = Time!None /\ TimeReads'
         /\ now - init[Bsp].at \in Nat /\ slack' = slack + (now - init[Bsp].at)
         /\ tscFrom' = IF c = "tsc" THEN main ELSE tscFrom
         /\ UNCHANGED <<now, tasks, is_calibrated, running_cpus, held, seen, lag, tscLag>>
<1>1. /\ init[Bsp] # Time!Idle /\ init' = [init EXCEPT ![Bsp] = Time!Idle]
      /\ slack' = slack + (now - init[Bsp].at)
      /\ tscFrom' = IF c = "tsc" THEN main ELSE tscFrom
      /\ UNCHANGED <<now, tasks, is_calibrated, running_cpus, held, seen, lag, tscLag>>
  BY DEF Time!SetOffset
<1>2. Bsp \in Cpus
  BY ClockConstants
<1>3. c \in Time!ClockNames /\ c # Time!None /\ now - init[Bsp].at \in Nat
  BY <1>1, <1>2, TimeIdle, ClockConstants, TimeFacts
<1>4. init \in [Cpus -> [clock : Time!ClockNames \cup {Time!None}, own : Int, at : Nat]]
  BY TimeFacts DEF TimeTypes
<1>5. /\ Time!Idle \in [clock : Time!ClockNames \cup {Time!None}, own : Int, at : Nat]
      /\ Time!Idle.clock = Time!None
  BY DEF Time!Idle
<1>6. \A p \in Cpus \ {Bsp} : init[p] = Time!Idle
  BY <1>1, TimeTaskAlone
<1>7. /\ init' \in [Cpus -> [clock : Time!ClockNames \cup {Time!None}, own : Int, at : Nat]]
      /\ \A p \in Cpus : init'[p] = Time!Idle
  BY <1>1, <1>2, <1>4, <1>5, <1>6
<1>8. TimeReads'
  BY <1>5, <1>7 DEF TimeReads
<1>. QED
  BY <1>1, <1>3, <1>5, <1>7, <1>8

LEMMA TimeSetTsc ==
  ASSUME TimeInv, Time!SetOffset, init[Bsp].clock = "tsc"
  PROVE  TimeInv'
<1>. DEFINE new == Time!NewOffset("tsc", Bsp, init[Bsp].own)
<1>1. /\ init[Bsp] # Time!Idle /\ \A p \in Cpus : init'[p] = Time!Idle
      /\ init' \in [Cpus -> [clock : Time!ClockNames \cup {Time!None}, own : Int, at : Nat]]
      /\ Time!Idle.clock = Time!None /\ TimeReads'
      /\ now - init[Bsp].at \in Nat /\ slack' = slack + (now - init[Bsp].at) /\ tscFrom' = main
      /\ UNCHANGED <<now, tasks, is_calibrated, running_cpus, held, seen, lag, tscLag>>
  BY TaskEnds
<1>2. offset' = [offset EXCEPT !["tsc"][Bsp] = new] /\ UNCHANGED <<clocks, main>>
  BY DEF Time!SetOffset
<1>3. /\ \A p \in Cpus \ {Bsp} : p \notin running_cpus
      /\ \A p \in Cpus : held[p] = Time!None
      /\ "tsc" \in tasks /\ "tsc" \notin clocks /\ main \notin {"tsc", Time!None}
  BY <1>1, TimeTaskAlone
<1>4. Bsp \in Cpus /\ "tsc" \in Time!ClockNames /\ main \in Time!ClockNames
  BY <1>3, ClockConstants, TimeFacts DEF Time!ClockNames
<1>5. new \in Int /\ Started["tsc"][Bsp] - new - LostAt("tsc", Bsp) = Ahead(main, Bsp) + (now - init[Bsp].at)
  BY <1>1, <1>3, <1>4, TaskOffset
<1>. HIDE DEF new
<1>6. /\ offset' \in [Time!ClockNames -> [Cpus -> Int]] /\ offset'["tsc"][Bsp] = new
      /\ \A c \in Time!ClockNames \ {"tsc"} : offset'[c] = offset[c]
  BY <1>2, <1>4, <1>5, TimeFacts
<1>7. /\ Ahead("tsc", Bsp)' = Ahead(main, Bsp) + (now - init[Bsp].at)
      /\ \A c \in Time!ClockNames \ {"tsc"}, p \in Cpus : Ahead(c, p)' = Ahead(c, p)
  BY <1>1, <1>5, <1>6 DEF Ahead, LostAt
<1>8. TimeTypes'
  BY <1>1, <1>2, <1>6, TimeFacts DEF TimeTypes
<1>9. TimeMain'
  BY <1>2, TimeFacts DEF TimeMain
<1>10. TimeOrder'
  <2>1. init'[Bsp] = Time!Idle /\ init'[Bsp].clock = Time!None /\ Time!None \notin Time!ClockNames
        /\ Time!None \notin {"acpipm", "kvm", "tsc"}
    BY <1>1, <1>4, ClockConstants DEF Time!None
  <2>2. "acpipm" \in clocks
    BY <1>3, Requirements, TimeFacts DEF TimeOrder
  <2>3. tscFrom' = "hpet" => "hpet" \in clocks /\ "kvm" \in tasks \ clocks
    <3>. SUFFICES ASSUME main = "hpet" PROVE "hpet" \in clocks /\ "kvm" \in tasks \ clocks
      BY <1>1
    <3>1. "kvm" \in tasks
      BY <1>3, Requirements, TimeFacts DEF TimeOrder
    <3>2. "hpet" \in clocks /\ "kvm" \notin clocks
      BY <1>3, Priorities, TimeFacts DEF TimeMain
    <3>. QED
      BY <3>1, <3>2
  <2>. QED
    BY <1>1, <1>2, <1>3, <2>1, <2>2, <2>3, TimeFacts DEF TimeOrder
<1>11. TimeAhead'
  <2>1. \A p \in Cpus : TscSet(p)' => p = Bsp
    BY <1>1, <1>3 DEF TscSet
  <2>2. TscGap(Bsp)' \in Nat
    BY <1>1, TimeFacts DEF TscGap
  <2>3. Ahead(main, Bsp)' = Ahead(main, Bsp) /\ Ahead(main, Bsp) \in Int
    BY <1>2, <1>3, <1>4, <1>7, TimeFacts
  <2>4. now + Ahead(main, Bsp) >= 0
    BY <1>3, TimeFacts DEF TimeAhead
  <2>5. Ahead(main, Bsp)' <= Ahead("tsc", Bsp)' + TscGap(Bsp)'
    BY <1>1, <1>7, <2>2, <2>3
  <2>6. \A c \in Time!ClockNames \ {"tsc"}, p \in Cpus : Ahead(c, p)' = Ahead(c, Bsp)'
    BY <1>4, <1>7, TimeFacts DEF TimeAhead
  <2>. QED
    BY <1>1, <1>2, <2>1, <2>3, <2>4, <2>5, <2>6 DEF TimeAhead
<1>12. TimeSeen'
  <2>1. \A p : Gap(p)' = 0 /\ Gap(p) = 0
    BY <1>2, <1>3 DEF Gap
  <2>2. \A p \in Cpus : Ahead(main, p)' = Ahead(main, p)
    BY <1>2, <1>3, <1>4, <1>7
  <2>. QED
    BY <1>1, <1>2, <1>3, <2>1, <2>2, TimeFacts DEF TimeSeen
<1>. QED
  BY <1>1, <1>8, <1>9, <1>10, <1>11, <1>12 DEF TimeInv

LEMMA TimeSetShared ==
  ASSUME TimeInv, Time!SetOffset, init[Bsp].clock # "tsc"
  PROVE  TimeInv'
<1>c. PICK c : c = init[Bsp].clock
  OBVIOUS
<1>d. PICK d : d = now - init[Bsp].at
  OBVIOUS
<1>n. PICK new : new = Time!NewOffset(c, Bsp, init[Bsp].own)
  OBVIOUS
<1>m. PICK m : m = main'
  OBVIOUS
<1>1. /\ init[Bsp] # Time!Idle /\ \A p \in Cpus : init'[p] = Time!Idle
      /\ c \in Time!ClockNames /\ c # Time!None
      /\ init' \in [Cpus -> [clock : Time!ClockNames \cup {Time!None}, own : Int, at : Nat]]
      /\ Time!Idle.clock = Time!None /\ TimeReads'
      /\ d \in Nat /\ slack' = slack + d /\ tscFrom' = tscFrom
      /\ UNCHANGED <<now, tasks, is_calibrated, running_cpus, held, seen, lag, tscLag>>
  BY <1>c, <1>d, TaskEnds
<1>2. offset' = [offset EXCEPT ![c] = [p \in Cpus |-> new]] /\ Time!Register(c)
  BY <1>c, <1>n DEF Time!SetOffset
<1>3. /\ \A p \in Cpus \ {Bsp} : p \notin running_cpus /\ seen[p] = 0
      /\ \A p \in Cpus : held[p] = Time!None
      /\ c \in tasks \ clocks /\ "tsc" \notin clocks /\ main # "tsc"
      /\ main = Time!None => c = "acpipm" /\ tasks = {"acpipm"}
  BY <1>c, <1>1, TimeTaskAlone
<1>4. Bsp \in Cpus /\ c # "tsc"
  BY <1>c, ClockConstants
<1>5. /\ new \in Int
      /\ main # Time!None => Started[c][Bsp] - new = Ahead(main, Bsp) + d
      /\ main = Time!None => Started[c][Bsp] - new = 0 - init[Bsp].at
  <2>1. LostAt(c, Bsp) = 0 /\ Started[c][Bsp] \in Nat /\ new \in Int
    BY <1>c, <1>n, <1>1, <1>4, TaskOffset, ClockConstants DEF LostAt
  <2>2. Started[c][Bsp] - new - 0 = Started[c][Bsp] - new
    BY <2>1
  <2>. QED
    BY <1>c, <1>d, <1>n, <1>1, <1>3, <1>4, <2>1, <2>2, TaskOffset
<1>6. /\ init[Bsp].at \in Nat /\ init[Bsp].at <= now /\ now \in Nat
  BY <1>1, <1>4, TimeIdle, TimeFacts
<1>a. PICK a : a = Started[c][Bsp] - new
  OBVIOUS
<1>7. /\ a \in Int /\ now + a >= 0
      /\ main # Time!None => a = Ahead(main, Bsp) + d /\ Ahead(main, Bsp) \in Int
  <2>1. CASE main = Time!None
    BY <1>a, <1>5, <1>6, <2>1
  <2>2. CASE main # Time!None
    <3>1. now + Ahead(main, Bsp) >= 0 /\ Ahead(main, Bsp) \in Int
      BY <1>3, <1>4, <2>2, TimeFacts DEF TimeAhead
    <3>. QED
      BY <1>a, <1>1, <1>5, <1>6, <2>2, <3>1
  <2>. QED
    BY <2>1, <2>2
<1>8. /\ offset' \in [Time!ClockNames -> [Cpus -> Int]] /\ \A p \in Cpus : offset'[c][p] = new
      /\ \A e \in Time!ClockNames \ {c} : offset'[e] = offset[e]
  BY <1>1, <1>2, <1>5, TimeFacts
<1>9. /\ \A p \in Cpus : Ahead(c, p)' = a
      /\ \A e \in Time!ClockNames \ {c}, p \in Cpus : Ahead(e, p)' = Ahead(e, p)
  <2>1. \A p \in Cpus : Started[c][p] = Started[c][Bsp]
    BY <1>1, <1>4, ClockConstants
  <2>2. Started[c][Bsp] - new - 0 = Started[c][Bsp] - new
    BY <1>1, <1>4, <1>5, ClockConstants
  <2>. QED
    BY <1>a, <1>1, <1>4, <1>8, <2>1, <2>2 DEF Ahead, LostAt
<1>10. /\ clocks' = clocks \cup {c} /\ TimeMain' /\ m \in {c, main} /\ m \in Time!ClockNames
       /\ m # Time!None
       /\ main # Time!None /\ m # main => Time!priority[main] <= Time!priority[c]
  BY <1>m, <1>1, <1>2, RegisterMain
<1>11. m # "tsc"
  BY <1>3, <1>4, <1>10
<1>12. main # Time!None => main \in clocks /\ main # c
  BY <1>3, TimeFacts DEF TimeMain
<1>13. /\ \A p \in Cpus : Ahead(m, p)' = Ahead(m, Bsp)' /\ Ahead(m, p)' \in Int
       /\ now + Ahead(m, Bsp)' >= 0
       /\ main # Time!None => Ahead(m, Bsp)' >= Ahead(main, Bsp)
       /\ main # Time!None => Ahead(m, Bsp)' <= Ahead(main, Bsp) + d
  <2>1. CASE m = c
    BY <1>1, <1>4, <1>7, <1>9, <2>1
  <2>2. CASE m # c
    <3>1. m = main /\ main # Time!None /\ main \in Time!ClockNames \ {c}
      BY <1>10, <2>2
    <3>2. /\ \A p \in Cpus : Ahead(m, p)' = Ahead(main, p) /\ Ahead(main, p) \in Int
                             /\ Ahead(main, p) = Ahead(main, Bsp)
          /\ now + Ahead(main, Bsp) >= 0
      BY <1>3, <1>4, <1>9, <3>1, TimeFacts DEF TimeAhead
    <3>. QED
      BY <1>1, <1>4, <3>1, <3>2
  <2>. QED
    BY <2>1, <2>2
<1>14a. \A p : Ahead(main, p)' = Ahead(m, p)'
  BY <1>m DEF Ahead, LostAt
<1>14. TimeTypes'
  BY <1>m, <1>1, <1>8, <1>10, TimeFacts DEF TimeTypes
<1>15. tscFrom = "hpet" => m = main /\ main # Time!None /\ c # "kvm"
  <2>. SUFFICES ASSUME tscFrom = "hpet" PROVE m = main /\ main # Time!None /\ c # "kvm"
    OBVIOUS
  <2>1. "hpet" \in clocks /\ "kvm" \in tasks \ clocks /\ c # "kvm"
    BY <1>c, TimeFacts DEF TimeOrder
  <2>2. main # Time!None /\ Time!priority["hpet"] <= Time!priority[main] /\ main \in Time!ClockNames
    BY <2>1, TimeFacts DEF TimeMain
  <2>3. c \in {"pit", "acpipm"}
    BY <1>1, <1>3, <1>4, <2>1 DEF Time!ClockNames
  <2>4. ~(Time!priority[main] <= Time!priority[c])
    BY <2>2, <2>3, Priorities, PriorityNat
  <2>. QED
    BY <1>10, <2>1, <2>2, <2>4
<1>16. TimeOrder'
  <2>1. init'[Bsp] = Time!Idle /\ init'[Bsp].clock = Time!None
        /\ Time!None \notin {"acpipm", "kvm", "tsc"}
    BY <1>1, <1>4 DEF Time!None
  <2>2. "acpipm" \in tasks => "acpipm" \in clocks'
    BY <1>10, <1>c, TimeFacts DEF TimeOrder
  <2>3. tscFrom = "hpet" => "hpet" \in clocks' /\ "kvm" \in tasks \ clocks'
    BY <1>10, <1>15, TimeFacts DEF TimeOrder
  <2>4. "tsc" \notin clocks' /\ clocks' \subseteq tasks
    BY <1>3, <1>4, <1>10, TimeFacts DEF TimeOrder
  <2>. QED
    BY <1>1, <1>3, <2>1, <2>2, <2>3, <2>4, TimeFacts DEF TimeOrder
<1>17. TimeAhead'
  <2>1. ASSUME NEW p \in Cpus, TscSet(p)' PROVE p = Bsp /\ TscSet(Bsp) /\ main # Time!None
    <3>1. p = Bsp
      BY <1>1, <1>3, <2>1 DEF TscSet
    <3>2. is_calibrated /\ "tsc" \in tasks
      BY <1>1, <2>1, <3>1 DEF TscSet
    <3>. QED
      BY <1>c, <1>3, <1>4, <3>1, <3>2 DEF TscSet
  <2>2. ASSUME TscSet(Bsp), main # Time!None
        PROVE  Ahead(m, Bsp)' <= Ahead("tsc", Bsp)' + TscGap(Bsp)'
    <3>1. Ahead(main, Bsp) <= Ahead("tsc", Bsp) + TscGap(Bsp) /\ Ahead(main, Bsp) \in Int
      BY <1>3, <1>4, <2>2, TimeFacts DEF TimeAhead
    <3>2. Ahead("tsc", Bsp)' = Ahead("tsc", Bsp) /\ Ahead("tsc", Bsp) \in Int
      BY <1>4, <1>9, TimeFacts DEF Time!ClockNames
    <3>3. CASE tscFrom = "hpet"
      <4>1. TscGap(Bsp) = 0 /\ TscGap(Bsp)' = 0
        BY <1>1, <3>3 DEF TscGap
      <4>2. Ahead(m, Bsp)' = Ahead(main, Bsp)
        BY <1>4, <1>9, <1>12, <1>15, <2>2, <3>3, TimeFacts
      <4>. QED
        BY <3>1, <3>2, <4>1, <4>2
    <3>4. CASE tscFrom # "hpet"
      <4>1. TscGap(Bsp) = slack /\ TscGap(Bsp)' = slack + d
        BY <1>1, <3>4 DEF TscGap
      <4>. QED
        BY <1>1, <1>4, <1>13, <2>2, <3>1, <3>2, <4>1, TimeFacts
    <3>. QED
      BY <3>3, <3>4
  <2>3. \A e \in Time!ClockNames \ {"tsc"}, p \in Cpus : Ahead(e, p)' = Ahead(e, Bsp)'
    <3>. SUFFICES ASSUME NEW e \in Time!ClockNames \ {"tsc"}, NEW p \in Cpus
         PROVE  Ahead(e, p)' = Ahead(e, Bsp)'
      OBVIOUS
    <3>1. CASE e = c
      BY <1>4, <1>9, <3>1
    <3>2. CASE e # c
      <4>1. Ahead(e, p)' = Ahead(e, p) /\ Ahead(e, Bsp)' = Ahead(e, Bsp)
        BY <1>4, <1>9, <3>2
      <4>. QED
        BY <4>1, TimeFacts DEF TimeAhead
    <3>. QED
      BY <3>1, <3>2
  <2>4. \A p \in Cpus : TscSet(p)' => Ahead(m, p)' <= Ahead("tsc", p)' + TscGap(p)'
    BY <2>1, <2>2
  <2>. QED
    BY <1>m, <1>1, <1>13, <1>14a, <2>3, <2>4 DEF TimeAhead
<1>18. TimeSeen'
  <2>1. \A p : Gap(p)' = 0 /\ Gap(p) = 0
    BY <1>m, <1>3, <1>11 DEF Gap
  <2>2. ASSUME NEW p \in Cpus PROVE seen[p] <= now + Ahead(m, p)'
    <3>1. CASE seen[p] = 0
      BY <1>13, <3>1
    <3>2. CASE seen[p] # 0
      <4>1. p = Bsp /\ main # Time!None /\ seen[p] \in Int
        BY <1>3, <3>2, TimeFacts DEF TimeSeen
      <4>2. seen[p] <= now + Ahead(main, Bsp) + 0 /\ Ahead(main, Bsp) \in Int
        BY <1>4, <2>1, <4>1, TimeFacts DEF TimeSeen
      <4>. QED
        BY <1>4, <1>6, <1>13, <4>1, <4>2
    <3>. QED
      BY <3>1, <3>2
  <2>. QED
    BY <1>m, <1>1, <1>3, <1>10, <1>13, <1>14a, <2>1, <2>2, <1>6 DEF TimeSeen
<1>. QED
  BY <1>1, <1>10, <1>14, <1>16, <1>17, <1>18 DEF TimeInv

\* Once all tasks have run there is a main clock; it is not tsc before finalise().
LEMMA TimeTasksDone ==
  ASSUME TimeInv, tasks = Time!ClockNames, init[Bsp] = Time!Idle, "tsc" \notin clocks
  PROVE  /\ main \in Time!ClockNames \ {"tsc"} /\ main \in clocks /\ main # Time!None
         /\ \A p : Gap(p) = 0
<1>1. "acpipm" \in tasks /\ init[Bsp].clock # "acpipm"
  BY DEF Time!ClockNames, Time!Idle, Time!None
<1>2. "acpipm" \in clocks
  BY <1>1, TimeFacts DEF TimeOrder
<1>3. main \in clocks /\ main # Time!None /\ main \in Time!ClockNames
  BY <1>2, TimeFacts DEF TimeMain
<1>4. \A p : Gap(p) = 0
  BY <1>3 DEF Gap
<1>. QED
  BY <1>3, <1>4

LEMMA TimeApOnline ==
  ASSUME TimeInv, NEW q \in Cpus, Time!ApOnline(q)
  PROVE  TimeInv'
<1>1. /\ q \notin running_cpus /\ tasks = Time!ClockNames /\ init[Bsp] = Time!Idle
      /\ is_calibrated => init[q] # Time!Idle
      /\ init' = [init EXCEPT ![q] = Time!Idle] /\ running_cpus' = running_cpus \cup {q}
      /\ UNCHANGED <<now, clocks, main, tasks, is_calibrated, held, seen, lag, tscLag, tscFrom, slack>>
  BY DEF Time!ApOnline
<1>2. /\ is_calibrated => offset' = [offset EXCEPT !["tsc"][q] = Time!NewOffset("tsc", q, init[q].own)]
      /\ ~is_calibrated => offset' = offset
  BY DEF Time!ApOnline
<1>3. /\ q # Bsp /\ Bsp \in Cpus /\ "tsc" \notin clocks /\ "tsc" \in Time!ClockNames
      /\ held[q] = Time!None /\ seen[q] = 0
      /\ init[q] # Time!Idle => init[q].clock = "tsc"
  BY <1>1, TimeFacts, ClockConstants DEF TimeOrder, Time!ClockNames
<1>4. /\ main \in Time!ClockNames \ {"tsc"} /\ main # Time!None /\ \A p : Gap(p) = 0
  BY <1>1, <1>3, TimeTasksDone
<1>5. /\ offset' \in [Time!ClockNames -> [Cpus -> Int]]
      /\ \A c \in Time!ClockNames, p \in Cpus : c # "tsc" \/ p # q => offset'[c][p] = offset[c][p]
      /\ is_calibrated =>
           Started["tsc"][q] - offset'["tsc"][q] - LostAt("tsc", q) = Ahead(main, q) + (now - init[q].at)
  <2>1. CASE is_calibrated
    <3>1. init[q] # Time!Idle /\ "tsc" = init[q].clock
      BY <1>1, <1>3, <2>1
    <3>2. PICK new : new = Time!NewOffset("tsc", q, init[q].own)
      OBVIOUS
    <3>3. new \in Int /\ Started["tsc"][q] - new - LostAt("tsc", q) = Ahead(main, q) + (now - init[q].at)
      BY <1>4, <3>1, <3>2, TaskOffset
    <3>4. offset' = [offset EXCEPT !["tsc"][q] = new]
      BY <1>2, <2>1, <3>2
    <3>5. offset'["tsc"][q] = new
      BY <1>3, <3>4, TimeFacts
    <3>6. /\ offset' \in [Time!ClockNames -> [Cpus -> Int]]
          /\ \A c \in Time!ClockNames, p \in Cpus : c # "tsc" \/ p # q => offset'[c][p] = offset[c][p]
      BY <1>3, <3>3, <3>4, TimeFacts
    <3>. QED
      BY <3>3, <3>5, <3>6
  <2>2. CASE ~is_calibrated
    BY <1>2, <2>2, TimeFacts
  <2>. QED
    BY <2>1, <2>2
<1>6. /\ \A c \in Time!ClockNames, p \in Cpus : c # "tsc" \/ p # q => Ahead(c, p)' = Ahead(c, p)
      /\ is_calibrated => Ahead("tsc", q)' = Ahead(main, q) + (now - init[q].at)
  BY <1>1, <1>5 DEF Ahead, LostAt
<1>7. is_calibrated => now - init[q].at \in Nat
  BY <1>1, TimeIdle, TimeFacts
<1>8. /\ Time!Idle \in [clock : Time!ClockNames \cup {Time!None}, own : Int, at : Nat]
      /\ Time!Idle.clock = Time!None
  BY DEF Time!Idle
<1>9. init \in [Cpus -> [clock : Time!ClockNames \cup {Time!None}, own : Int, at : Nat]]
  BY TimeFacts DEF TimeTypes
<1>10. /\ init' \in [Cpus -> [clock : Time!ClockNames \cup {Time!None}, own : Int, at : Nat]]
       /\ init'[q] = Time!Idle /\ \A p \in Cpus \ {q} : init'[p] = init[p]
  BY <1>1, <1>8, <1>9
<1>11. TimeTypes'
  BY <1>1, <1>5, <1>10, TimeFacts DEF TimeTypes
<1>12. TimeReads'
  <2>. SUFFICES ASSUME NEW p \in Cpus, init'[p].clock # Time!None
       PROVE  init'[p].at <= now /\ init'[p].own = init'[p].at + Ahead(init[p].clock, p)'
    <3>1. ASSUME NEW p \in Cpus, init'[p].clock = Time!None PROVE init'[p] = Time!Idle
      <4>1. CASE p = q
        BY <1>10, <4>1
      <4>2. CASE p # q
        <5>1. init'[p] = init[p]
          BY <1>10, <4>2
        <5>. QED
          BY <3>1, <5>1, TimeFacts DEF TimeReads
      <4>. QED
        BY <4>1, <4>2
    <3>. QED
      BY <1>1, <3>1 DEF TimeReads
  <2>1. p # q
    BY <1>8, <1>10
  <2>2. init'[p] = init[p] /\ init[p] # Time!Idle
    BY <1>8, <1>10, <2>1
  <2>3. PICK c : c = init[p].clock
    OBVIOUS
  <2>4. /\ c \in Time!ClockNames /\ init[p].at <= now /\ init[p].own = init[p].at + Ahead(c, p)
    BY <2>2, <2>3, TimeIdle
  <2>5. Ahead(c, p)' = Ahead(c, p)
    BY <1>6, <2>1, <2>4
  <2>6. Ahead(init[p].clock, p)' = Ahead(c, p)'
    BY <2>2, <2>3 DEF Ahead, LostAt
  <2>. QED
    BY <2>2, <2>4, <2>5, <2>6
<1>13. TimeMain'
  BY <1>1, TimeFacts DEF TimeMain
<1>14. TimeOrder'
  <2>1. init'[Bsp] = init[Bsp]
    BY <1>3, <1>10
  <2>. QED
    BY <1>1, <1>3, <1>10, <2>1, TimeFacts DEF TimeOrder
<1>15. \A p \in Cpus : Ahead(main, p)' = Ahead(main, p) /\ Ahead(main, p) \in Int
  <2>1. PICK m : m = main
    OBVIOUS
  <2>2. \A p : Ahead(main, p)' = Ahead(m, p)' /\ Ahead(main, p) = Ahead(m, p)
    BY <1>1, <2>1 DEF Ahead, LostAt
  <2>. QED
    BY <1>4, <1>6, <2>1, <2>2, TimeFacts
<1>16. TimeAhead'
  <2>1. \A c \in Time!ClockNames \ {"tsc"}, p \in Cpus : Ahead(c, p)' = Ahead(c, Bsp)'
    BY <1>3, <1>6, TimeFacts DEF TimeAhead
  <2>2. now + Ahead(main, Bsp)' >= 0
    BY <1>3, <1>4, <1>15, TimeFacts DEF TimeAhead
  <2>3. ASSUME NEW p \in Cpus, TscSet(p)' PROVE Ahead(main, p)' <= Ahead("tsc", p)' + TscGap(p)'
    <3>0. TscGap(p)' = TscGap(p) /\ TscGap(p) \in Nat
      BY <1>1, TimeFacts DEF TscGap
    <3>1. CASE p = q
      <4>1. is_calibrated
        BY <1>1, <2>3 DEF TscSet
      <4>. QED
        BY <1>6, <1>7, <1>15, <3>0, <3>1, <4>1
    <3>2. CASE p # q
      <4>1. TscSet(p)
        <5>1. init'[Bsp] = init[Bsp]
          BY <1>3, <1>10
        <5>. QED
          BY <1>1, <2>3, <3>2, <5>1 DEF TscSet
      <4>2. Ahead(main, p) <= Ahead("tsc", p) + TscGap(p)
        BY <1>4, <4>1, TimeFacts DEF TimeAhead
      <4>3. Ahead("tsc", p)' = Ahead("tsc", p)
        BY <1>3, <1>6, <3>2
      <4>. QED
        BY <1>15, <3>0, <4>2, <4>3
    <3>. QED
      BY <3>1, <3>2
  <2>. QED
    BY <1>1, <2>1, <2>2, <2>3 DEF TimeAhead
<1>17. TimeSeen'
  <2>1. \A p : Gap(p)' = Gap(p)
    BY <1>1, <1>4 DEF Gap
  <2>2. ASSUME NEW p \in Cpus, held[p] # Time!None
        PROVE  /\ held[p] \in clocks /\ Ahead(held[p], p)' = Ahead(held[p], p)
               /\ seen[p] <= now + Ahead(held[p], p) + Gap(p)
               /\ Ahead(held[p], p) <= Ahead(main, p) + Gap(p)
    <3>1. PICK h : h = held[p]
      OBVIOUS
    <3>2. h \in clocks /\ h # "tsc" /\ h \in Time!ClockNames
      BY <1>3, <2>2, <3>1, TimeFacts DEF TimeSeen
    <3>3. Ahead(h, p)' = Ahead(h, p)
      BY <1>6, <3>2
    <3>4. Ahead(held[p], p)' = Ahead(h, p)' /\ Ahead(held[p], p) = Ahead(h, p)
      BY <1>1, <3>1 DEF Ahead, LostAt
    <3>. QED
      BY <2>2, <3>1, <3>2, <3>3, <3>4, TimeFacts DEF TimeSeen
  <2>3. \A p \in Cpus : seen[p] <= now + Ahead(main, p) + Gap(p)
    BY <1>4, TimeFacts DEF TimeSeen
  <2>. QED
    BY <1>1, <1>4, <1>15, <2>1, <2>2, <2>3 DEF TimeSeen
<1>. QED
  BY <1>11, <1>12, <1>13, <1>14, <1>16, <1>17 DEF TimeInv

LEMMA TimeFinalise ==
  ASSUME TimeInv, Time!Finalise
  PROVE  TimeInv'
<1>1. /\ running_cpus = Cpus /\ tasks = Time!ClockNames /\ init[Bsp] = Time!Idle
      /\ is_calibrated /\ "tsc" \notin clocks /\ Time!Register("tsc")
      /\ UNCHANGED <<now, offset, tasks, init, is_calibrated, running_cpus, held, seen, lag,
                     tscLag, tscFrom, slack>>
  BY DEF Time!Finalise, Time!AllOnline
<1>2. "tsc" \in Time!ClockNames /\ Bsp \in Cpus
  BY ClockConstants DEF Time!ClockNames
<1>3. /\ main \in Time!ClockNames \ {"tsc"} /\ main \in clocks /\ main # Time!None
      /\ \A p : Gap(p) = 0
  BY <1>1, TimeTasksDone
<1>4. /\ clocks' = clocks \cup {"tsc"} /\ TimeMain' /\ main' \in {"tsc", main}
      /\ main' \in Time!ClockNames /\ main' # Time!None
  BY <1>1, <1>2, RegisterMain
<1>5. \A c, p : Ahead(c, p)' = Ahead(c, p)
  BY <1>1 DEF Ahead, LostAt
<1>6. \A p \in Cpus : TscSet(p) /\ TscGap(p)' = TscGap(p)
  <2>1. Time!Idle.clock # "tsc"
    BY DEF Time!Idle, Time!None
  <2>. QED
    BY <1>1, <1>2, <2>1 DEF TscSet, TscGap
<1>7. \A p \in Cpus : /\ Ahead(main, p) <= Ahead("tsc", p) + TscGap(p)
                      /\ Ahead(main, p) \in Int /\ Ahead("tsc", p) \in Int /\ TscGap(p) \in Nat
  BY <1>2, <1>3, <1>6, TimeFacts DEF TimeAhead
<1>8. TimeTypes' /\ TimeReads'
  BY <1>1, <1>4, <1>5, <1>2, TimeFacts DEF TimeTypes, TimeReads
<1>9. TimeOrder'
  BY <1>1, <1>2, <1>4, TimeFacts DEF TimeOrder
<1>10. TimeAhead'
  <2>1. CASE main' = "tsc"
    BY <1>5, <2>1, TimeFacts DEF TimeAhead
  <2>2. CASE main' = main
    <3>1. \A p \in Cpus : TscSet(p)' => TscSet(p)
      BY <1>6
    <3>. QED
      BY <1>1, <1>5, <1>6, <2>2, <3>1, TimeFacts DEF TimeAhead
  <2>. QED
    BY <1>4, <2>1, <2>2
<1>11. TimeSeen'
  <2>1. PICK m : m = main'
    OBVIOUS
  <2>2. \A p \in Cpus : Gap(p)' \in Nat /\ Ahead(main, p) <= Ahead(m, p) + Gap(p)'
    <3>1. CASE m = "tsc"
      <4>1. \A p \in Cpus : Gap(p)' = TscGap(p)
        BY <1>6, <2>1, <3>1 DEF Gap
      <4>. QED
        BY <1>7, <3>1, <4>1
    <3>2. CASE m # "tsc"
      <4>1. m = main /\ \A p \in Cpus : Gap(p)' = 0
        BY <1>4, <2>1, <3>2 DEF Gap
      <4>. QED
        BY <1>7, <4>1
    <3>. QED
      BY <3>1, <3>2
  <2>3. ASSUME NEW p \in Cpus, held[p] # Time!None
        PROVE  /\ held[p] \in clocks'
               /\ seen[p] <= now + Ahead(held[p], p) + Gap(p)'
               /\ Ahead(held[p], p) <= Ahead(m, p) + Gap(p)'
    <3>1. /\ held[p] \in clocks /\ seen[p] <= now + Ahead(held[p], p) + 0
          /\ Ahead(held[p], p) <= Ahead(main, p) + 0
      BY <1>3, <2>3, TimeFacts DEF TimeSeen
    <3>2. Ahead(held[p], p) \in Int /\ Ahead(main, p) \in Int /\ Ahead(m, p) \in Int
          /\ seen[p] \in Int /\ now \in Int
      <4>1. held[p] \in Time!ClockNames /\ main \in Time!ClockNames /\ m \in Time!ClockNames
        BY <1>3, <1>4, <2>1, <2>3, TimeFacts
      <4>2. \A c \in Time!ClockNames : Ahead(c, p) \in Int
        BY TimeFacts
      <4>3. seen[p] \in Int /\ now \in Int
        BY TimeFacts
      <4>. QED
        BY <4>1, <4>2, <4>3
    <3>. QED
      BY <1>4, <2>2, <3>1, <3>2
  <2>4. ASSUME NEW p \in Cpus PROVE seen[p] <= now + Ahead(m, p) + Gap(p)'
    <3>1. seen[p] <= now + Ahead(main, p) + 0
      BY <1>3, TimeFacts DEF TimeSeen
    <3>2. Ahead(main, p) \in Int /\ Ahead(m, p) \in Int /\ seen[p] \in Int /\ now \in Int
      BY <1>3, <1>4, <2>1, TimeFacts
    <3>. QED
      BY <2>2, <3>1, <3>2
  <2>5. /\ \A p : Ahead(main, p)' = Ahead(m, p)
        /\ \A p : Ahead(held[p], p)' = Ahead(held[p], p)
    BY <1>1, <2>1 DEF Ahead, LostAt
  <2>. QED
    BY <1>1, <1>4, <2>3, <2>4, <2>5 DEF TimeSeen
<1>. QED
  BY <1>4, <1>8, <1>9, <1>10, <1>11 DEF TimeInv

\* What was told by the tsc never goes back; only the first reading of the tsc
\* may be behind, and a clock that was replaced meanwhile is read as before.
TimeTold ==
  /\ toldBy \in [Cpus -> Time!ClockNames \cup {Time!None}]
  /\ \A p \in Cpus :
       /\ held[p] = "tsc" => main = "tsc"
       /\ toldBy[p] = "tsc" =>
            /\ main = "tsc" /\ held[p] \in {"tsc", Time!None}
            /\ seen[p] <= now + Ahead("tsc", p) - Lost("tsc", p)
       /\ held[p] \notin {"tsc", Time!None} => seen[p] <= now + Ahead(held[p], p)

\* Once tsc is the main clock no offset changes and no clock is registered.
LEMMA TscIsLast ==
  ASSUME TimeInv, main = "tsc"
  PROVE  /\ ~Time!SetOffset /\ ~Time!Finalise
         /\ \A c \in Time!ClockNames : ~Time!BootTask(c)
         /\ \A p \in Cpus : ~Time!ApInit(p) /\ ~Time!ApOnline(p)
<1>1. "tsc" \in clocks
  BY TimeFacts DEF TimeMain, Time!None
<1>2. running_cpus = Cpus /\ tasks = Time!ClockNames /\ init[Bsp] = Time!Idle
  BY <1>1, TimeFacts DEF TimeOrder
<1>. QED
  BY <1>1, <1>2 DEF Time!SetOffset, Time!Finalise, Time!BootTask, Time!ApInit, Time!ApOnline

\* A step that tells nobody the time and lets none pass.
LEMMA TimeToldQuiet ==
  ASSUME TimeInv, TimeTold, UNCHANGED <<now, lag, seen, toldBy>>,
         \A p \in Cpus : held'[p] = held[p],
         \/ main # "tsc" /\ \A p \in Cpus : held[p] # Time!None => Ahead(held[p], p)' = Ahead(held[p], p)
         \/ UNCHANGED <<main, offset, tscLag>>
  PROVE  TimeTold'
<1>1. CASE UNCHANGED <<main, offset, tscLag>>
  <2>1. \A c, p : Ahead(c, p)' = Ahead(c, p) /\ Lost(c, p)' = Lost(c, p)
    BY <1>1 DEF Ahead, LostAt, Lost
  <2>2. \A p \in Cpus : Ahead(held[p], p)' = Ahead(held[p], p)
    BY <1>1 DEF Ahead, LostAt
  <2>. QED
    BY <1>1, <2>1, <2>2 DEF TimeTold
<1>2. CASE main # "tsc" /\ \A p \in Cpus : held[p] # Time!None => Ahead(held[p], p)' = Ahead(held[p], p)
  BY <1>2 DEF TimeTold
<1>. QED
  BY <1>1, <1>2

LEMMA TimeToldStep ==
  ASSUME TimeInv, TimeTold, Time!Next, TimeInv'
  PROVE  TimeTold' /\ Time!TimeKept
<1>0. \A p \in Cpus : /\ seen[p] \in Int /\ Ahead("tsc", p) \in Int /\ Lost("tsc", p) \in Nat
                      /\ (held[p] # Time!None => Ahead(held[p], p) \in Int /\ held[p] \in Time!ClockNames)
  BY TimeFacts, TimeNsIs DEF Time!ClockNames
<1>1. ASSUME UNCHANGED seen PROVE Time!TimeKept
  <2>1. \A p \in Cpus : Time!Behind(p) \in Nat
    BY TimeFacts DEF Time!Behind
  <2>. QED
    BY <1>0, <1>1, <2>1 DEF Time!TimeKept
<1>2. ASSUME NEW q \in Cpus, Time!Ns(q) PROVE TimeTold' /\ Time!TimeKept
  <2>1. /\ held[q] # Time!None /\ held' = [held EXCEPT ![q] = Time!None]
        /\ toldBy' = [toldBy EXCEPT ![q] = held[q]]
        /\ UNCHANGED <<now, main, offset, lag, tscLag, tscFrom, slack>>
    BY <1>2 DEF Time!Ns
  <2>2. /\ seen'[q] = now + Ahead(held[q], q) - Lost(held[q], q)
        /\ \A p \in Cpus : p # q => seen'[p] = seen[p]
    BY <1>2, TimeNsStep
  <2>3. /\ held[q] \in Time!ClockNames /\ held'[q] = Time!None /\ toldBy'[q] = held[q]
        /\ toldBy' \in [Cpus -> Time!ClockNames \cup {Time!None}]
        /\ \A p \in Cpus : p # q => held'[p] = held[p] /\ toldBy'[p] = toldBy[p]
    BY <2>1, TimeFacts DEF TimeTold
  <2>4. \A c, p : Ahead(c, p)' = Ahead(c, p) /\ Lost(c, p)' = Lost(c, p)
    BY <2>1 DEF Ahead, LostAt, Lost
  <2>5. TimeTold'
    <3>. SUFFICES ASSUME NEW p \in Cpus
         PROVE  /\ held'[p] = "tsc" => main = "tsc"
                /\ toldBy'[p] = "tsc" =>
                     /\ main = "tsc" /\ held'[p] \in {"tsc", Time!None}
                     /\ seen'[p] <= now + Ahead("tsc", p) - Lost("tsc", p)
                /\ held'[p] \notin {"tsc", Time!None} => seen'[p] <= now + Ahead(held'[p], p)
      BY <2>1, <2>3, <2>4 DEF TimeTold
    <3>1. CASE p = q
      <4>1. held'[p] = Time!None /\ Time!None # "tsc"
        BY <2>3, <3>1 DEF Time!None
      <4>2. ASSUME held[q] = "tsc" PROVE main = "tsc" /\ seen'[q] <= now + Ahead("tsc", q) - Lost("tsc", q)
        <5>1. now \in Int
          BY TimeFacts
        <5>. QED
          BY <1>0, <2>2, <4>2, <5>1 DEF TimeTold
      <4>. QED
        BY <2>3, <3>1, <4>1, <4>2
    <3>2. CASE p # q
      BY <2>2, <2>3, <3>2 DEF TimeTold
    <3>. QED
      BY <3>1, <3>2
  <2>6. ASSUME NEW p \in Cpus
        PROVE  IF held[p] = "tsc" /\ toldBy[p] # "tsc"
               THEN seen'[p] + Time!Behind(p) >= seen[p] ELSE seen'[p] >= seen[p]
    <3>1. CASE p # q
      <4>1. Time!Behind(p) \in Nat /\ seen[p] \in Int /\ seen'[p] = seen[p]
        BY <2>2, <3>1, TimeFacts DEF Time!Behind
      <4>. QED
        BY <4>1
    <3>2. CASE p = q /\ held[q] # "tsc"
      <4>1. seen[q] <= now + Ahead(held[q], q) /\ toldBy[q] # "tsc"
        BY <2>1, <3>2 DEF TimeTold
      <4>2. Lost(held[q], q) = 0 /\ now \in Int
        BY <2>3, <3>2, TimeNsIs, TimeFacts
      <4>. QED
        BY <1>0, <2>1, <2>2, <3>2, <4>1, <4>2
    <3>3. CASE p = q /\ held[q] = "tsc" /\ toldBy[q] = "tsc"
      <4>1. seen[q] <= now + Ahead("tsc", q) - Lost("tsc", q)
        BY <3>3 DEF TimeTold
      <4>2. seen'[q] = now + Ahead("tsc", q) - Lost("tsc", q) /\ now \in Int
        BY <2>2, <3>3, TimeFacts
      <4>. QED
        BY <1>0, <3>3, <4>1, <4>2
    <3>4. CASE p = q /\ held[q] = "tsc" /\ toldBy[q] # "tsc"
      <4>1. main = "tsc"
        BY <3>4 DEF TimeTold
      <4>2. seen[q] <= now + Ahead("tsc", q) + Gap(q) /\ Gap(q) \in Nat
        BY <2>1, <3>4, <4>1, TimeFacts DEF TimeSeen
      <4>3. Time!Behind(q) = Lost("tsc", q) + Gap(q)
        BY <4>1 DEF Time!Behind, Lost, Gap, TscGap
      <4>4. seen'[q] = now + Ahead("tsc", q) - Lost("tsc", q) /\ now \in Int
        BY <2>2, <3>4, TimeFacts
      <4>. QED
        BY <1>0, <3>4, <4>2, <4>3, <4>4
    <3>. QED
      BY <3>1, <3>2, <3>3, <3>4
  <2>. QED
    BY <2>5, <2>6 DEF Time!TimeKept
<1>3. ASSUME Time!Tick PROVE TimeTold'
  <2>1. /\ now' = now + 1 /\ lag' \in {lag, lag + 1}
        /\ UNCHANGED <<main, offset, held, seen, toldBy, tscLag>>
    BY <1>3 DEF Time!Tick
  <2>2. /\ \A c, p : Ahead(c, p)' = Ahead(c, p)
        /\ \A p \in Cpus : Ahead(held[p], p)' = Ahead(held[p], p)
    BY <2>1 DEF Ahead, LostAt
  <2>3. \A p \in Cpus : /\ now' - Lost("tsc", p)' >= now - Lost("tsc", p) /\ Lost("tsc", p)' \in Int
                        /\ now \in Int
    BY <2>1, TimeFacts DEF Lost
  <2>4. ASSUME NEW p \in Cpus, toldBy[p] = "tsc"
        PROVE  seen[p] <= now' + Ahead("tsc", p) - Lost("tsc", p)'
    <3>1. seen[p] <= now + Ahead("tsc", p) - Lost("tsc", p)
      BY <2>4 DEF TimeTold
    <3>. QED
      BY <1>0, <2>1, <2>3, <3>1
  <2>5. ASSUME NEW p \in Cpus, held[p] \notin {"tsc", Time!None}
        PROVE  seen[p] <= now' + Ahead(held[p], p)
    <3>1. seen[p] <= now + Ahead(held[p], p)
      BY <2>5 DEF TimeTold
    <3>. QED
      BY <1>0, <2>1, <2>3, <2>5, <3>1
  <2>. QED
    BY <2>1, <2>2, <2>4, <2>5 DEF TimeTold
<1>4. ASSUME NEW q \in Cpus, Time!MainClock(q) PROVE TimeTold'
  <2>1. /\ held[q] = Time!None /\ main # Time!None /\ held' = [held EXCEPT ![q] = main]
        /\ UNCHANGED <<now, main, offset, lag, tscLag, seen, toldBy>>
    BY <1>4 DEF Time!MainClock
  <2>2. \A p \in Cpus : held'[p] = IF p = q THEN main ELSE held[p]
    BY <2>1, TimeFacts
  <2>3. \A c, p : Ahead(c, p)' = Ahead(c, p) /\ Lost(c, p)' = Lost(c, p)
    BY <2>1 DEF Ahead, LostAt, Lost
  <2>4. main # "tsc" => seen[q] <= now + Ahead(main, q)
    <3>. SUFFICES ASSUME main # "tsc" PROVE seen[q] <= now + Ahead(main, q)
      OBVIOUS
    <3>1. seen[q] <= now + Ahead(main, q) + 0 /\ Ahead(main, q) \in Int /\ now \in Int
      BY <2>1, TimeFacts DEF TimeSeen, Gap
    <3>. QED
      BY <3>1
  <2>5. \A p \in Cpus : Ahead(held[p], p)' = Ahead(held'[p], p)
    BY <2>1 DEF Ahead, LostAt
  <2>6. ASSUME NEW p \in Cpus
        PROVE  /\ held'[p] = "tsc" => main = "tsc"
               /\ toldBy[p] = "tsc" => main = "tsc" /\ held'[p] \in {"tsc", Time!None}
               /\ held'[p] \notin {"tsc", Time!None} => seen[p] <= now + Ahead(held'[p], p)
    BY <2>2, <2>4 DEF TimeTold
  <2>. QED
    BY <2>1, <2>3, <2>5, <2>6 DEF TimeTold
<1>5. ASSUME Time!SetOffset PROVE TimeTold'
  <2>1. init[Bsp] # Time!Idle /\ UNCHANGED <<now, lag, seen, toldBy, held>>
    BY <1>5 DEF Time!SetOffset
  <2>2. main # "tsc" /\ \A p \in Cpus : held[p] = Time!None
    BY <2>1, TimeTaskAlone
  <2>. QED
    BY <2>1, <2>2, TimeToldQuiet
<1>6. ASSUME Time!Finalise PROVE TimeTold'
  <2>1. main # "tsc" /\ UNCHANGED <<now, lag, seen, toldBy, held, offset, tscLag>>
    BY <1>6, TscIsLast DEF Time!Finalise
  <2>2. \A p \in Cpus : Ahead(held[p], p)' = Ahead(held[p], p)
    BY <2>1 DEF Ahead, LostAt
  <2>. QED
    BY <2>1, <2>2, TimeToldQuiet
<1>7. ASSUME NEW c \in Time!ClockNames, Time!BootTask(c) PROVE TimeTold'
  <2>1. /\ main # "tsc" /\ offset' = offset /\ UNCHANGED <<now, lag, seen, toldBy, held>>
        /\ tscLag' = IF c = "tsc" THEN [tscLag EXCEPT ![Bsp] = lag] ELSE tscLag
    BY <1>7, TscIsLast DEF Time!BootTask
  <2>2. ASSUME NEW p \in Cpus, held[p] # Time!None PROVE Ahead(held[p], p)' = Ahead(held[p], p)
    BY <2>1, <2>2 DEF Ahead, LostAt, TimeTold
  <2>. QED
    BY <2>1, <2>2, TimeToldQuiet
<1>8. ASSUME NEW q \in Cpus, Time!ApInit(q) PROVE TimeTold'
  <2>1. /\ main # "tsc" /\ offset' = offset /\ UNCHANGED <<now, lag, seen, toldBy, held>>
    BY <1>8, TscIsLast DEF Time!ApInit
  <2>2. ASSUME NEW p \in Cpus, held[p] # Time!None PROVE Ahead(held[p], p)' = Ahead(held[p], p)
    BY <2>1, <2>2 DEF Ahead, LostAt, TimeTold
  <2>. QED
    BY <2>1, <2>2, TimeToldQuiet
<1>9. ASSUME NEW q \in Cpus, Time!ApOnline(q) PROVE TimeTold'
  <2>1. /\ main # "tsc" /\ UNCHANGED <<now, lag, seen, toldBy, held, tscLag>>
        /\ offset' = IF is_calibrated
                     THEN [offset EXCEPT !["tsc"][q] = Time!NewOffset("tsc", q, init[q].own)] ELSE offset
    BY <1>9, TscIsLast DEF Time!ApOnline
  <2>2. ASSUME NEW p \in Cpus, held[p] # Time!None PROVE Ahead(held[p], p)' = Ahead(held[p], p)
    <3>1. PICK h : h = held[p]
      OBVIOUS
    <3>2. h \in Time!ClockNames /\ h # "tsc"
      BY <2>1, <2>2, <3>1, TimeFacts DEF TimeTold
    <3>3. offset'[h] = offset[h]
      BY <2>1, <3>2, TimeFacts
    <3>4. Ahead(held[p], p)' = Ahead(h, p)' /\ Ahead(held[p], p) = Ahead(h, p)
      BY <2>1, <3>1 DEF Ahead, LostAt
    <3>. QED
      BY <2>1, <3>2, <3>3, <3>4 DEF Ahead, LostAt
  <2>. QED
    BY <2>1, <2>2, TimeToldQuiet
<1>. QED
  BY <1>1, <1>2, <1>3, <1>4, <1>5, <1>6, <1>7, <1>8, <1>9 DEF Time!Next, Time!Tick, Time!MainClock,
    Time!SetOffset, Time!Finalise, Time!BootTask, Time!ApInit, Time!ApOnline

LEMMA TimeNext ==
  ASSUME TimeInv, Time!Next
  PROVE  TimeInv'
<1>1. CASE Time!Tick
  BY <1>1, TimeTick
<1>2. CASE Time!SetOffset
  BY <1>2, TimeSetTsc, TimeSetShared
<1>3. CASE Time!Finalise
  BY <1>3, TimeFinalise
<1>4. ASSUME NEW c \in Time!ClockNames, Time!BootTask(c) PROVE TimeInv'
  BY <1>4, TimeBootTask
<1>5. ASSUME NEW p \in Cpus, Time!ApInit(p) \/ Time!ApOnline(p) PROVE TimeInv'
  BY <1>5, TimeApInit, TimeApOnline
<1>6. ASSUME NEW p \in Cpus, Time!MainClock(p) \/ Time!Ns(p) PROVE TimeInv'
  BY <1>6, TimeMainClock, TimeNsStep
<1>. QED
  BY <1>1, <1>2, <1>3, <1>4, <1>5, <1>6 DEF Time!Next

LEMMA TimeToldInit == Time!Init => TimeTold
  BY DEF Time!Init, TimeTold, Time!None

\* On no CPU does the time go back but once, when the tsc takes over: by what the
\* tsc, whose frequency is measured high, has lost since the CPU set its offset
\* and, on the boot CPU, if tsc was set by a clock that was replaced afterwards,
\* by the slack.  For any CPUs, whatever the counters show at the start and
\* however the CPUs, the timer tasks and the readings interleave (time.cpp,
\* tsc.cpp).
THEOREM TimeNeverBackHolds == Spec => TimeNeverBack
<1>. DEFINE I == part = "clocks" => TimeInv /\ TimeTold
<1>1. Init => I
  BY TimeInit, TimeToldInit DEF Init
<1>2. I /\ [Next]_vars => I'
  <2>. SUFFICES ASSUME I, [Next]_vars, part' = "clocks" PROVE TimeInv' /\ TimeTold'
    OBVIOUS
  <2>1. part = "clocks" /\ TimeInv /\ TimeTold
    BY DEF Next, vars
  <2>2. CASE Time!Next
    BY <2>1, <2>2, TimeNext, TimeToldStep
  <2>3. CASE UNCHANGED timeVars
    BY <2>1, <2>3 DEF timeVars, TimeInv, TimeTypes, TimeReads, TimeMain, TimeOrder, TimeAhead,
      TimeSeen, TimeTold, Ahead, LostAt, Lost, Gap, TscGap, TscSet
  <2>. QED
    BY <2>1, <2>2, <2>3 DEF Next, vars
<1>3. I /\ [Next]_vars => [part = "clocks" => Time!TimeKept]_vars
  <2>. SUFFICES ASSUME I, Next, part = "clocks" PROVE Time!TimeKept
    OBVIOUS
  <2>1. Time!Next
    BY DEF Next
  <2>. QED
    BY <2>1, TimeNext, TimeToldStep
<1>. QED
  BY <1>1, <1>2, <1>3, PTL DEF Spec, TimeNeverBack

-----------------------------------------------------------------------------
(* The interrupt lines.                                                    *)

\* The redirection entry of a line, <<>> where gsi2ioapic() panics.
Pin(irq) == Lines!Gsi2Ioapic(Lines!LineOf(irq))

\* Types, and when the I/O APICs replace the PIC.
LineTypes ==
  /\ machine \in Machines /\ booted \in BOOLEAN /\ lost \in BOOLEAN /\ panicked \in BOOLEAN
  /\ entries \in [Lines!RealPins(machine) -> [vector : 0..NumInts, masked : BOOLEAN]]
  /\ handlers \in [0..NumInts - 1 -> [func : {"none", "pit", "sched", "uacpi"}, reserved : BOOLEAN]]
  /\ pic \subseteq Legacy /\ pending \subseteq 0..NumInts - 1
  /\ initialised = (booted /\ machine.ioapics # <<>>)
  /\ initialised => pic = {}

\* Which vectors the handlers are installed at, and what a call under way is about.
LineOwners ==
  /\ \A v \in 0..NumInts - 1 :
       /\ handlers[v].func = "pit" => v = 0
       /\ handlers[v].func = "uacpi" => v \in SciLines
       /\ handlers[v].func = "sched" => v \notin Legacy
  /\ handlers[0].func = "none" /\ ~machine.pics => ~handlers[0].reserved
  /\ ~booted => /\ \A v \in 0..NumInts - 1 : handlers[v] = [func |-> "none", reserved |-> FALSE]
                /\ entries = [ip \in Lines!RealPins(machine) |-> Lines!Reset]
                /\ pic = {Lines!Cascade} /\ op = Lines!Idle /\ ~lost /\ ~panicked
  /\ \/ op = Lines!Idle
     \/ /\ op \in [what : {"unmask", "reset"}, vector : Lines!Routed]
        /\ handlers[op.vector].func \in {"pit", "uacpi"}
        /\ op.what = "reset" => handlers[op.vector].func = "uacpi"

\* The redirection entries: whose they are, and why one may be missing.
LineRoutes ==
  /\ initialised /\ machine.pics => \A irq \in Lines!Routed :
       /\ Pin(irq) \in DOMAIN entries => entries[Pin(irq)].vector = irq
       /\ ~lost /\ ~panicked => Pin(irq) \in DOMAIN entries
  /\ lost => \E irq \in Legacy, i \in DOMAIN machine.ioapics :
                Lines!OneBehind(Lines!LineOf(irq), machine.ioapics[i])

\* A line that is let through has a handler that is not being removed, and a
\* handler that is not being installed or removed has its line let through.
Leaving(v) == op.what = "reset" /\ op.vector = v
LineOpen ==
  /\ machine.pics => \A ip \in DOMAIN entries : ~entries[ip].masked =>
       \E irq \in Lines!Routed : Pin(irq) = ip /\ handlers[irq].func # "none" /\ ~Leaving(irq)
  /\ \A v \in pic \ {Lines!Cascade} : handlers[v].func # "none" /\ ~Leaving(v)
  /\ ~panicked /\ ~lost /\ (initialised => machine.pics) =>
       \A v \in Lines!Routed : handlers[v].func # "none" /\ (op.what # "none" => op.vector # v) =>
         IF initialised THEN ~entries[Pin(v)].masked ELSE v \in pic

\* The inductive invariant.
LineInv == LineTypes /\ LineOwners /\ LineRoutes /\ LineOpen

\* What the assumption says of the constants.
LEMMA LineConstants ==
  /\ NumInts \in Nat /\ Legacy \subseteq 0..NumInts - 1 /\ 0 \in Legacy /\ Lines!Cascade \in Legacy
  /\ SchedVector \in 0..NumInts - 1 /\ \A v \in SchedVector..NumInts - 1 : v \notin Legacy
  /\ 0 \in Lines!Routed /\ SciLines \subseteq Lines!Routed /\ 0 \notin SciLines
  /\ Lines!Routed = Legacy \ {Lines!Cascade}
<1>1. Lines!IrqAssumption
  BY PlatformAssumption
<1>2. PICK n \in Nat : n = Lines!Cardinality(Legacy)
  BY <1>1 DEF Lines!IrqAssumption
<1>3. /\ NumInts \in Nat /\ SchedVector \in 0..NumInts - 1 /\ SchedVector \notin Legacy
      /\ Legacy = 0..n - 1 /\ n < NumInts /\ 2 \in Legacy
      /\ SciLines \subseteq Lines!Routed \ {0}
  BY <1>1, <1>2 DEF Lines!IrqAssumption, Lines!Cascade
<1>. QED
  BY <1>3 DEF Lines!Cascade, Lines!Routed

\* The principle of the least natural number.
LEMMA LeastNumber ==
  ASSUME NEW T, T \subseteq Nat, T # {}
  PROVE  \E x \in T : \A y \in T : x <= y
<1>. DEFINE R == OpToRel(<, Nat)
<1>1. IsWellFoundedOn(R, Nat)
  BY NatLessThanWellFounded
<1>2. \E x \in T : \A y \in T : ~ (<<y, x>> \in R)
  <2>. HIDE DEF R
  <2>. QED BY <1>1, WFMin
<1>3. \A x, y \in Nat : y < x => <<y, x>> \in R
  BY DEF OpToRel
<1>. HIDE DEF R
<1>4. PICK x \in T : \A y \in T : ~ (<<y, x>> \in R)
  BY <1>2
<1>5. ASSUME NEW y \in T PROVE x <= y
  <2>1. x \in Nat /\ y \in Nat /\ ~ (y < x)
    BY <1>3, <1>4
  <2>. QED
    BY <2>1
<1>. QED
  BY <1>4, <1>5

\* irq2iso() and the firmware agree on the gsi of a line.
LEMMA LineGsi ==
  ASSUME machine \in Machines, NEW irq \in Nat
  PROVE  /\ Lines!LineOf(irq) = Lines!GsiOf(machine, irq) /\ Lines!LineOf(irq) \in Nat
         /\ machine.ioapics \in Seq([base : Nat, redirs : Nat])
<1>1. /\ machine.ioapics \in Seq([base : Nat, redirs : Nat])
      /\ \A o \in machine.isos : o.gsi \in Nat
      /\ \A o, p \in machine.isos : o.source = p.source => o = p
  BY PlatformAssumption DEF Lines!IrqAssumption
<1>2. CASE \E o \in machine.isos : o.source = irq
  <2>1. PICK o \in machine.isos : o.source = irq
    BY <1>2
  <2>2. (CHOOSE p \in machine.isos : p.source = irq) = o
    BY <1>1, <2>1
  <2>3. Lines!Override(machine, irq) = {o}
    BY <1>1, <2>1 DEF Lines!Override
  <2>4. (CHOOSE p \in Lines!Override(machine, irq) : TRUE) = o
    BY <2>3
  <2>. QED
    BY <1>1, <1>2, <2>1, <2>2, <2>3, <2>4 DEF Lines!LineOf, Lines!GsiOf
<1>3. CASE ~ \E o \in machine.isos : o.source = irq
  <2>1. Lines!Override(machine, irq) = {}
    BY <1>3 DEF Lines!Override
  <2>. QED
    BY <1>1, <1>3, <2>1 DEF Lines!LineOf, Lines!GsiOf
<1>. QED
  BY <1>2, <1>3

\* What gsi2ioapic() finds for a line.
LEMMA LinePin ==
  ASSUME machine \in Machines, NEW irq \in Nat
  PROVE  \/ Pin(irq) = <<>>
         \/ \E i \in DOMAIN machine.ioapics :
              /\ Lines!Takes(machine.ioapics[i], Lines!LineOf(irq))
              /\ Pin(irq) = <<i, Lines!LineOf(irq) - machine.ioapics[i].base>>
<1>. DEFINE g == Lines!LineOf(irq)
            fits == {i \in DOMAIN machine.ioapics : Lines!Takes(machine.ioapics[i], g)}
<1>1. g \in Nat /\ machine.ioapics \in Seq([base : Nat, redirs : Nat])
  BY LineGsi
<1>2. fits \subseteq Nat
  BY <1>1
<1>3. Pin(irq) = IF fits = {} THEN <<>>
                 ELSE <<Lines!Min(fits), g - machine.ioapics[Lines!Min(fits)].base>>
  BY Zenon DEF Pin, Lines!Gsi2Ioapic
<1>4. CASE fits # {}
  <2>1. Lines!Min(fits) \in fits
    <3>. HIDE DEF fits
    <3>1. PICK x \in fits : \A y \in fits : x <= y
      BY <1>2, <1>4, LeastNumber
    <3>2. Lines!Min(fits) = CHOOSE z \in fits : \A y \in fits : z <= y
      BY DEF Lines!Min
    <3>. QED
      BY <3>1, <3>2, Zenon
  <2>. QED
    BY <1>3, <1>4, <2>1
<1>. QED
  BY <1>3, <1>4

\* A pin that exists is the one the device is wired to; one that does not is
\* just behind an I/O APIC; no two lines have the same.
LEMMA LinePins ==
  ASSUME machine \in Machines
  PROVE  /\ \A irq \in Nat : Pin(irq) \in Lines!RealPins(machine) => Pin(irq) \in Lines!WiredTo(irq)
         /\ \A irq \in Nat : Pin(irq) \notin Lines!RealPins(machine) \union {<<>>} =>
              \E i \in DOMAIN machine.ioapics : Lines!OneBehind(Lines!LineOf(irq), machine.ioapics[i])
         /\ \A a, b \in Lines!Routed : Pin(a) = Pin(b) /\ Pin(a) # <<>> => a = b
         /\ <<>> \notin Lines!RealPins(machine)
<1>1. machine.ioapics \in Seq([base : Nat, redirs : Nat])
  BY LineGsi
<1>2. \A ip : ip \in Lines!RealPins(machine) <=>
        \E i \in DOMAIN machine.ioapics : \E p \in 0..machine.ioapics[i].redirs - 1 : ip = <<i, p>>
  BY DEF Lines!RealPins
<1>3. ASSUME NEW irq \in Nat, Pin(irq) # <<>>
      PROVE  \E i \in DOMAIN machine.ioapics :
               /\ machine.ioapics[i].base \in Nat /\ machine.ioapics[i].redirs \in Nat
               /\ Lines!GsiOf(machine, irq) = Lines!LineOf(irq) /\ Lines!LineOf(irq) \in Nat
               /\ machine.ioapics[i].base <= Lines!LineOf(irq)
               /\ Lines!LineOf(irq) <= machine.ioapics[i].base + machine.ioapics[i].redirs
               /\ Pin(irq) = <<i, Lines!LineOf(irq) - machine.ioapics[i].base>>
  <2>1. PICK i \in DOMAIN machine.ioapics :
              /\ Lines!Takes(machine.ioapics[i], Lines!LineOf(irq))
              /\ Pin(irq) = <<i, Lines!LineOf(irq) - machine.ioapics[i].base>>
    BY <1>3, LinePin
  <2>2. machine.ioapics[i] \in [base : Nat, redirs : Nat]
    <3>1. PICK ios : ios = machine.ioapics
      OBVIOUS
    <3>2. ios \in Seq([base : Nat, redirs : Nat]) /\ i \in DOMAIN ios
      BY <1>1, <3>1
    <3>3. ios[i] \in [base : Nat, redirs : Nat]
      <4>1. PICK S : S = [base : Nat, redirs : Nat]
        OBVIOUS
      <4>2. ios \in Seq(S) /\ i \in 1..Len(ios)
        BY <3>2, <4>1
      <4>. QED
        BY <4>1, <4>2, ElementOfSeq
    <3>. QED
      BY <3>1, <3>3
  <2>3. Lines!GsiOf(machine, irq) = Lines!LineOf(irq) /\ Lines!LineOf(irq) \in Nat
    BY LineGsi
  <2>. QED
    BY <2>1, <2>2, <2>3 DEF Lines!Takes
<1>4. <<>> \notin Lines!RealPins(machine)
  BY <1>2
<1>5. ASSUME NEW irq \in Nat, Pin(irq) \in Lines!RealPins(machine) PROVE Pin(irq) \in Lines!WiredTo(irq)
  <2>1. PICK i \in DOMAIN machine.ioapics :
               /\ machine.ioapics[i].base \in Nat
               /\ Lines!GsiOf(machine, irq) = Lines!LineOf(irq) /\ Lines!LineOf(irq) \in Nat
               /\ Pin(irq) = <<i, Lines!LineOf(irq) - machine.ioapics[i].base>>
    BY <1>3, <1>4, <1>5
  <2>2. Pin(irq)[1] = i /\ Pin(irq)[2] = Lines!LineOf(irq) - machine.ioapics[i].base
    BY <2>1
  <2>3. machine.ioapics[Pin(irq)[1]].base + Pin(irq)[2] = Lines!GsiOf(machine, irq)
    BY <2>1, <2>2
  <2>. QED
    BY <1>5, <2>3 DEF Lines!WiredTo
<1>6. ASSUME NEW irq \in Nat, Pin(irq) \notin Lines!RealPins(machine) \union {<<>>}
      PROVE  \E i \in DOMAIN machine.ioapics : Lines!OneBehind(Lines!LineOf(irq), machine.ioapics[i])
  <2>1. PICK i \in DOMAIN machine.ioapics :
               /\ machine.ioapics[i].base \in Nat /\ machine.ioapics[i].redirs \in Nat
               /\ Lines!LineOf(irq) \in Nat
               /\ machine.ioapics[i].base <= Lines!LineOf(irq)
               /\ Lines!LineOf(irq) <= machine.ioapics[i].base + machine.ioapics[i].redirs
               /\ Pin(irq) = <<i, Lines!LineOf(irq) - machine.ioapics[i].base>>
    BY <1>3, <1>6
  <2>2. Lines!LineOf(irq) - machine.ioapics[i].base \notin 0..machine.ioapics[i].redirs - 1
    BY <1>2, <1>6, <2>1
  <2>. QED
    BY <2>1, <2>2 DEF Lines!OneBehind
<1>7. ASSUME NEW a \in Lines!Routed, NEW b \in Lines!Routed, Pin(a) = Pin(b), Pin(a) # <<>> PROVE a = b
  <2>0. a \in Nat /\ b \in Nat
    BY LineConstants
  <2>1. PICK i \in DOMAIN machine.ioapics :
               /\ machine.ioapics[i].base \in Nat
               /\ Lines!GsiOf(machine, a) = Lines!LineOf(a) /\ Lines!LineOf(a) \in Nat
               /\ Pin(a) = <<i, Lines!LineOf(a) - machine.ioapics[i].base>>
    BY <1>3, <1>7, <2>0
  <2>2. PICK j \in DOMAIN machine.ioapics :
               /\ machine.ioapics[j].base \in Nat
               /\ Lines!GsiOf(machine, b) = Lines!LineOf(b) /\ Lines!LineOf(b) \in Nat
               /\ Pin(b) = <<j, Lines!LineOf(b) - machine.ioapics[j].base>>
    BY <1>3, <1>7, <2>0
  <2>3. i = j /\ Lines!LineOf(a) - machine.ioapics[i].base = Lines!LineOf(b) - machine.ioapics[j].base
    <3>1. PICK x, y : x = Lines!LineOf(a) - machine.ioapics[i].base /\ y = Lines!LineOf(b) - machine.ioapics[j].base
      OBVIOUS
    <3>2. <<i, x>> = <<j, y>>
      BY <1>7, <2>1, <2>2, <3>1, Zenon
    <3>3. i = j /\ x = y
      BY <3>2
    <3>. QED
      BY <3>1, <3>3
  <2>4. Lines!GsiOf(machine, a) = Lines!GsiOf(machine, b)
    BY <2>1, <2>2, <2>3
  <2>. QED
    BY <2>4, PlatformAssumption DEF Lines!IrqAssumption
<1>. QED
  BY <1>4, <1>5, <1>6, <1>7

\* The machine does not change.
LEMMA LineSame ==
  ASSUME machine' = machine
  PROVE  /\ \A irq : Pin(irq)' = Pin(irq) /\ Lines!LineOf(irq)' = Lines!LineOf(irq)
         /\ Lines!RealPins(machine)' = Lines!RealPins(machine)
<1>. DEFINE L(m, irq) == IF \E o \in m.isos : o.source = irq
                         THEN (CHOOSE o \in m.isos : o.source = irq).gsi ELSE irq
            F(m, g) == {i \in DOMAIN m.ioapics : m.ioapics[i].base <= g /\ g <= m.ioapics[i].base + m.ioapics[i].redirs}
            G(m, g) == IF F(m, g) = {} THEN <<>>
                       ELSE <<Lines!Min(F(m, g)), g - m.ioapics[Lines!Min(F(m, g))].base>>
            R(m) == UNION {{i} \X (0..m.ioapics[i].redirs - 1) : i \in DOMAIN m.ioapics}
<1>1. ASSUME NEW irq
      PROVE  Lines!LineOf(irq) = L(machine, irq) /\ Lines!LineOf(irq)' = L(machine', irq)
  BY DEF Lines!LineOf
<1>2. ASSUME NEW g
      PROVE  Lines!Gsi2Ioapic(g) = G(machine, g) /\ Lines!Gsi2Ioapic(g)' = G(machine', g)
  BY DEF Lines!Gsi2Ioapic, Lines!Takes
<1>3. Lines!RealPins(machine)' = R(machine') /\ Lines!RealPins(machine) = R(machine)
  BY DEF Lines!RealPins
<1>. HIDE DEF L, F, G, R
<1>4. ASSUME NEW irq PROVE Pin(irq)' = Pin(irq) /\ Lines!LineOf(irq)' = Lines!LineOf(irq)
  <2>1. PICK g : g = Lines!LineOf(irq)
    OBVIOUS
  <2>2. Lines!LineOf(irq)' = g
    BY <1>1, <2>1
  <2>3. Pin(irq) = Lines!Gsi2Ioapic(g) /\ Pin(irq)' = Lines!Gsi2Ioapic(g)'
    BY <2>1, <2>2 DEF Pin
  <2>. QED
    BY <1>2, <2>1, <2>2, <2>3
<1>. QED
  BY <1>3, <1>4

\* interrupts::mask() and unmask() of a legacy line.
LEMMA LineMask ==
  ASSUME LineTypes, NEW v \in Lines!Routed, NEW m \in BOOLEAN, Lines!SetMask(v, m)
  PROVE  /\ entries' \in [Lines!RealPins(machine) -> [vector : 0..NumInts, masked : BOOLEAN]]
         /\ lost' \in BOOLEAN /\ panicked' \in BOOLEAN /\ (lost => lost')
         /\ \A ip \in Lines!RealPins(machine) : entries'[ip].vector = entries[ip].vector
         /\ initialised =>
              /\ pic' = pic
              /\ \A ip \in Lines!RealPins(machine) :
                   entries'[ip].masked = IF ip = Pin(v) THEN m ELSE entries[ip].masked
              /\ lost' /\ ~lost => Pin(v) \notin Lines!RealPins(machine) \union {<<>>}
         /\ ~initialised =>
              /\ entries' = entries /\ lost' = lost /\ panicked' = panicked
              /\ pic' = IF m THEN pic \ {v} ELSE pic \union {v}
<1>t. /\ entries \in [Lines!RealPins(machine) -> [vector : 0..NumInts, masked : BOOLEAN]]
      /\ lost \in BOOLEAN /\ panicked \in BOOLEAN /\ DOMAIN entries = Lines!RealPins(machine)
  BY DEF LineTypes
<1>1. CASE initialised
  <2>1. /\ panicked' = (Pin(v) = <<>>) /\ pic' = pic
        /\ entries' = Lines!MaskIdx(Pin(v), m)
        /\ lost' = (lost \/ Pin(v) \notin DOMAIN entries \union {<<>>})
    BY <1>1, Zenon DEF Lines!SetMask, Pin
  <2>2. PICK p, D : p = Pin(v) /\ D = Lines!RealPins(machine)
    OBVIOUS
  <2>3. entries' = IF p \in D THEN [entries EXCEPT ![p].masked = m] ELSE entries
    BY <1>t, <2>1, <2>2 DEF Lines!MaskIdx
  <2>4. entries \in [D -> [vector : 0..NumInts, masked : BOOLEAN]]
    BY <1>t, <2>2
  <2>5. /\ entries' \in [D -> [vector : 0..NumInts, masked : BOOLEAN]]
        /\ \A ip \in D : /\ entries'[ip].vector = entries[ip].vector
                         /\ entries'[ip].masked = IF ip = p THEN m ELSE entries[ip].masked
    BY <2>3, <2>4
  <2>6. lost' \in BOOLEAN /\ panicked' \in BOOLEAN /\ (lost => lost')
    BY <1>t, <2>1
  <2>7. lost' /\ ~lost => Pin(v) \notin Lines!RealPins(machine) \union {<<>>}
    BY <1>t, <2>1
  <2>. QED
    BY <1>1, <2>1, <2>2, <2>5, <2>6, <2>7
<1>2. CASE ~initialised
  <2>1. /\ entries' = entries /\ lost' = lost /\ panicked' = panicked
        /\ pic' = IF m THEN pic \ {v} ELSE pic \union {v}
    BY <1>2 DEF Lines!SetMask
  <2>. QED
    BY <1>2, <1>t, <2>1
<1>. QED
  BY <1>1, <1>2

\* The lines before io::init().
LEMMA LineInit == Lines!Init => LineInv
<1>. SUFFICES ASSUME Lines!Init PROVE LineInv
  OBVIOUS
<1>1. /\ machine \in Machines /\ initialised = FALSE /\ booted = FALSE /\ lost = FALSE /\ panicked = FALSE
      /\ entries = [ip \in Lines!RealPins(machine) |-> Lines!Reset]
      /\ pic = {Lines!Cascade} /\ op = Lines!Idle /\ pending = {}
      /\ handlers = [v \in 0..NumInts - 1 |-> [func |-> "none", reserved |-> FALSE]]
  BY DEF Lines!Init, Lines!None
<1>2. LineTypes
  <2>1. entries \in [Lines!RealPins(machine) -> [vector : 0..NumInts, masked : BOOLEAN]]
    BY <1>1, LineConstants DEF Lines!Reset, Lines!NoVector
  <2>2. handlers \in [0..NumInts - 1 -> [func : {"none", "pit", "sched", "uacpi"}, reserved : BOOLEAN]]
    BY <1>1
  <2>3. /\ machine \in Machines /\ booted \in BOOLEAN /\ lost \in BOOLEAN /\ panicked \in BOOLEAN
        /\ pic \subseteq Legacy /\ pending \subseteq 0..NumInts - 1
    BY <1>1, LineConstants
  <2>4. initialised = (booted /\ machine.ioapics # <<>>) /\ (initialised => pic = {})
    BY <1>1
  <2>. QED
    BY <2>1, <2>2, <2>3, <2>4 DEF LineTypes
<1>3. LineOwners
  BY <1>1, LineConstants DEF LineOwners
<1>4. LineRoutes
  BY <1>1 DEF LineRoutes
<1>5. LineOpen
  <2>1. \A ip \in DOMAIN entries : entries[ip].masked
    BY <1>1 DEF Lines!Reset
  <2>2. \A v \in Lines!Routed : handlers[v].func = "none"
    BY <1>1, LineConstants
  <2>. QED
    BY <1>1, <2>1, <2>2 DEF LineOpen
<1>. QED
  BY <1>2, <1>3, <1>4, <1>5 DEF LineInv

\* io::init().
LEMMA LineIoInit == LineInv /\ Lines!IoInit => LineInv'
<1>. SUFFICES ASSUME LineInv, Lines!IoInit PROVE LineInv'
  OBVIOUS
<1>1. /\ ~booted /\ booted' = TRUE /\ machine' = machine /\ op' = op /\ pending' = pending
      /\ machine \in Machines /\ pending \subseteq 0..NumInts - 1 /\ ~initialised
      /\ entries = [ip \in Lines!RealPins(machine) |-> Lines!Reset]
      /\ pic = {Lines!Cascade} /\ op = Lines!Idle /\ ~lost /\ ~panicked
      /\ \A v \in 0..NumInts - 1 : handlers[v] = [func |-> "none", reserved |-> FALSE]
      /\ handlers \in [0..NumInts - 1 -> [func : {"none", "pit", "sched", "uacpi"}, reserved : BOOLEAN]]
      /\ DOMAIN handlers = 0..NumInts - 1
  BY DEF LineInv, LineTypes, LineOwners, Lines!IoInit
<1>2. CASE machine.ioapics = <<>>
  <2>1. UNCHANGED <<initialised, entries, pic, handlers, lost, panicked>>
    BY <1>2 DEF Lines!IoInit
  <2>2. \A ip \in DOMAIN entries : entries[ip].masked
    BY <1>1 DEF Lines!Reset
  <2>3. LineTypes'
    BY <1>1, <1>2, <2>1, LineSame DEF LineInv, LineTypes
  <2>4. LineOwners'
    BY <1>1, <2>1 DEF LineInv, LineOwners
  <2>5. LineRoutes'
    BY <1>1, <2>1 DEF LineRoutes
  <2>6. \A v \in Lines!Routed : handlers[v].func = "none"
    BY <1>1, LineConstants
  <2>7. LineOpen'
    BY <1>1, <2>1, <2>2, <2>6 DEF LineOpen
  <2>. QED
    BY <2>3, <2>4, <2>5, <2>7 DEF LineInv
<1>3. CASE machine.ioapics # <<>>
  <2>. DEFINE lines == IF machine.pics THEN Lines!Routed ELSE {}
              Setters(ip) == {irq \in lines : Pin(irq) = ip}
  <2>1. /\ pic' = {} /\ initialised' = TRUE
        /\ panicked' = \E irq \in lines : Pin(irq) = <<>>
        /\ lost' = \E irq \in lines : Pin(irq) \notin DOMAIN entries \union {<<>>}
        /\ handlers' = [v \in DOMAIN handlers |->
             IF v \in lines THEN [handlers[v] EXCEPT !.reserved = TRUE] ELSE handlers[v]]
    BY <1>3, Zenon DEF Lines!IoInit, Pin
  <2>2. entries' = [ip \in DOMAIN entries |->
             [entries[ip] EXCEPT !.vector = IF Setters(ip) = {} THEN @ ELSE Lines!Max(Setters(ip))]]
    BY <1>3, Zenon DEF Lines!IoInit, Pin
  <2>3. DOMAIN entries = Lines!RealPins(machine) /\ \A ip \in DOMAIN entries : entries[ip] = Lines!Reset
    BY <1>1
  <2>4. \A irq \in lines : irq \in Lines!Routed /\ irq \in Legacy /\ irq \in 0..NumInts - 1 /\ irq \in Nat
    BY LineConstants
  <2>5. ASSUME NEW ip \in DOMAIN entries
        PROVE  /\ entries'[ip] \in [vector : 0..NumInts, masked : BOOLEAN]
               /\ entries'[ip].masked
               /\ \A irq \in lines : Pin(irq) = ip => entries'[ip].vector = irq
    <3>0. PICK e : e = entries[ip]
      OBVIOUS
    <3>1. e = [vector |-> NumInts, masked |-> TRUE]
      BY <2>3, <3>0 DEF Lines!Reset, Lines!NoVector
    <3>2. entries'[ip] = [e EXCEPT !.vector = IF Setters(ip) = {} THEN @ ELSE Lines!Max(Setters(ip))]
      BY <2>2, <3>0, Zenon
    <3>3. CASE Setters(ip) = {}
      <4>. HIDE DEF lines
      <4>1. \A irq \in lines : Pin(irq) # ip
        BY <3>3
      <4>. HIDE DEF Setters
      <4>2. entries'[ip] = e
        BY <3>1, <3>2, <3>3
      <4>. QED
        BY <3>1, <4>1, <4>2, LineConstants
    <3>4. CASE Setters(ip) # {}
      <4>1. PICK irq \in lines : Pin(irq) = ip
        BY <3>4
      <4>2. ip # <<>>
        BY <1>1, <2>3, LinePins
      <4>3. \A j \in lines : Pin(j) = ip => j = irq
        BY <1>1, <2>4, <4>1, <4>2, LinePins
      <4>4. Setters(ip) = {irq}
        <5>. HIDE DEF lines
        <5>. QED
          BY <4>1, <4>3
      <4>5. irq \in Nat
        BY <2>4
      <4>. HIDE DEF Setters, lines
      <4>6. Lines!Max(Setters(ip)) = irq
        BY <4>4, <4>5 DEF Lines!Max
      <4>7. entries'[ip] = [vector |-> irq, masked |-> TRUE]
        BY <3>1, <3>2, <3>4, <4>6
      <4>. QED
        BY <2>4, <4>3, <4>7, LineConstants
    <3>. QED
      BY <3>3, <3>4
  <2>. HIDE DEF Setters
  <2>6. /\ entries' \in [Lines!RealPins(machine) -> [vector : 0..NumInts, masked : BOOLEAN]]
        /\ DOMAIN entries' = DOMAIN entries
    <3>1. DOMAIN entries' = DOMAIN entries /\ entries' = [ip \in DOMAIN entries |-> entries'[ip]]
      BY <2>2, Zenon
    <3>. QED
      BY <2>3, <2>5, <3>1
  <2>7. ASSUME NEW v \in 0..NumInts - 1
        PROVE  handlers'[v].func = "none" /\ (v \notin lines => ~handlers'[v].reserved)
    <3>. HIDE DEF lines
    <3>1. PICK h : h = handlers[v]
      OBVIOUS
    <3>2. h = [func |-> "none", reserved |-> FALSE]
      BY <1>1, <3>1
    <3>3. handlers'[v] = IF v \in lines THEN [h EXCEPT !.reserved = TRUE] ELSE h
      BY <1>1, <2>1, <3>1, Zenon
    <3>4. CASE v \in lines
      <4>1. handlers'[v] = [func |-> "none", reserved |-> TRUE]
        BY <3>2, <3>3, <3>4
      <4>. QED
        BY <3>4, <4>1
    <3>5. CASE v \notin lines
      BY <3>2, <3>3, <3>5
    <3>. QED
      BY <3>4, <3>5
  <2>8. handlers' \in [0..NumInts - 1 -> [func : {"none", "pit", "sched", "uacpi"}, reserved : BOOLEAN]]
    <3>. HIDE DEF lines
    <3>. QED
      BY <1>1, <2>1
  <2>9. lost' \in BOOLEAN /\ panicked' \in BOOLEAN
    BY <2>1
  <2>10. LineTypes'
    BY <1>1, <1>3, <2>1, <2>6, <2>8, <2>9, LineSame DEF LineTypes
  <2>11. LineOwners'
    <3>1. handlers'[0].func = "none" /\ (~machine.pics => ~handlers'[0].reserved)
      BY <2>7, LineConstants
    <3>. QED
      BY <1>1, <2>7, <3>1 DEF LineOwners
  <2>12. LineRoutes'
    <3>1. ASSUME machine.pics, NEW irq \in Lines!Routed
          PROVE  /\ Pin(irq) \in DOMAIN entries => entries'[Pin(irq)].vector = irq
                 /\ ~lost' /\ ~panicked' => Pin(irq) \in DOMAIN entries
      BY <2>1, <2>5, <3>1
    <3>2. ASSUME lost' PROVE \E irq \in Legacy, i \in DOMAIN machine.ioapics :
                Lines!OneBehind(Lines!LineOf(irq), machine.ioapics[i])
      <4>1. PICK irq \in lines : Pin(irq) \notin DOMAIN entries \union {<<>>}
        BY <2>1, <3>2
      <4>. QED
        BY <1>1, <2>3, <2>4, <4>1, LinePins
    <3>3. \A irq : Pin(irq)' = Pin(irq) /\ Lines!LineOf(irq)' = Lines!LineOf(irq)
      BY <1>1, LineSame
    <3>4. (initialised /\ machine.pics => \A irq \in Lines!Routed :
             /\ Pin(irq) \in DOMAIN entries => entries[Pin(irq)].vector = irq
             /\ ~lost /\ ~panicked => Pin(irq) \in DOMAIN entries)'
      BY <1>1, <2>6, <3>1, <3>3
    <3>5. (lost => \E irq \in Legacy, i \in DOMAIN machine.ioapics :
                Lines!OneBehind(Lines!LineOf(irq), machine.ioapics[i]))'
      BY <1>1, <3>2, <3>3 DEF Lines!OneBehind
    <3>. QED
      BY <3>4, <3>5 DEF LineRoutes
  <2>13. LineOpen'
    <3>1. \A v \in Lines!Routed : handlers'[v].func = "none"
      BY <2>7, LineConstants
    <3>2. \A ip \in DOMAIN entries' : entries'[ip].masked
      BY <2>5, <2>6
    <3>. QED
      BY <2>1, <3>1, <3>2 DEF LineOpen
  <2>. QED
    BY <2>10, <2>11, <2>12, <2>13 DEF LineInv
<1>. QED
  BY <1>2, <1>3

\* What the invariant says before a step of a call.
LEMMA LineFacts ==
  ASSUME LineInv
  PROVE  /\ machine \in Machines /\ lost \in BOOLEAN /\ panicked \in BOOLEAN
         /\ entries \in [Lines!RealPins(machine) -> [vector : 0..NumInts, masked : BOOLEAN]]
         /\ DOMAIN entries = Lines!RealPins(machine)
         /\ handlers \in [0..NumInts - 1 -> [func : {"none", "pit", "sched", "uacpi"}, reserved : BOOLEAN]]
         /\ DOMAIN handlers = 0..NumInts - 1
         /\ pic \subseteq Legacy /\ pending \subseteq 0..NumInts - 1
         /\ initialised => pic = {}
         /\ booted /\ ~initialised => DOMAIN entries = {}
         /\ \A v \in Lines!Routed : v \in Legacy /\ v \in 0..NumInts - 1 /\ v \in Nat
<1>1. ASSUME booted, ~initialised PROVE Lines!RealPins(machine) = {}
  <2>1. machine.ioapics = <<>>
    BY <1>1 DEF LineInv, LineTypes
  <2>2. DOMAIN machine.ioapics = {}
    BY <2>1
  <2>. QED
    BY <2>2 DEF Lines!RealPins
<1>2. /\ machine \in Machines /\ lost \in BOOLEAN /\ panicked \in BOOLEAN
      /\ entries \in [Lines!RealPins(machine) -> [vector : 0..NumInts, masked : BOOLEAN]]
      /\ handlers \in [0..NumInts - 1 -> [func : {"none", "pit", "sched", "uacpi"}, reserved : BOOLEAN]]
      /\ pic \subseteq Legacy /\ pending \subseteq 0..NumInts - 1
      /\ initialised => pic = {}
  BY DEF LineInv, LineTypes
<1>3. DOMAIN entries = Lines!RealPins(machine) /\ DOMAIN handlers = 0..NumInts - 1
  BY <1>2
<1>4. \A v \in Lines!Routed : v \in Legacy /\ v \in 0..NumInts - 1 /\ v \in Nat
  BY LineConstants
<1>. QED
  BY <1>1, <1>2, <1>3, <1>4

\* A step after io::init() that keeps the vectors of the entries.
LEMMA LineKept ==
  ASSUME LineInv, booted, UNCHANGED <<machine, initialised, booted>>,
         entries' \in [Lines!RealPins(machine) -> [vector : 0..NumInts, masked : BOOLEAN]],
         \A ip \in Lines!RealPins(machine) : entries'[ip].vector = entries[ip].vector,
         handlers' \in [0..NumInts - 1 -> [func : {"none", "pit", "sched", "uacpi"}, reserved : BOOLEAN]],
         pic' \subseteq Legacy, initialised => pic' = {}, pending' \subseteq 0..NumInts - 1,
         lost' \in BOOLEAN, panicked' \in BOOLEAN, lost => lost', panicked => panicked',
         lost' => lost \/ \E irq \in Lines!Routed : Pin(irq) \notin Lines!RealPins(machine) \union {<<>>}
  PROVE  LineTypes' /\ LineRoutes'
<1>1. LineTypes'
  BY LineSame DEF LineInv, LineTypes
<1>2. DOMAIN entries' = DOMAIN entries /\ DOMAIN entries = Lines!RealPins(machine)
  BY LineFacts
<1>3. \A irq : Pin(irq)' = Pin(irq) /\ Lines!LineOf(irq)' = Lines!LineOf(irq)
  BY LineSame
<1>4. (initialised /\ machine.pics => \A irq \in Lines!Routed :
         /\ Pin(irq) \in DOMAIN entries => entries[Pin(irq)].vector = irq
         /\ ~lost /\ ~panicked => Pin(irq) \in DOMAIN entries)'
  BY <1>2, <1>3 DEF LineInv, LineRoutes
<1>5. ASSUME lost' PROVE \E irq \in Legacy, i \in DOMAIN machine.ioapics :
                Lines!OneBehind(Lines!LineOf(irq), machine.ioapics[i])
  <2>1. CASE lost
    BY <2>1 DEF LineInv, LineRoutes
  <2>2. CASE ~lost
    <3>1. PICK irq \in Lines!Routed : Pin(irq) \notin Lines!RealPins(machine) \union {<<>>}
      BY <1>5, <2>2
    <3>. QED
      BY <3>1, LineFacts, LinePins
  <2>. QED
    BY <2>1, <2>2
<1>6. (lost => \E irq \in Legacy, i \in DOMAIN machine.ioapics :
            Lines!OneBehind(Lines!LineOf(irq), machine.ioapics[i]))'
  BY <1>3, <1>5 DEF Lines!OneBehind
<1>. QED
  BY <1>1, <1>4, <1>6 DEF LineRoutes

\* A call that fills an unused vector v: the PIT's task, the scheduler, uACPI.
LEMMA LineFill ==
  ASSUME LineInv, booted, op = Lines!Idle, UNCHANGED <<machine, initialised, booted, entries, pic, pending, lost>>,
         panicked' = panicked,
         NEW v \in 0..NumInts - 1, handlers[v].func = "none",
         NEW f \in {"pit", "sched", "uacpi"}, NEW b \in BOOLEAN,
         handlers' = [handlers EXCEPT ![v] = [func |-> f, reserved |-> b]],
         f = "pit" => v = 0, f = "uacpi" => v \in SciLines, f = "sched" => v \notin Legacy,
         op' = IF f = "sched" THEN op ELSE [what |-> "unmask", vector |-> v]
  PROVE  LineInv'
<1>1. /\ handlers' \in [0..NumInts - 1 -> [func : {"none", "pit", "sched", "uacpi"}, reserved : BOOLEAN]]
      /\ \A u \in 0..NumInts - 1 : u # v => handlers'[u] = handlers[u]
      /\ handlers'[v].func = f
  <2>1. [func |-> f, reserved |-> b] \in [func : {"none", "pit", "sched", "uacpi"}, reserved : BOOLEAN]
    OBVIOUS
  <2>. QED
    BY <2>1, LineFacts
<1>2. LineTypes' /\ LineRoutes'
  BY <1>1, LineFacts, LineKept
<1>3. f # "sched" => v \in Lines!Routed
  BY LineConstants
<1>4. LineOwners'
  <2>1. (\A u \in 0..NumInts - 1 :
          /\ handlers[u].func = "pit" => u = 0
          /\ handlers[u].func = "uacpi" => u \in SciLines
          /\ handlers[u].func = "sched" => u \notin Legacy)'
    BY <1>1 DEF LineInv, LineOwners
  <2>2. (handlers[0].func = "none" /\ ~machine.pics => ~handlers[0].reserved)'
    BY <1>1, LineConstants DEF LineInv, LineOwners
  <2>3. (\/ op = Lines!Idle
         \/ /\ op \in [what : {"unmask", "reset"}, vector : Lines!Routed]
            /\ handlers[op.vector].func \in {"pit", "uacpi"}
            /\ op.what = "reset" => handlers[op.vector].func = "uacpi")'
    <3>1. CASE f = "sched"
      BY <3>1
    <3>2. CASE f # "sched"
      <4>1. op' = [what |-> "unmask", vector |-> v] /\ v \in Lines!Routed
        BY <1>3, <3>2
      <4>2. op'.vector = v /\ op'.what # "reset" /\ op' \in [what : {"unmask", "reset"}, vector : Lines!Routed]
        BY <4>1
      <4>. QED
        BY <1>1, <3>2, <4>2
    <3>. QED
      BY <3>1, <3>2
  <2>. QED
    BY <2>1, <2>2, <2>3 DEF LineOwners
<1>5. \A irq : Pin(irq)' = Pin(irq)
  BY LineSame
<1>6. op.what = "none" /\ op'.what \in {"none", "unmask"} /\ (op'.what = "unmask" => op'.vector = v)
      /\ (f # "sched" => op'.what = "unmask")
  BY DEF Lines!Idle, Lines!None
<1>7. \A u \in 0..NumInts - 1 : handlers[u].func # "none" => handlers'[u] = handlers[u]
  BY <1>1
<1>8. LineOpen'
  <2>1. (machine.pics => \A ip \in DOMAIN entries : ~entries[ip].masked =>
           \E irq \in Lines!Routed : Pin(irq) = ip /\ handlers[irq].func # "none" /\ ~Leaving(irq))'
    BY <1>5, <1>6, <1>7, LineFacts DEF LineInv, LineOpen, Leaving
  <2>2. (\A u \in pic \ {Lines!Cascade} : handlers[u].func # "none" /\ ~Leaving(u))'
    <3>1. \A u \in pic \ {Lines!Cascade} : u \in 0..NumInts - 1 /\ handlers[u].func # "none"
      BY LineConstants, LineFacts DEF LineInv, LineOpen
    <3>. QED
      BY <1>6, <1>7, <3>1 DEF Leaving
  <2>3. (~panicked /\ ~lost /\ (initialised => machine.pics) =>
           \A u \in Lines!Routed : handlers[u].func # "none" /\ (op.what # "none" => op.vector # u) =>
             IF initialised THEN ~entries[Pin(u)].masked ELSE u \in pic)'
    <3>1. ASSUME NEW u \in Lines!Routed, handlers'[u].func # "none", op'.what # "none" => op'.vector # u
          PROVE  handlers[u].func # "none"
      BY <1>1, <1>6, <3>1, LineFacts
    <3>. QED
      BY <1>5, <1>6, <3>1 DEF LineInv, LineOpen
  <2>. QED
    BY <2>1, <2>2, <2>3 DEF LineOpen
<1>. QED
  BY <1>2, <1>4, <1>8 DEF LineInv

\* The PIT's task gets vector 0, which nobody else may have.
LEMMA LinePit == LineInv /\ Lines!Pit => LineInv'
<1>. SUFFICES ASSUME LineInv, Lines!Pit PROVE LineInv'
  OBVIOUS
<1>1. PICK a \in Lines!Allocate(0) :
        Lines!Fill(a, "pit") /\ op' = [what |-> "unmask", vector |-> a.vector]
  BY DEF Lines!Pit
<1>2. /\ booted /\ op = Lines!Idle /\ \A v \in DOMAIN handlers : handlers[v].func # "pit"
      /\ UNCHANGED <<machine, initialised, booted, entries, pic, pending, lost, panicked>>
  BY DEF Lines!Pit, Lines!Ready
<1>3. 0 \in 0..NumInts - 1 /\ handlers[0].func = "none" /\ handlers[0].reserved \in BOOLEAN
  <2>1. handlers[0] \in [func : {"none", "pit", "sched", "uacpi"}, reserved : BOOLEAN]
    BY LineConstants, LineFacts
  <2>. QED
    BY <1>2, <2>1, LineConstants, LineFacts DEF LineInv, LineOwners
<1>4. a.vector = 0 /\ a.reserve \in BOOLEAN
  <2>. DEFINE free == {v \in 0..NumInts - 1 : handlers[v].func = Lines!None /\ ~handlers[v].reserved}
              legacy == machine.pics /\ 0 \in Legacy /\ handlers[0].func = Lines!None
  <2>1. a \in IF legacy THEN {[vector |-> 0, reserve |-> handlers[0].reserved]}
              ELSE {[vector |-> v, reserve |-> TRUE] : v \in {w \in free : \A x \in free : w <= x}}
    BY Zenon DEF Lines!Allocate
  <2>2. CASE legacy
    BY <1>3, <2>1, <2>2
  <2>3. CASE ~legacy
    <3>1. ~machine.pics
      BY <1>3, <2>3, LineConstants DEF Lines!None
    <3>2. 0 \in free
      BY <1>3, <3>1 DEF LineInv, LineOwners, Lines!None
    <3>3. PICK v \in free : a = [vector |-> v, reserve |-> TRUE] /\ \A x \in free : v <= x
      <4>. HIDE DEF free, legacy
      <4>. QED
        BY <2>1, <2>3
    <3>4. v = 0
      BY <3>2, <3>3
    <3>. QED
      BY <3>3, <3>4
  <2>. QED
    BY <2>2, <2>3
<1>5. handlers' = [handlers EXCEPT ![0] = [func |-> "pit", reserved |-> a.reserve]]
  BY <1>1, <1>4 DEF Lines!Fill
<1>6. PICK b \in BOOLEAN : b = a.reserve
  BY <1>4
<1>7. handlers' = [handlers EXCEPT ![0] = [func |-> "pit", reserved |-> b]]
      /\ op' = [what |-> "unmask", vector |-> 0]
  BY <1>1, <1>4, <1>5, <1>6
<1>. QED
  BY <1>2, <1>3, <1>7, LineFill

\* The scheduler's vector is behind the legacy ones.
LEMMA LineSched == LineInv /\ Lines!SchedInit => LineInv'
<1>. SUFFICES ASSUME LineInv, Lines!SchedInit PROVE LineInv'
  OBVIOUS
<1>1. PICK a \in Lines!Allocate(SchedVector) : Lines!Fill(a, "sched")
  BY DEF Lines!SchedInit
<1>2. /\ booted /\ op = Lines!Idle /\ op' = op
      /\ UNCHANGED <<machine, initialised, booted, entries, pic, pending, lost, panicked>>
  BY DEF Lines!SchedInit, Lines!Ready
<1>3. PICK v \in 0..NumInts - 1 : a = [vector |-> v, reserve |-> TRUE] /\ v \notin Legacy /\ handlers[v].func = "none"
  <2>. DEFINE free == {v \in SchedVector..NumInts - 1 : handlers[v].func = Lines!None /\ ~handlers[v].reserved}
              legacy == machine.pics /\ SchedVector \in Legacy /\ handlers[SchedVector].func = Lines!None
  <2>1. a \in IF legacy THEN {[vector |-> SchedVector, reserve |-> handlers[SchedVector].reserved]}
              ELSE {[vector |-> v, reserve |-> TRUE] : v \in {w \in free : \A x \in free : w <= x}}
    BY Zenon DEF Lines!Allocate
  <2>2. ~legacy
    BY LineConstants
  <2>3. PICK v \in free : a = [vector |-> v, reserve |-> TRUE]
    <3>. HIDE DEF free, legacy
    <3>. QED
      BY <2>1, <2>2
  <2>4. v \in 0..NumInts - 1 /\ v \notin Legacy
    BY LineConstants
  <2>. QED
    BY <2>3, <2>4 DEF Lines!None
<1>4. handlers' = [handlers EXCEPT ![v] = [func |-> "sched", reserved |-> TRUE]]
  BY <1>1, <1>3 DEF Lines!Fill
<1>. QED
  BY <1>2, <1>3, <1>4, LineFill

\* uacpi_kernel_install_interrupt_handler().
LEMMA LineInstall == ASSUME NEW irq \in SciLines PROVE LineInv /\ Lines!Install(irq) => LineInv'
<1>. SUFFICES ASSUME LineInv, Lines!Install(irq) PROVE LineInv'
  OBVIOUS
<1>1. /\ booted /\ ~panicked /\ op = Lines!Idle
      /\ UNCHANGED <<machine, initialised, booted, entries, pic, pending, lost>>
  BY DEF Lines!Install, Lines!Ready
<1>2. irq \in 0..NumInts - 1
  BY LineConstants
<1>3. CASE handlers[irq].func # "none"
  <2>1. panicked' = TRUE /\ handlers' = handlers /\ op' = op
    BY <1>3 DEF Lines!Install, Lines!None
  <2>2. LineTypes' /\ LineRoutes'
    BY <1>1, <2>1, LineFacts, LineKept
  <2>3. LineOwners'
    BY <1>1, <2>1 DEF LineInv, LineOwners
  <2>4. \A u : Pin(u)' = Pin(u)
    BY <1>1, LineSame
  <2>5. LineOpen'
    BY <1>1, <2>1, <2>4 DEF LineInv, LineOpen, Leaving
  <2>. QED
    BY <2>2, <2>3, <2>5 DEF LineInv
<1>4. CASE handlers[irq].func = "none"
  <2>1. /\ handlers' = [handlers EXCEPT ![irq].func = "uacpi"] /\ panicked' = panicked
        /\ op' = [what |-> "unmask", vector |-> irq]
    BY <1>4 DEF Lines!Install, Lines!None, Lines!SetFunc
  <2>2. PICK h \in [func : {"none", "pit", "sched", "uacpi"}, reserved : BOOLEAN] : h = handlers[irq]
    BY <1>2, LineFacts
  <2>3. PICK b \in BOOLEAN : b = h.reserved
    OBVIOUS
  <2>4. [h EXCEPT !.func = "uacpi"] = [func |-> "uacpi", reserved |-> b]
    BY <2>3
  <2>5. handlers' = [handlers EXCEPT ![irq] = [func |-> "uacpi", reserved |-> b]]
    <3>1. handlers' = [handlers EXCEPT ![irq] = [h EXCEPT !.func = "uacpi"]]
      BY <2>1, <2>2
    <3>. QED
      BY <2>4, <3>1, Zenon
  <2>. QED
    BY <1>1, <1>2, <1>4, <2>1, <2>5, LineFill
<1>. QED
  BY <1>3, <1>4

\* uacpi_kernel_uninstall_interrupt_handler(), up to the mask.
LEMMA LineUninstall == ASSUME NEW irq \in SciLines PROVE LineInv /\ Lines!Uninstall(irq) => LineInv'
<1>. SUFFICES ASSUME LineInv, Lines!Uninstall(irq) PROVE LineInv'
  OBVIOUS
<1>1. /\ booted /\ ~panicked /\ op = Lines!Idle /\ handlers[irq].func = "uacpi" /\ Lines!SetMask(irq, TRUE)
      /\ op' = [what |-> "reset", vector |-> irq]
      /\ UNCHANGED <<machine, initialised, booted, handlers, pending>>
  BY DEF Lines!Uninstall, Lines!Ready
<1>2. irq \in Lines!Routed /\ irq \in 0..NumInts - 1
  BY LineConstants
<1>3. LineTypes
  BY DEF LineInv
<1>4. /\ entries' \in [Lines!RealPins(machine) -> [vector : 0..NumInts, masked : BOOLEAN]]
      /\ lost' \in BOOLEAN /\ panicked' \in BOOLEAN /\ (lost => lost')
      /\ \A ip \in Lines!RealPins(machine) : entries'[ip].vector = entries[ip].vector
  BY <1>1, <1>2, <1>3, LineMask
<1>5. initialised =>
              /\ pic' = pic
              /\ \A ip \in Lines!RealPins(machine) :
                   entries'[ip].masked = IF ip = Pin(irq) THEN TRUE ELSE entries[ip].masked
              /\ lost' /\ ~lost => Pin(irq) \notin Lines!RealPins(machine) \union {<<>>}
  BY <1>1, <1>2, <1>3, LineMask
<1>6. ~initialised => /\ entries' = entries /\ lost' = lost /\ panicked' = panicked
                      /\ pic' = pic \ {irq}
  BY <1>1, <1>2, <1>3, LineMask
<1>7. LineTypes' /\ LineRoutes'
  <2>1. pic' \subseteq Legacy /\ (initialised => pic' = {})
    BY <1>5, <1>6, LineFacts
  <2>2. lost' => lost \/ \E j \in Lines!Routed : Pin(j) \notin Lines!RealPins(machine) \union {<<>>}
    BY <1>2, <1>5, <1>6
  <2>. QED
    BY <1>1, <1>4, <2>1, <2>2, LineFacts, LineKept
<1>8. op'.what = "reset" /\ op'.vector = irq /\ op' \in [what : {"unmask", "reset"}, vector : Lines!Routed]
  BY <1>1, <1>2
<1>9. LineOwners'
  BY <1>1, <1>8 DEF LineInv, LineOwners
<1>10. \A u : Pin(u)' = Pin(u)
  BY <1>1, LineSame
<1>11. op.what = "none"
  BY <1>1 DEF Lines!Idle, Lines!None
<1>12. LineOpen'
  <2>1. (machine.pics => \A ip \in DOMAIN entries : ~entries[ip].masked =>
           \E j \in Lines!Routed : Pin(j) = ip /\ handlers[j].func # "none" /\ ~Leaving(j))'
    <3>. SUFFICES ASSUME machine.pics, NEW ip \in DOMAIN entries', ~entries'[ip].masked
                  PROVE  \E j \in Lines!Routed : Pin(j) = ip /\ handlers[j].func # "none" /\ j # irq
      BY <1>1, <1>8, <1>10 DEF Leaving
    <3>1. ip \in DOMAIN entries /\ ip \in Lines!RealPins(machine) /\ initialised
      BY <1>1, <1>4, <1>6, LineFacts
    <3>2. ip # Pin(irq) /\ ~entries[ip].masked
      BY <1>5, <3>1
    <3>. QED
      BY <3>1, <3>2 DEF LineInv, LineOpen
  <2>2. (\A u \in pic \ {Lines!Cascade} : handlers[u].func # "none" /\ ~Leaving(u))'
    BY <1>1, <1>5, <1>6, <1>8, LineFacts DEF LineInv, LineOpen, Leaving
  <2>3. ASSUME ~panicked', ~lost', initialised => machine.pics, NEW u \in Lines!Routed,
               handlers[u].func # "none", u # irq
        PROVE  IF initialised THEN ~entries'[Pin(u)].masked ELSE u \in pic'
    <3>1. IF initialised THEN ~entries[Pin(u)].masked ELSE u \in pic
      BY <1>1, <1>4, <1>11, <2>3 DEF LineInv, LineOpen
    <3>2. CASE initialised
      <4>1. Pin(u) \in Lines!RealPins(machine)
        BY <1>1, <1>4, <2>3, <3>2, LineFacts DEF LineInv, LineRoutes
      <4>2. Pin(u) # Pin(irq)
        BY <1>2, <2>3, <4>1, LineFacts, LinePins
      <4>. QED
        BY <1>5, <3>1, <3>2, <4>1, <4>2
    <3>. QED
      BY <1>6, <2>3, <3>1, <3>2
  <2>4. (~panicked /\ ~lost /\ (initialised => machine.pics) =>
           \A u \in Lines!Routed : handlers[u].func # "none" /\ (op.what # "none" => op.vector # u) =>
             IF initialised THEN ~entries[Pin(u)].masked ELSE u \in pic)'
    BY <1>1, <1>8, <1>10, <2>3
  <2>. QED
    BY <2>1, <2>2, <2>4 DEF LineOpen
<1>. QED
  BY <1>7, <1>9, <1>12 DEF LineInv

\* The rest of a call: the unmask after a handler was set, the reset after a mask.
LEMMA LineFinish == LineInv /\ Lines!Finish => LineInv'
<1>. SUFFICES ASSUME LineInv, Lines!Finish PROVE LineInv'
  OBVIOUS
<1>1. /\ ~panicked /\ op' = Lines!Idle /\ UNCHANGED <<machine, initialised, booted, pending>>
      /\ \/ op.what = "unmask" /\ Lines!SetMask(op.vector, FALSE) /\ UNCHANGED handlers
         \/ op.what = "reset" /\ Lines!SetFunc(op.vector, "none") /\ UNCHANGED <<entries, pic, lost, panicked>>
  BY DEF Lines!Finish, Lines!None
<1>2. op # Lines!Idle
  <2>1. op.what # "none"
    BY <1>1
  <2>. QED
    BY <2>1 DEF Lines!Idle, Lines!None
<1>3. booted /\ op.vector \in Lines!Routed /\ handlers[op.vector].func \in {"pit", "uacpi"}
  BY <1>2 DEF LineInv, LineOwners
<1>4. PICK v \in Lines!Routed : v = op.vector
  BY <1>3
<1>5. op'.what = "none" /\ \A u : Pin(u)' = Pin(u)
  BY <1>1, LineSame DEF Lines!Idle, Lines!None
<1>6. v \in 0..NumInts - 1
  BY LineFacts
<1>7. CASE op.what = "unmask" /\ Lines!SetMask(op.vector, FALSE) /\ UNCHANGED handlers
  <2>1. LineTypes /\ Lines!SetMask(v, FALSE)
    BY <1>4, <1>7 DEF LineInv
  <2>2. /\ entries' \in [Lines!RealPins(machine) -> [vector : 0..NumInts, masked : BOOLEAN]]
        /\ lost' \in BOOLEAN /\ panicked' \in BOOLEAN /\ (lost => lost')
        /\ \A ip \in Lines!RealPins(machine) : entries'[ip].vector = entries[ip].vector
    BY <2>1, LineMask
  <2>3. initialised =>
              /\ pic' = pic
              /\ \A ip \in Lines!RealPins(machine) :
                   entries'[ip].masked = IF ip = Pin(v) THEN FALSE ELSE entries[ip].masked
              /\ lost' /\ ~lost => Pin(v) \notin Lines!RealPins(machine) \union {<<>>}
    BY <2>1, LineMask
  <2>4. ~initialised => /\ entries' = entries /\ lost' = lost /\ panicked' = panicked
                        /\ pic' = pic \union {v}
    BY <2>1, LineMask
  <2>5. LineTypes' /\ LineRoutes'
    <3>1. pic' \subseteq Legacy /\ (initialised => pic' = {})
      BY <2>3, <2>4, LineFacts
    <3>2. lost' => lost \/ \E j \in Lines!Routed : Pin(j) \notin Lines!RealPins(machine) \union {<<>>}
      BY <2>3, <2>4
    <3>3. handlers' \in [0..NumInts - 1 -> [func : {"none", "pit", "sched", "uacpi"}, reserved : BOOLEAN]]
      BY <1>7, LineFacts
    <3>. QED
      BY <1>1, <1>3, <2>2, <3>1, <3>2, <3>3, LineFacts, LineKept
  <2>6. LineOwners'
    BY <1>1, <1>3, <1>7 DEF LineInv, LineOwners
  <2>7. LineOpen'
    <3>1. (machine.pics => \A ip \in DOMAIN entries : ~entries[ip].masked =>
             \E j \in Lines!Routed : Pin(j) = ip /\ handlers[j].func # "none" /\ ~Leaving(j))'
      <4>. SUFFICES ASSUME machine.pics, NEW ip \in DOMAIN entries', ~entries'[ip].masked
                    PROVE  \E j \in Lines!Routed : Pin(j) = ip /\ handlers[j].func # "none"
        BY <1>1, <1>5, <1>7 DEF Leaving
      <4>1. ip \in DOMAIN entries /\ ip \in Lines!RealPins(machine) /\ initialised
        BY <1>3, <2>2, <2>4, LineFacts
      <4>2. CASE ip = Pin(v)
        BY <1>3, <1>4, <4>2
      <4>3. CASE ip # Pin(v)
        BY <2>3, <4>1, <4>3 DEF LineInv, LineOpen
      <4>. QED
        BY <4>2, <4>3
    <3>2. (\A u \in pic \ {Lines!Cascade} : handlers[u].func # "none" /\ ~Leaving(u))'
      BY <1>3, <1>4, <1>5, <1>7, <2>3, <2>4, LineFacts DEF LineInv, LineOpen, Leaving
    <3>3. ASSUME ~panicked', ~lost', initialised => machine.pics, NEW u \in Lines!Routed, handlers[u].func # "none"
          PROVE  IF initialised THEN ~entries'[Pin(u)].masked ELSE u \in pic'
      <4>1. u # v => IF initialised THEN ~entries[Pin(u)].masked ELSE u \in pic
        BY <1>1, <1>4, <2>2, <3>3 DEF LineInv, LineOpen
      <4>2. CASE initialised
        <5>1. Pin(u) \in Lines!RealPins(machine)
          BY <1>1, <2>2, <3>3, <4>2, LineFacts DEF LineInv, LineRoutes
        <5>2. entries'[Pin(u)].masked = IF Pin(u) = Pin(v) THEN FALSE ELSE entries[Pin(u)].masked
          BY <2>3, <4>2, <5>1
        <5>. QED
          BY <4>1, <4>2, <5>2
      <4>. QED
        BY <2>4, <4>1, <4>2
    <3>4. (~panicked /\ ~lost /\ (initialised => machine.pics) =>
             \A u \in Lines!Routed : handlers[u].func # "none" /\ (op.what # "none" => op.vector # u) =>
               IF initialised THEN ~entries[Pin(u)].masked ELSE u \in pic)'
      BY <1>1, <1>5, <1>7, <3>3
    <3>. QED
      BY <3>1, <3>2, <3>4 DEF LineOpen
  <2>. QED
    BY <2>5, <2>6, <2>7 DEF LineInv
<1>8. CASE op.what = "reset" /\ Lines!SetFunc(op.vector, "none") /\ UNCHANGED <<entries, pic, lost, panicked>>
  <2>1. handlers' = [handlers EXCEPT ![v].func = "none"]
    BY <1>4, <1>8 DEF Lines!SetFunc
  <2>2. PICK h \in [func : {"none", "pit", "sched", "uacpi"}, reserved : BOOLEAN] : h = handlers[v]
    BY <1>6, LineFacts
  <2>3. handlers' = [handlers EXCEPT ![v] = [h EXCEPT !.func = "none"]]
    BY <2>1, <2>2
  <2>4. /\ handlers' \in [0..NumInts - 1 -> [func : {"none", "pit", "sched", "uacpi"}, reserved : BOOLEAN]]
        /\ \A u \in 0..NumInts - 1 : u # v => handlers'[u] = handlers[u]
        /\ handlers'[v].func = "none" /\ handlers'[v].reserved = h.reserved
    <3>1. PICK g : g = [h EXCEPT !.func = "none"]
      OBVIOUS
    <3>2. g \in [func : {"none", "pit", "sched", "uacpi"}, reserved : BOOLEAN] /\ g.func = "none" /\ g.reserved = h.reserved
      BY <3>1
    <3>. QED
      BY <1>6, <2>3, <3>1, <3>2, LineFacts
  <2>5. LineTypes' /\ LineRoutes'
    BY <1>1, <1>3, <1>8, <2>4, LineFacts, LineKept
  <2>6. LineOwners'
    <3>1. v # 0
      BY <1>2, <1>4, <1>6, <1>8, LineConstants DEF LineInv, LineOwners
    <3>2. handlers'[0] = handlers[0]
      BY <2>4, <3>1, LineConstants
    <3>3. (\A u \in 0..NumInts - 1 :
            /\ handlers[u].func = "pit" => u = 0
            /\ handlers[u].func = "uacpi" => u \in SciLines
            /\ handlers[u].func = "sched" => u \notin Legacy)'
      BY <2>4 DEF LineInv, LineOwners
    <3>. QED
      BY <1>1, <1>3, <3>2, <3>3 DEF LineInv, LineOwners
  <2>7. LineOpen'
    <3>1. \A u \in Lines!Routed : ~Leaving(u) => u # v
      BY <1>4, <1>8 DEF Leaving
    <3>2. (machine.pics => \A ip \in DOMAIN entries : ~entries[ip].masked =>
             \E j \in Lines!Routed : Pin(j) = ip /\ handlers[j].func # "none" /\ ~Leaving(j))'
      BY <1>1, <1>5, <1>8, <2>4, <3>1, LineFacts DEF LineInv, LineOpen, Leaving
    <3>3. (\A u \in pic \ {Lines!Cascade} : handlers[u].func # "none" /\ ~Leaving(u))'
      <4>1. \A u \in pic \ {Lines!Cascade} : u \in 0..NumInts - 1 /\ u # v /\ handlers[u].func # "none"
        BY <1>4, <1>8, LineConstants, LineFacts DEF LineInv, LineOpen, Leaving
      <4>. QED
        BY <1>5, <1>8, <2>4, <4>1 DEF Leaving
    <3>4. (~panicked /\ ~lost /\ (initialised => machine.pics) =>
             \A u \in Lines!Routed : handlers[u].func # "none" /\ (op.what # "none" => op.vector # u) =>
               IF initialised THEN ~entries[Pin(u)].masked ELSE u \in pic)'
      <4>1. \A u \in Lines!Routed : handlers'[u].func # "none" => u # v /\ handlers[u].func # "none"
        BY <2>4, LineFacts
      <4>. QED
        BY <1>1, <1>4, <1>5, <1>8, <4>1 DEF LineInv, LineOpen
    <3>. QED
      BY <3>2, <3>3, <3>4 DEF LineOpen
  <2>. QED
    BY <2>5, <2>6, <2>7 DEF LineInv
<1>. QED
  BY <1>1, <1>7, <1>8

\* A device raises its line, or isr_handler() takes a vector.
LEMMA LinePending ==
  ASSUME LineInv, pending' \subseteq 0..NumInts - 1,
         UNCHANGED <<machine, initialised, booted, entries, pic, handlers, op, lost, panicked>>
  PROVE  LineInv'
<1>1. /\ \A irq : Pin(irq)' = Pin(irq) /\ Lines!LineOf(irq)' = Lines!LineOf(irq)
      /\ Lines!RealPins(machine)' = Lines!RealPins(machine)
  BY LineSame
<1>2. LineTypes'
  BY <1>1 DEF LineInv, LineTypes
<1>3. LineOwners'
  BY <1>1 DEF LineInv, LineOwners
<1>4. LineRoutes'
  BY <1>1 DEF LineInv, LineRoutes, Lines!OneBehind
<1>5. LineOpen'
  BY <1>1 DEF LineInv, LineOpen, Leaving
<1>. QED
  BY <1>2, <1>3, <1>4, <1>5 DEF LineInv

\* Every step keeps the invariant.
LEMMA LineNext == LineInv /\ Lines!Next => LineInv'
<1>. SUFFICES ASSUME LineInv, Lines!Next PROVE LineInv'
  OBVIOUS
<1>1. ASSUME NEW irq \in Lines!Routed, Lines!Raise(irq) PROVE LineInv'
  <2>1. UNCHANGED <<machine, initialised, booted, entries, pic, handlers, op, lost, panicked>>
    BY <1>1 DEF Lines!Raise
  <2>2. pending' = pending
          \union ({entries[ip].vector : ip \in {q \in Lines!WiredTo(irq) : ~entries[q].masked}} \ {NumInts})
          \union (IF irq \in pic THEN {irq} ELSE {})
    BY <1>1 DEF Lines!Raise, Lines!NoVector
  <2>3. \A ip \in Lines!WiredTo(irq) : entries[ip].vector \in 0..NumInts
    <3>1. \A ip \in Lines!WiredTo(irq) : ip \in Lines!RealPins(machine)
      BY DEF Lines!WiredTo
    <3>. QED
      BY <3>1, LineFacts
  <2>4. pending' \subseteq 0..NumInts - 1
    BY <2>2, <2>3, LineFacts, LineConstants
  <2>. QED
    BY <2>1, <2>4, LinePending
<1>2. ASSUME NEW v \in 0..NumInts - 1, Lines!Deliver(v) PROVE LineInv'
  BY <1>2, LinePending, LineFacts DEF Lines!Deliver
<1>. QED
  BY <1>1, <1>2, LineIoInit, LinePit, LineSched, LineFinish, LineInstall, LineUninstall DEF Lines!Next

\* The invariant implies the property.
LEMMA LineInvSound == LineInv => Lines!LinesReachHandlers
<1>. SUFFICES ASSUME LineInv PROVE Lines!LinesReachHandlers
  OBVIOUS
<1>1. Lines!TypeOK
  BY LineFacts DEF Lines!TypeOK, Lines!None
<1>2. lost => \E irq \in Legacy, i \in DOMAIN machine.ioapics :
                Lines!OneBehind(Lines!LineOf(irq), machine.ioapics[i])
  BY DEF LineInv, LineRoutes
<1>3. ASSUME op = Lines!Idle, ~panicked, ~lost, initialised => machine.pics,
             NEW v \in Legacy, handlers[v].func \in {"pit", "uacpi"}
      PROVE  IF initialised
             THEN \E ip \in Lines!WiredTo(v) : entries[ip] = [vector |-> v, masked |-> FALSE]
             ELSE v \in pic
  <2>1. v \in Lines!Routed /\ v \in Nat
    BY <1>3, LineConstants DEF LineInv, LineOwners
  <2>2. IF initialised THEN ~entries[Pin(v)].masked ELSE v \in pic
    BY <1>3, <2>1 DEF LineInv, LineOpen, Lines!Idle, Lines!None
  <2>3. CASE initialised
    <3>1. Pin(v) \in DOMAIN entries /\ entries[Pin(v)].vector = v
      BY <1>3, <2>1, <2>3 DEF LineInv, LineRoutes
    <3>2. entries[Pin(v)] \in [vector : 0..NumInts, masked : BOOLEAN] /\ Pin(v) \in Lines!WiredTo(v)
      BY <2>1, <3>1, LineFacts, LinePins
    <3>3. entries[Pin(v)] = [vector |-> v, masked |-> FALSE]
      BY <2>2, <2>3, <3>1, <3>2
    <3>. QED
      BY <2>3, <3>2, <3>3
  <2>. QED
    BY <2>2, <2>3
<1>4. ASSUME machine.pics, NEW ip \in DOMAIN entries, ~entries[ip].masked
      PROVE  entries[ip].vector # NumInts /\ handlers[entries[ip].vector].func # "none"
  <2>1. booted
    <3>. SUFFICES ASSUME ~booted PROVE FALSE
      OBVIOUS
    <3>1. entries = [q \in Lines!RealPins(machine) |-> Lines!Reset]
      BY DEF LineInv, LineOwners
    <3>. QED
      BY <1>4, <3>1 DEF Lines!Reset
  <2>2. initialised
    BY <2>1, LineFacts
  <2>3. PICK irq \in Lines!Routed : Pin(irq) = ip /\ handlers[irq].func # "none"
    BY <1>4 DEF LineInv, LineOpen
  <2>4. entries[ip].vector = irq
    BY <1>4, <2>2, <2>3 DEF LineInv, LineRoutes
  <2>5. irq # NumInts
    BY LineFacts, LineConstants
  <2>. QED
    BY <2>3, <2>4, <2>5
<1>5. \A v \in pic \ {Lines!Cascade} : handlers[v].func # "none"
  BY DEF LineInv, LineOpen
<1>. QED
  BY <1>1, <1>2, <1>3, <1>4, <1>5 DEF Lines!LinesReachHandlers, Lines!None, Lines!NoVector

\* The way of an interrupt, on any machine whose tables override each line once
\* and share no gsi: an installed handler is reached by its own line, whatever
\* installs, removals and interrupts come before, and no line is let through to
\* a vector without a handler (ioapic.cpp, interrupts.cpp, idt.cpp).
THEOREM LinesReachHandlersInvariant == Spec => []LinesReachHandlers
<1>. DEFINE I == part = "lines" => LineInv
<1>1. Init => I
  BY LineInit DEF Init
<1>2. I /\ [Next]_vars => I'
  <2>. SUFFICES ASSUME I, [Next]_vars, part' = "lines" PROVE LineInv'
    OBVIOUS
  <2>1. part = "lines" /\ LineInv
    BY DEF Next, vars
  <2>2. CASE Lines!Next
    BY <2>1, <2>2, LineNext
  <2>3. CASE UNCHANGED lineVars
    <3>1. UNCHANGED <<machine, initialised, booted, entries, pic, handlers, op, lost, panicked>>
          /\ pending' = pending
      BY <2>3 DEF lineVars
    <3>. QED
      BY <2>1, <3>1, LineFacts, LinePending
  <2>. QED
    BY <2>1, <2>2, <2>3 DEF Next, vars
<1>3. I => LinesReachHandlers
  BY LineInvSound DEF LinesReachHandlers
<1>. QED
  BY <1>1, <1>2, <1>3, PTL DEF Spec
=============================================================================
