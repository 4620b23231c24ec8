-------------------------- MODULE TicketLockProofs --------------------------
(***************************************************************************)
(* Proofs about module TicketLock for every finite set of threads and      *)
(* every ticket width with more values than threads.                       *)
(*                                                                         *)
(* MutualExclusion alone is not inductive: that nobody else is served      *)
(* after a release follows from the tickets being distinct, and that a new *)
(* ticket is distinct after wrapping follows from the distance of the      *)
(* counters being the number of outstanding tickets. TicketsAccounted says *)
(* both.                                                                   *)
(*                                                                         *)
(* The refinement of FifoLock rests on one more fact: the distances of the *)
(* outstanding tickets are 0, 1, ... without a gap, so the thread at place *)
(* i of the abstract queue is the one whose ticket is i - 1 behind the     *)
(* served one (QueueInTicketOrder, by the pigeonhole principle).           *)
(***************************************************************************)
EXTENDS TicketLock, FiniteSetTheorems, SequenceTheorems, TLAPS

IInv == TypeOK /\ TicketsAccounted

-----------------------------------------------------------------------------
(* Arithmetic of wrapping counters. *)

LEMMA TicketModPositive == TicketMod \in Nat \ {0}
<1>1. Cardinality(Threads) \in Nat
  BY ThreadsFinite, FS_CardinalityType
<1> QED BY <1>1, TicketModNat, FewerThreadsThanTickets

LEMMA IncType == ASSUME NEW n \in Ticket PROVE Inc(n) \in Ticket
BY TicketModPositive DEF Inc, Ticket

\* Advancing a counter that has not lapped the served one adds 1 to its lead.
LEMMA BehindInc ==
    ASSUME NEW n \in Ticket, servingTicket \in Ticket,
           Behind(n) + 1 < TicketMod
    PROVE  Behind(Inc(n)) = Behind(n) + 1
BY TicketModPositive DEF Inc, Ticket, Behind

LEMMA BehindType ==
    ASSUME NEW n \in Ticket, servingTicket \in Ticket
    PROVE  /\ Behind(n) \in Nat
           /\ Behind(n) < TicketMod
           /\ Behind(n) = 0 <=> n = servingTicket
BY TicketModPositive DEF Ticket, Behind

\* Different tickets are at different distances.
LEMMA BehindInjective ==
    ASSUME NEW m \in Ticket, NEW n \in Ticket, servingTicket \in Ticket,
           Behind(m) = Behind(n)
    PROVE  m = n
BY TicketModPositive DEF Ticket, Behind

\* Retiring the served ticket brings every other one a step closer.
LEMMA BehindServed ==
    ASSUME NEW n \in Ticket, servingTicket \in Ticket, n # servingTicket,
           servingTicket' = Inc(servingTicket)
    PROVE  (IF n >= servingTicket' THEN n - servingTicket'
                                  ELSE n + TicketMod - servingTicket')
             = Behind(n) - 1
BY TicketModPositive DEF Inc, Ticket, Behind

-----------------------------------------------------------------------------
(* Outstanding tickets. *)

LEMMA DrawnFinite ==
    /\ Drawn \subseteq Threads
    /\ IsFiniteSet(Drawn)
    /\ Cardinality(Drawn) \in Nat
<1>1. Drawn \subseteq Threads  BY DEF Drawn, Owners, Waiters
<1>2. IsFiniteSet(Drawn)  BY <1>1, ThreadsFinite, FS_Subset
<1> QED BY <1>1, <1>2, FS_CardinalityType

\* A thread without a ticket leaves a ticket value unused.
LEMMA RoomForOne ==
    ASSUME NEW t \in Threads, t \notin Drawn
    PROVE  Cardinality(Drawn) + 1 < TicketMod
<1>1. IsFiniteSet(Drawn \union {t})
      /\ Cardinality(Drawn \union {t}) = Cardinality(Drawn) + 1
  BY DrawnFinite, FS_AddElement
<1>2. Drawn \union {t} \subseteq Threads
  BY DrawnFinite
<1>3. Cardinality(Drawn \union {t}) <= Cardinality(Threads)
  BY <1>2, ThreadsFinite, FS_Subset
<1> QED
  BY <1>1, <1>3, DrawnFinite, ThreadsFinite, FS_CardinalityType,
     FewerThreadsThanTickets, TicketModNat

-----------------------------------------------------------------------------
(* Every state a thread of the kernel can bring a spinlock into is well    *)
(* typed: the counters stay unsigned integers of the ticket width.         *)
THEOREM TypeCorrect == Spec => []TypeOK
<1>1. Init => TypeOK
  BY TicketModPositive DEF Init, TypeOK, Ticket, PC
<1>2. TypeOK /\ [Next]_vars => TypeOK'
  <2> SUFFICES ASSUME TypeOK, [Next]_vars PROVE TypeOK'
    OBVIOUS
  <2> USE DEF TypeOK, Goto, PC
  <2>z. 0 \in Ticket  BY TicketModPositive DEF Ticket
  <2>1. CASE UNCHANGED vars  BY <2>1 DEF vars
  <2>2. ASSUME NEW t \in Threads, Step(t) PROVE TypeOK'
    <3>1. CASE Lock(t)  BY <3>1 DEF Lock
    <3>2. CASE DrawTicket(t)  BY <3>2, IncType DEF DrawTicket
    <3>3. CASE Served(t)  BY <3>3 DEF Served
    <3>4. CASE Unlock(t)  BY <3>4 DEF Unlock
    <3>5. CASE StoreServing(t)  BY <3>5, <2>z, IncType DEF StoreServing
    <3>6. CASE TryLock(t)  BY <3>6 DEF TryLock
    <3>7. CASE TryLockTest(t)  BY <3>7, <2>z DEF TryLockTest
    <3>8. CASE TryLockUntil(t)  BY <3>8 DEF TryLockUntil
    <3> QED
      BY <2>2, <3>1, <3>2, <3>3, <3>4, <3>5, <3>6, <3>7, <3>8 DEF Step
  <2> QED BY <2>1, <2>2 DEF Next
<1> QED BY <1>1, <1>2, PTL DEF Spec

-----------------------------------------------------------------------------
\* A step that leaves counters, tickets and the two sets alone changes nothing.
LEMMA AccountedUnchanged ==
    ASSUME TicketsAccounted,
           UNCHANGED <<nextTicket, servingTicket, ticket>>,
           Owners' = Owners, Waiters' = Waiters
    PROVE  TicketsAccounted'
BY DEF TicketsAccounted, Behind, Drawn

LEMMA DrawPreserves ==
    ASSUME IInv, NEW t \in Threads, DrawTicket(t)
    PROVE  TicketsAccounted'
<1> USE DEF IInv, TypeOK
<1>1. t \notin Drawn
  BY DEF DrawTicket, Drawn, Owners, Waiters
<1>2. Owners' = Owners /\ Drawn' = Drawn \union {t}
  BY DEF DrawTicket, Goto, Drawn, Owners, Waiters, PC
<1>3. Cardinality(Drawn') = Cardinality(Drawn) + 1
  BY <1>1, <1>2, DrawnFinite, FS_AddElement
<1>4. Behind(nextTicket) + 1 < TicketMod
  BY <1>1, RoomForOne DEF TicketsAccounted
<1>5. Behind(Inc(nextTicket)) = Behind(nextTicket) + 1
  BY <1>4, BehindInc
<1>6. \A n : Behind(n)' = Behind(n)
  BY DEF DrawTicket, Behind
<1>7. Behind(nextTicket)' = Behind(nextTicket) + 1
  BY <1>5 DEF DrawTicket, Behind
<1>8. /\ ticket' = [ticket EXCEPT ![t] = nextTicket]
      /\ servingTicket' = servingTicket
  BY DEF DrawTicket
<1>9. \A u \in Drawn : u # t /\ ticket'[u] = ticket[u]
  BY <1>1, <1>8, DrawnFinite
<1>10. ticket'[t] = nextTicket
  BY <1>8
<1>11. Behind(nextTicket) \in Nat /\ \A u \in Drawn : Behind(ticket[u]) \in Nat
  BY BehindType, DrawnFinite
<1>a. (Behind(nextTicket) = Cardinality(Drawn))'
  BY <1>3, <1>7 DEF TicketsAccounted
<1>b. ASSUME NEW u \in Drawn' PROVE (Behind(ticket[u]) < Behind(nextTicket))'
  <2>1. CASE u = t
    <3>1. Behind(ticket[u])' = Behind(nextTicket)
      BY <1>10, <2>1, <1>8 DEF Behind
    <3> QED BY <3>1, <1>7, <1>11
  <2>2. CASE u \in Drawn
    <3>1. Behind(ticket[u])' = Behind(ticket[u])
      BY <1>9, <2>2, <1>8 DEF Behind
    <3>2. Behind(ticket[u]) < Behind(nextTicket)
      BY <2>2 DEF TicketsAccounted
    <3> QED BY <3>1, <3>2, <1>7, <1>11, <2>2
  <2> QED BY <1>2, <2>1, <2>2
<1>c. ASSUME NEW u \in Drawn', NEW v \in Drawn', ticket'[u] = ticket'[v]
      PROVE  u = v
  <2>1. ASSUME NEW w \in Drawn PROVE ticket[w] # nextTicket
    BY <2>1, <1>11 DEF TicketsAccounted
  <2> QED BY <1>2, <1>9, <1>10, <1>c, <2>1 DEF TicketsAccounted
<1>d. ASSUME NEW u \in Owners' PROVE (ticket[u] = servingTicket)'
  BY <1>2, <1>8, <1>9, <1>d DEF TicketsAccounted, Drawn
<1> QED BY <1>a, <1>b, <1>c, <1>d DEF TicketsAccounted

LEMMA ServedPreserves ==
    ASSUME IInv, NEW t \in Threads, Served(t)
    PROVE  TicketsAccounted'
<1> USE DEF IInv, TypeOK
<1>1. Owners' = Owners \union {t} /\ Drawn' = Drawn
  BY DEF Served, Goto, Drawn, Owners, Waiters, PC
<1>2. /\ UNCHANGED <<nextTicket, servingTicket, ticket>>
      /\ ticket[t] = servingTicket
  BY DEF Served
<1>3. \A n : Behind(n)' = Behind(n)
  BY <1>2 DEF Behind
<1> QED BY <1>1, <1>2 DEF TicketsAccounted, Behind

\* Only one thread is past lock() and before the retiring store.
LEMMA OwnerUnique ==
    ASSUME TicketsAccounted PROVE MutualExclusion
BY DEF TicketsAccounted, MutualExclusion, Drawn

LEMMA StorePreserves ==
    ASSUME IInv, NEW t \in Threads, StoreServing(t)
    PROVE  TicketsAccounted'
<1> USE DEF IInv, TypeOK
<1>1. t \in Owners /\ t \in Drawn
  BY DEF StoreServing, Drawn, Owners
<1>2. Owners = {t}
  BY <1>1, OwnerUnique DEF MutualExclusion
<1>3. Owners' = {} /\ Drawn' = Drawn \ {t}
  BY <1>2 DEF StoreServing, Goto, Drawn, Owners, Waiters, PC
<1>4. Cardinality(Drawn') = Cardinality(Drawn) - 1
  BY <1>1, <1>3, DrawnFinite, FS_RemoveElement
<1>5. /\ nextTicket' = nextTicket
      /\ servingTicket' = Inc(servingTicket)
      /\ \A u \in Drawn' : ticket'[u] = ticket[u]
  BY <1>3, DrawnFinite DEF StoreServing
<1>6. nextTicket # servingTicket
  BY <1>1, BehindType DEF TicketsAccounted
<1>7. Behind(nextTicket)' = Behind(nextTicket) - 1
  BY <1>5, <1>6, BehindServed DEF Behind
<1>8. ASSUME NEW u \in Drawn'
      PROVE  Behind(ticket[u])' = Behind(ticket[u]) - 1
  <2>1. ticket[u] # servingTicket
    BY <1>1, <1>3, <1>8 DEF TicketsAccounted
  <2>2. ticket[u] \in Ticket
    BY <1>3, <1>8, DrawnFinite
  <2> QED BY <1>5, <1>8, <2>1, <2>2, BehindServed DEF Behind
<1>a. (Behind(nextTicket) = Cardinality(Drawn))'
  BY <1>4, <1>7 DEF TicketsAccounted
<1>b. ASSUME NEW u \in Drawn' PROVE (Behind(ticket[u]) < Behind(nextTicket))'
  <2>1. Behind(ticket[u]) \in Nat /\ Behind(nextTicket) \in Nat
    BY <1>3, <1>b, BehindType, DrawnFinite
  <2>2. Behind(ticket[u]) < Behind(nextTicket)
    BY <1>3, <1>b DEF TicketsAccounted
  <2> QED BY <1>7, <1>8, <1>b, <2>1, <2>2
<1>c. \A u, v \in Drawn' : ticket'[u] = ticket'[v] => u = v
  BY <1>3, <1>5 DEF TicketsAccounted
<1> QED BY <1>3, <1>a, <1>b, <1>c DEF TicketsAccounted

-----------------------------------------------------------------------------
(***************************************************************************)
(* The counters of a spinlock always account for exactly the outstanding   *)
(* tickets.                                                                *)
(***************************************************************************)
THEOREM TicketsAccountedInvariant == Spec => []TicketsAccounted
<1>1. Init => TicketsAccounted
  <2> SUFFICES ASSUME Init PROVE TicketsAccounted
    OBVIOUS
  <2>1. Drawn = {} /\ Owners = {}
    BY DEF Init, Drawn, Owners, Waiters
  <2> QED BY <2>1, FS_EmptySet, TicketModPositive
          DEF TicketsAccounted, Behind, Init
<1>2. IInv /\ [Next]_vars => TicketsAccounted'
  <2> SUFFICES ASSUME IInv, [Next]_vars PROVE TicketsAccounted'
    OBVIOUS
  <2> USE DEF IInv, TypeOK, Goto, Owners, Waiters, PC
  <2>1. CASE UNCHANGED vars
    BY <2>1, AccountedUnchanged DEF vars
  <2>2. ASSUME NEW t \in Threads, Step(t) PROVE TicketsAccounted'
    <3>1. CASE Lock(t)  BY <3>1, AccountedUnchanged DEF Lock
    <3>2. CASE DrawTicket(t)  BY <3>2, DrawPreserves
    <3>3. CASE Served(t)  BY <3>3, ServedPreserves
    <3>4. CASE Unlock(t)
      <4>1. servingTicket # nextTicket
        <5>1. t \in Drawn  BY <3>4 DEF Unlock, Drawn
        <5> QED BY <5>1, BehindType DEF TicketsAccounted
      <4> QED BY <3>4, <4>1, AccountedUnchanged DEF Unlock
    <3>5. CASE StoreServing(t)  BY <3>5, StorePreserves
    <3>6. CASE TryLock(t)  BY <3>6, AccountedUnchanged DEF TryLock
    <3>7. CASE TryLockTest(t)  BY <3>7, AccountedUnchanged DEF TryLockTest
    <3>8. CASE TryLockUntil(t)  BY <3>8, AccountedUnchanged DEF TryLockUntil
    <3> QED
      BY <2>2, <3>1, <3>2, <3>3, <3>4, <3>5, <3>6, <3>7, <3>8 DEF Step
  <2> QED BY <2>1, <2>2 DEF Next
<1> QED BY <1>1, <1>2, TypeCorrect, PTL DEF Spec, IInv

(***************************************************************************)
(* At most one thread holds a spinlock, for any number of threads and any  *)
(* counter width that has more values than there are threads.              *)
(***************************************************************************)
THEOREM SpinlockMutualExclusion == Spec => []MutualExclusion
BY TicketsAccountedInvariant, OwnerUnique, PTL

(***************************************************************************)
(* unlock() by the holder of a spinlock never takes its early return.      *)
(***************************************************************************)
THEOREM SpinlockUnlockNeverRefused == Spec => UnlockNeverRefused
<1> DEFINE P == \A t \in Threads : pc[t] = "held" => pc'[t] \in {"held", "release"}
<1>1. IInv /\ [Next]_vars => [P]_vars
  <2> SUFFICES ASSUME IInv, Next PROVE P
    OBVIOUS
  <2> SUFFICES ASSUME NEW t \in Threads, pc[t] = "held"
               PROVE  pc'[t] \in {"held", "release"}
    OBVIOUS
  <2>1. servingTicket # nextTicket
    <3>1. t \in Drawn  BY DEF Drawn, Owners
    <3> QED BY <3>1, BehindType DEF TicketsAccounted, IInv, TypeOK
  <2>2. PICK u \in Threads : Step(u)  BY DEF Next
  <2> QED
    BY <2>1, <2>2 DEF IInv, TypeOK, Step, Lock, DrawTicket, Served, Unlock,
       StoreServing, TryLock, TryLockTest, TryLockUntil, Goto
<1> QED
  BY <1>1, TypeCorrect, TicketsAccountedInvariant, PTL
     DEF Spec, IInv, UnlockNeverRefused

-----------------------------------------------------------------------------
(* The abstract queue. *)

\* n numbers below n that are all different: each number occurs, and as many
\* of them are below one as it says.
LEMMA Ranked ==
    ASSUME NEW D, IsFiniteSet(D), NEW b,
           b \in [D -> 0..(Cardinality(D) - 1)],
           \A t, u \in D : b[t] = b[u] => t = u
    PROVE  /\ \A k \in 0..(Cardinality(D) - 1) : \E t \in D : b[t] = k
           /\ \A t \in D : Cardinality({u \in D : b[u] < b[t]}) = b[t]
<1>n. PICK n \in Nat : n = Cardinality(D)
  BY FS_CardinalityType
<1>1. IsFiniteSet(0..(n - 1)) /\ Cardinality(0..(n - 1)) = n
  BY FS_Interval
<1>2. b \in Injection(D, 0..(n - 1))
  BY <1>n DEF Injection, IsInjective
<1>3. b \in Surjection(D, 0..(n - 1))
  BY <1>1, <1>2, <1>n, FS_Injection
<1>4. \A k \in 0..(n - 1) : \E t \in D : b[t] = k
  BY <1>3 DEF Surjection
<1>5. ASSUME NEW t \in D PROVE Cardinality({u \in D : b[u] < b[t]}) = b[t]
  <2> DEFINE E == {u \in D : b[u] < b[t]}
             f == [u \in E |-> b[u]]
  <2>k. PICK k : k = b[t]
    OBVIOUS
  <2>1. k \in Nat /\ k <= n - 1
    BY <1>n, <2>k
  <2>2. IsFiniteSet(0..(k - 1)) /\ Cardinality(0..(k - 1)) = k
    <3>1. k - 1 \in Int /\ 0 \in Int /\ k \in Int
      BY <2>1
    <3>2. Cardinality(0..(k - 1)) = IF 0 > k - 1 THEN 0 ELSE (k - 1) - 0 + 1
      BY <3>1, FS_Interval
    <3> HIDE DEF E, f
    <3> QED BY <2>1, <3>1, <3>2, FS_Interval
  <2>3. \A u \in E : b[u] \in 0..(k - 1)
    BY <1>n, <2>1, <2>k
  <2>4. f \in Injection(E, 0..(k - 1))
    BY <2>3 DEF Injection, IsInjective
  <2>5. ASSUME NEW i \in 0..(k - 1) PROVE \E u \in E : f[u] = i
    <3>1. i \in 0..(n - 1) /\ i < k
      BY <2>1
    <3>2. PICK u \in D : b[u] = i
      BY <1>4, <3>1
    <3> QED BY <2>k, <3>1, <3>2
  <2>6. f \in Surjection(E, 0..(k - 1))
    BY <2>3, <2>5 DEF Surjection
  <2> HIDE DEF E, f
  <2>7. Cardinality(E) = k
    BY <2>2, <2>4, <2>6, FS_Injection
  <2> QED BY <2>7, <2>k DEF E
<1> QED BY <1>4, <1>5, <1>n

\* The abstract queue holds the threads with a ticket, each where its ticket
\* says.
InTicketOrder ==
    /\ QueueOf \in Seq(Threads) /\ Len(QueueOf) = Cardinality(Drawn)
    /\ \A i \in 1..Cardinality(Drawn) :
         QueueOf[i] \in Drawn /\ Behind(ticket[QueueOf[i]]) = i - 1
    /\ \A t \in Drawn : Behind(ticket[t]) + 1 \in 1..Cardinality(Drawn)
                        /\ QueueOf[Behind(ticket[t]) + 1] = t

\* It follows from the accounting of the tickets.
LEMMA QueueInTicketOrder == IInv => InTicketOrder
<1> SUFFICES ASSUME IInv PROVE InTicketOrder
  OBVIOUS
<1> DEFINE b == [t \in Drawn |-> Behind(ticket[t])]
<1>n. PICK n \in Nat : n = Cardinality(Drawn)
  BY DrawnFinite
<1>1. \A t \in Drawn : ticket[t] \in Ticket /\ Behind(ticket[t]) \in Nat /\ Behind(ticket[t]) < n
  BY <1>n, DrawnFinite, BehindType DEF IInv, TypeOK, TicketsAccounted
<1>2. b \in [Drawn -> 0..(n - 1)]
  BY <1>1
<1>3. \A t, u \in Drawn : Behind(ticket[t]) = Behind(ticket[u]) => t = u
  BY <1>1, BehindInjective DEF IInv, TypeOK, TicketsAccounted
<1>4. \A t, u \in Drawn : b[t] = b[u] => t = u
  BY <1>3
<1>5. /\ \A k \in 0..(n - 1) : \E t \in Drawn : b[t] = k
      /\ \A t \in Drawn : Cardinality({u \in Drawn : b[u] < b[t]}) = b[t]
  <2> HIDE DEF b
  <2> QED BY <1>n, <1>2, <1>4, DrawnFinite, Ranked
<1>6. /\ \A k \in 0..(n - 1) : \E t \in Drawn : Behind(ticket[t]) = k
      /\ \A t \in Drawn :
           Cardinality({u \in Drawn : Behind(ticket[u]) < Behind(ticket[t])}) = Behind(ticket[t])
  <2>1. ASSUME NEW t \in Drawn
        PROVE  {u \in Drawn : b[u] < b[t]} = {u \in Drawn : Behind(ticket[u]) < Behind(ticket[t])}
    OBVIOUS
  <2> QED BY <1>5, <2>1
<1>7. QueueOf = [i \in 1..n |-> CHOOSE t \in Drawn :
        Cardinality({u \in Drawn : Behind(ticket[u]) < Behind(ticket[t])}) = i - 1]
  BY <1>n, Zenon DEF QueueOf
<1>8. ASSUME NEW i \in 1..n
      PROVE  QueueOf[i] \in Drawn /\ Behind(ticket[QueueOf[i]]) = i - 1
  <2>1. i - 1 \in 0..(n - 1)
    OBVIOUS
  <2>2. PICK t \in Drawn : Behind(ticket[t]) = i - 1
    BY <1>6, <2>1
  <2>3. Cardinality({u \in Drawn : Behind(ticket[u]) < Behind(ticket[t])}) = i - 1
    BY <1>6, <2>2
  <2>4. QueueOf[i] = CHOOSE x \in Drawn :
          Cardinality({u \in Drawn : Behind(ticket[u]) < Behind(ticket[x])}) = i - 1
    BY <1>7, Zenon
  <2>5. /\ QueueOf[i] \in Drawn
        /\ Cardinality({u \in Drawn : Behind(ticket[u]) < Behind(ticket[QueueOf[i]])}) = i - 1
    BY <2>3, <2>4, Zenon
  <2> QED BY <1>6, <2>5, Zenon
<1>9. QueueOf \in Seq(Threads) /\ Len(QueueOf) = n
  <2>1. \A i \in 1..n : QueueOf[i] \in Threads
    BY <1>8, DrawnFinite
  <2> HIDE DEF b
  <2>2. QueueOf \in [1..n -> Threads]
    BY <1>7, <2>1, Zenon
  <2> QED BY <2>2, SMT
<1>10. ASSUME NEW t \in Drawn
       PROVE  Behind(ticket[t]) + 1 \in 1..n /\ QueueOf[Behind(ticket[t]) + 1] = t
  <2>1. Behind(ticket[t]) + 1 \in 1..n /\ (Behind(ticket[t]) + 1) - 1 = Behind(ticket[t])
    BY <1>1
  <2> QED BY <1>3, <1>8, <2>1
<1> QED BY <1>n, <1>8, <1>9, <1>10 DEF InTicketOrder

\* A step that leaves the outstanding tickets alone leaves the queue alone.
LEMMA QueueKept ==
    ASSUME UNCHANGED <<servingTicket, ticket>>, Drawn' = Drawn
    PROVE  QueueOf' = QueueOf
<1>1. servingTicket' = servingTicket /\ ticket' = ticket
  OBVIOUS
<1> DEFINE Back(n, s) == IF n >= s THEN n - s ELSE n + TicketMod - s
           Queue(D, k, s) ==
             [i \in 1..Cardinality(D) |->
                CHOOSE t \in D :
                  Cardinality({u \in D : Back(k[u], s) < Back(k[t], s)}) = i - 1]
<1>2. QueueOf = Queue(Drawn, ticket, servingTicket)
  BY DEF QueueOf, Behind
<1>3. QueueOf' = Queue(Drawn', ticket', servingTicket')
  BY DEF QueueOf, Behind
<1> HIDE DEF Queue
<1> QED BY <1>1, <1>2, <1>3

\* lock() puts its caller at the end of the queue.
LEMMA DrawRequests ==
    ASSUME IInv, InTicketOrder, InTicketOrder', NEW t \in Threads, DrawTicket(t)
    PROVE  Abstract!Request(t)
<1>1. t \notin Drawn
  BY DEF DrawTicket, Drawn, Owners, Waiters
<1>2. Owners' = Owners /\ Drawn' = Drawn \union {t}
  BY DEF DrawTicket, Goto, Drawn, Owners, Waiters, PC, IInv, TypeOK
<1>3. Cardinality(Drawn') = Cardinality(Drawn) + 1 /\ Cardinality(Drawn) \in Nat
  BY <1>1, <1>2, DrawnFinite, FS_AddElement
<1>4. \A n : Behind(n)' = Behind(n)
  BY DEF DrawTicket, Behind
<1>5. ticket'[t] = nextTicket /\ \A u \in Drawn : ticket'[u] = ticket[u]
  BY <1>1, DrawnFinite DEF DrawTicket, IInv, TypeOK
<1>6. Behind(nextTicket) = Cardinality(Drawn)
  BY DEF IInv, TicketsAccounted
<1>q. PICK q \in Seq(Threads) : q = QueueOf
  BY DEF InTicketOrder
<1>7. /\ Len(q) = Cardinality(Drawn)
      /\ \A i \in 1..Len(q) : q[i] \in Drawn /\ Behind(ticket[q[i]]) = i - 1
  BY <1>q DEF InTicketOrder
<1>r. PICK r \in Seq(Threads) : r = QueueOf'
  BY DEF InTicketOrder
<1>8. /\ Len(r) = Cardinality(Drawn')
      /\ \A u \in Drawn' : Behind(ticket[u])' + 1 \in 1..Len(r) /\ r[Behind(ticket[u])' + 1] = u
  BY <1>r DEF InTicketOrder
<1>9. ASSUME NEW i \in 1..Len(q) PROVE r[i] = q[i]
  <2>1. q[i] \in Drawn /\ Behind(ticket[q[i]]) + 1 = i
    BY <1>7
  <2>2. Behind(ticket[q[i]])' + 1 = i
    BY <1>4, <1>5, <2>1
  <2> QED BY <1>2, <1>8, <2>1, <2>2
<1>10. r[Len(q) + 1] = t /\ Len(r) = Len(q) + 1
  <2>1. Behind(ticket[t])' = Len(q)
    BY <1>4, <1>5, <1>6, <1>7
  <2> QED BY <1>2, <1>3, <1>7, <1>8, <2>1
<1>11. r = Append(q, t)
  BY <1>9, <1>10
<1>12. t \notin Abstract!Queued
  BY <1>1, <1>7, <1>q DEF Abstract!Queued
<1> QED BY <1>2, <1>11, <1>12, <1>q, <1>r DEF Abstract!Request

\* The load that ends the spin loop grants the lock to the head.
LEMMA ServedGrants ==
    ASSUME IInv, InTicketOrder, NEW t \in Threads, Served(t)
    PROVE  Abstract!Grant
<1>1. t \in Drawn /\ t \notin Owners /\ ticket[t] = servingTicket
  BY DEF Served, Drawn, Owners, Waiters
<1>2. Owners = {}
  BY <1>1 DEF IInv, TicketsAccounted, Drawn
<1>3. Drawn' = Drawn /\ t \in Owners'
  BY DEF Served, Goto, Drawn, Owners, Waiters, IInv, TypeOK
<1>4. QueueOf' = QueueOf
  BY <1>3, QueueKept DEF Served
<1>5. QueueOf # <<>>
  <2>1. 1..Cardinality(Drawn) # {}
    BY <1>1 DEF InTicketOrder
  <2>2. Len(QueueOf) # 0
    BY <2>1, DrawnFinite DEF InTicketOrder
  <2> QED BY <2>2
<1> QED BY <1>2, <1>3, <1>4, <1>5 DEF Abstract!Grant

\* The retiring store of unlock() takes the head out of the queue.
LEMMA StoreReleases ==
    ASSUME IInv, InTicketOrder, InTicketOrder', NEW t \in Threads, StoreServing(t)
    PROVE  Abstract!Release
<1>0. t \in Owners /\ t \in Drawn /\ ticket[t] = servingTicket
  BY DEF StoreServing, Drawn, Owners, IInv, TicketsAccounted
<1>1. Owners = {t}
  BY <1>0, OwnerUnique DEF MutualExclusion, IInv
<1>2. Owners' = {} /\ Drawn' = Drawn \ {t}
  BY <1>1 DEF StoreServing, Goto, Drawn, Owners, Waiters, PC, IInv, TypeOK
<1>3. Cardinality(Drawn') = Cardinality(Drawn) - 1 /\ Cardinality(Drawn) \in Nat
  BY <1>0, <1>2, DrawnFinite, FS_RemoveElement
<1>4. ASSUME NEW u \in Drawn' PROVE Behind(ticket[u])' = Behind(ticket[u]) - 1
  <2>1. u \in Drawn /\ u # t /\ ticket'[u] = ticket[u] /\ ticket[u] \in Ticket
    BY <1>2, DrawnFinite DEF StoreServing, IInv, TypeOK
  <2>2. ticket[u] # servingTicket
    BY <1>0, <2>1 DEF IInv, TicketsAccounted
  <2>3. servingTicket' = Inc(servingTicket) /\ servingTicket \in Ticket
    BY DEF StoreServing, IInv, TypeOK
  <2> QED BY <2>1, <2>2, <2>3, BehindServed DEF Behind
<1>q. PICK q \in Seq(Threads) : q = QueueOf
  BY DEF InTicketOrder
<1>7. /\ Len(q) = Cardinality(Drawn)
      /\ \A i \in 1..Len(q) : q[i] \in Drawn /\ Behind(ticket[q[i]]) = i - 1
  BY <1>q DEF InTicketOrder
<1>r. PICK r \in Seq(Threads) : r = QueueOf'
  BY DEF InTicketOrder
<1>8. /\ Len(r) = Cardinality(Drawn')
      /\ \A i \in 1..Len(r) : r[i] \in Drawn' /\ Behind(ticket[r[i]])' = i - 1
  BY <1>r DEF InTicketOrder
<1>9. Len(q) \in Nat /\ Len(q) >= 1 /\ Len(r) = Len(q) - 1
  <2>1. Behind(ticket[t]) + 1 \in 1..Cardinality(Drawn)
    BY <1>0 DEF InTicketOrder
  <2> QED BY <1>3, <1>7, <1>8, <2>1
<1>10. ASSUME NEW i \in 1..Len(r) PROVE r[i] = q[i + 1]
  <2>1. r[i] \in Drawn /\ Behind(ticket[r[i]]) \in Nat /\ Behind(ticket[r[i]]) - 1 = i - 1
    <3>1. r[i] \in Drawn /\ Behind(ticket[r[i]]) - 1 = i - 1
      BY <1>2, <1>4, <1>8
    <3>2. ticket[r[i]] \in Ticket
      BY <3>1, DrawnFinite DEF IInv, TypeOK
    <3> QED BY <3>1, <3>2, BehindType DEF IInv, TypeOK
  <2>2. Behind(ticket[r[i]]) + 1 = i + 1
    BY <2>1
  <2> QED BY <1>q, <2>1, <2>2 DEF InTicketOrder
<1>11. r = Tail(q)
  BY <1>9, <1>10
<1> QED BY <1>1, <1>2, <1>11, <1>q, <1>r DEF Abstract!Release

(***************************************************************************)
(* The ticket lock implements the FIFO lock of module FifoLock for any     *)
(* number of threads and any counter width that has more values than there *)
(* are threads: lock() queues its caller, the load that ends its loop      *)
(* grants the lock to the head of the queue, the store of unlock() takes   *)
(* the head out, and no other access changes the queue.                    *)
(***************************************************************************)
THEOREM SpinlockImplementsFifoLock == Spec => ImplementsFifoLock
<1>1. Init => Abstract!Init
  <2> SUFFICES ASSUME Init PROVE Abstract!Init
    OBVIOUS
  <2>1. Drawn = {} /\ Owners = {}
    BY DEF Init, Drawn, Owners, Waiters
  <2>2. Cardinality(Drawn) = 0
    BY <2>1, FS_EmptySet
  <2>3. QueueOf = <<>>
    BY <2>2 DEF QueueOf
  <2> QED BY <2>1, <2>3 DEF Abstract!Init
<1>2. IInv /\ InTicketOrder /\ InTicketOrder' /\ [Next]_vars => [Abstract!Next]_Abstract!lockVars
  <2> SUFFICES ASSUME IInv, InTicketOrder, InTicketOrder', [Next]_vars
               PROVE  [Abstract!Next]_Abstract!lockVars
    OBVIOUS
  <2>1. ASSUME UNCHANGED <<servingTicket, ticket>>, Drawn' = Drawn, Owners' = Owners
        PROVE  UNCHANGED Abstract!lockVars
    BY <2>1, QueueKept DEF Abstract!lockVars
  <2>2. CASE UNCHANGED vars
    <3>1. Drawn' = Drawn /\ Owners' = Owners
      BY <2>2 DEF vars, Drawn, Owners, Waiters
    <3> QED BY <2>1, <2>2, <3>1 DEF vars
  <2>3. ASSUME NEW t \in Threads, Step(t) PROVE [Abstract!Next]_Abstract!lockVars
    <3> USE DEF Owners, Waiters, Drawn, Goto, IInv, TypeOK, PC
    <3>1. CASE Lock(t)
      <4>1. UNCHANGED <<servingTicket, ticket>> /\ Drawn' = Drawn /\ Owners' = Owners
        BY <3>1 DEF Lock
      <4> QED BY <2>1, <4>1
    <3>2. CASE DrawTicket(t)
      BY <3>2, DrawRequests DEF Abstract!Next
    <3>3. CASE Served(t)
      BY <3>3, ServedGrants DEF Abstract!Next
    <3>4. CASE Unlock(t)
      <4>1. servingTicket # nextTicket
        <5>1. t \in Drawn  BY <3>4 DEF Unlock
        <5> QED BY <5>1, BehindType DEF TicketsAccounted
      <4>2. UNCHANGED <<servingTicket, ticket>> /\ Drawn' = Drawn /\ Owners' = Owners
        BY <3>4, <4>1 DEF Unlock
      <4> QED BY <2>1, <4>2
    <3>5. CASE StoreServing(t)
      BY <3>5, StoreReleases DEF Abstract!Next
    <3>6. CASE TryLock(t)
      <4>1. UNCHANGED <<servingTicket, ticket>> /\ Drawn' = Drawn /\ Owners' = Owners
        BY <3>6 DEF TryLock
      <4> QED BY <2>1, <4>1
    <3>7. CASE TryLockTest(t)
      <4>1. UNCHANGED <<servingTicket, ticket>> /\ Drawn' = Drawn /\ Owners' = Owners
        BY <3>7 DEF TryLockTest
      <4> QED BY <2>1, <4>1
    <3>8. CASE TryLockUntil(t)
      <4>1. UNCHANGED <<servingTicket, ticket>> /\ Drawn' = Drawn /\ Owners' = Owners
        BY <3>8 DEF TryLockUntil
      <4> QED BY <2>1, <4>1
    <3> QED
      BY <2>3, <3>1, <3>2, <3>3, <3>4, <3>5, <3>6, <3>7, <3>8 DEF Step
  <2> QED BY <2>2, <2>3 DEF Next
<1>3. IInv => InTicketOrder
  BY QueueInTicketOrder
<1> QED
  BY <1>1, <1>2, <1>3, TypeCorrect, TicketsAccountedInvariant, PTL
     DEF Spec, IInv, ImplementsFifoLock, Abstract!Spec

=============================================================================
