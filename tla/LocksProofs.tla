----------------------------- MODULE LocksProofs ----------------------------
(***************************************************************************)
(* Proofs about the locks, for every finite set of threads:                *)
(*                                                                         *)
(* The reader-writer lock, for every ticket width with room for one ticket *)
(* a thread and one of the readers.  Exclusion is not inductive. That      *)
(* nobody writes when a reader is served by global, or the other way       *)
(* round, follows from the books of global (GlobalBooks): its counters are *)
(* as far apart as there are threads that wait for it, plus one while it   *)
(* is held, and nobody who waits has the ticket being served while it is   *)
(* held. Who holds it is told from the program counters alone: an owner,   *)
(* or the readers that are counted, as soon as the first of them has been  *)
(* served.                                                                 *)
(*                                                                         *)
(* The mutex, for every bound on the signals.  The books of the semaphore  *)
(* are inductive once they are told apart by thread: a sleeper is in the   *)
(* list once, or the target of one wake_up under way, never both, and a    *)
(* target sleeps until that wake_up reaches it. The spinlock needs that    *)
(* whoever holds the mutex is the head of its queue and whoever spins is   *)
(* in it. That the count stays below its bound follows from counting the   *)
(* signals that calls under way still owe.                                 *)
(***************************************************************************)
EXTENDS Locks, FiniteSetTheorems, SequenceTheorems, TLAPS

\* The part whose turn it is takes its steps, the other takes none.
LEMMA RwLockSteps == LocksSpec => Spec
<1>1. [LocksNext]_lockVars => [Next]_vars
  BY DEF LocksNext, lockVars, vars, Mtx!vars, mutexVars
<1>. QED
  BY <1>1, PTL DEF LocksSpec, LocksInit, Spec

LEMMA MutexSteps == LocksSpec => Mtx!Spec
<1>1. [LocksNext]_lockVars => [Mtx!Next]_Mtx!vars
  BY DEF LocksNext, lockVars, vars, Mtx!vars, mutexVars
<1>. QED
  BY <1>1, PTL DEF LocksSpec, LocksInit, Mtx!Spec

\* Mutex counts as this module does.
LEMMA SameCount == \A S : Mtx!Cardinality(S) = Cardinality(S)
  BY DEF Mtx!Cardinality, Cardinality

\* The bound on the signals.
LEMMA MaxSignalsNat == MaxSignals \in Nat
  BY LocksAssumption DEF Mtx!MutexAssumption

-----------------------------------------------------------------------------
(* The reader-writer lock.                                                 *)

Ticket == 0..(TicketMod - 1)
Inc(n) == (n + 1) % TicketMod
\* How far ticket n is behind ticket s in the order they are served.
Dist(n, s) == IF n >= s THEN n - s ELSE n + TicketMod - s

Lead == Dist(global.next, global.serving)
Waiting == {t \in Threads : pc[t] \in {"r_global", "w_global"}}
Owners == {t \in Threads : pc[t] \in {"writing", "wu_check", "up_last"}}
Arriving == {t \in Threads : pc[t] = "r_global"}
\* global is held: by an owner, or by the readers once the first was served.
Held == Owners # {} \/ (Counted # {} /\ Arriving = {})

\* Between taking the spinlock `readers` and releasing it.
Inside == {"r_global", "r_done", "ru_done", "up_done", "up_last"}
ReadersServed == \A t \in Threads : pc[t] \in Inside => Served(t)

\* Owners are alone, and the first reader is the only one counted while it waits.
SharesApart ==
    /\ \A t, u \in Owners : t = u
    /\ Owners # {} => Counted \subseteq Arriving
    /\ \A t \in Arriving : Counted = {t}

GlobalBooks ==
    /\ Lead = Cardinality(Waiting) + (IF Held THEN 1 ELSE 0)
    /\ \A t \in Waiting : /\ Dist(ticket[t], global.serving) < Lead
                          /\ Held => ticket[t] # global.serving
    /\ \A t, u \in Waiting : ticket[t] = ticket[u] => t = u

IInv ==
    /\ TypeOK
    /\ ReadersServed
    /\ SharesApart
    /\ counter = Cardinality(Counted)
    /\ GlobalBooks

-----------------------------------------------------------------------------
(* Arithmetic of wrapping counters. *)

LEMMA TicketModPositive == TicketMod \in Nat \ {0}
<1>1. Cardinality(Threads) \in Nat
  BY ThreadsFinite, FS_CardinalityType
<1> QED BY <1>1, TicketModLarge

LEMMA IncType == ASSUME NEW n \in Ticket PROVE Inc(n) \in Ticket
BY TicketModPositive DEF Inc, Ticket

LEMMA DistType ==
    ASSUME NEW n \in Ticket, NEW s \in Ticket
    PROVE  Dist(n, s) \in Nat /\ Dist(n, s) < TicketMod /\ (Dist(n, s) = 0 <=> n = s)
BY TicketModPositive DEF Ticket, Dist

LEMMA DistInjective ==
    ASSUME NEW m \in Ticket, NEW n \in Ticket, NEW s \in Ticket, Dist(m, s) = Dist(n, s)
    PROVE  m = n
BY TicketModPositive DEF Ticket, Dist

\* A fresh ticket is one further behind, as long as the counter does not lap.
LEMMA DistInc ==
    ASSUME NEW n \in Ticket, NEW s \in Ticket, Dist(n, s) + 1 < TicketMod
    PROVE  Dist(Inc(n), s) = Dist(n, s) + 1
BY TicketModPositive DEF Inc, Ticket, Dist

\* A release brings every ticket but the served one a step closer.
LEMMA DistServed ==
    ASSUME NEW n \in Ticket, NEW s \in Ticket, n # s
    PROVE  Dist(n, Inc(s)) = Dist(n, s) - 1
BY TicketModPositive DEF Inc, Ticket, Dist

-----------------------------------------------------------------------------
(* Sets of threads. *)

LEMMA SetsFinite ==
    /\ Waiting \subseteq Threads /\ IsFiniteSet(Waiting) /\ Cardinality(Waiting) \in Nat
    /\ Counted \subseteq Threads /\ IsFiniteSet(Counted) /\ Cardinality(Counted) \in Nat
    /\ Cardinality(Waiting) <= Cardinality(Threads)
    /\ Cardinality(Counted) <= Cardinality(Threads)
    /\ Cardinality(Threads) \in Nat
<1>1. Waiting \subseteq Threads /\ Counted \subseteq Threads
  BY DEF Waiting, Counted
<1>2. IsFiniteSet(Waiting) /\ IsFiniteSet(Counted)
  BY <1>1, ThreadsFinite, FS_Subset
<1>3. Cardinality(Waiting) <= Cardinality(Threads) /\ Cardinality(Counted) <= Cardinality(Threads)
  BY <1>1, ThreadsFinite, FS_Subset
<1> QED BY <1>1, <1>2, <1>3, ThreadsFinite, FS_CardinalityType

\* The same of the state after a step.
LEMMA SetsFinitePrime ==
    Cardinality(Counted') \in 0..Cardinality(Threads)
<1>1. Counted' \subseteq Threads  BY DEF Counted
<1>2. IsFiniteSet(Counted') /\ Cardinality(Counted') <= Cardinality(Threads)
  BY <1>1, ThreadsFinite, FS_Subset
<1> QED BY <1>2, ThreadsFinite, FS_CardinalityType

LEMMA CountOne ==
    ASSUME NEW t, t \notin Counted, Counted' = Counted \cup {t}
    PROVE  Cardinality(Counted') = Cardinality(Counted) + 1
BY SetsFinite, FS_AddElement

LEMMA UncountOne ==
    ASSUME NEW t, t \in Counted, Counted' = Counted \ {t}
    PROVE  Cardinality(Counted') = Cardinality(Counted) - 1
BY SetsFinite, FS_RemoveElement

LEMMA NobodyCounted == Cardinality(Counted) = 0 <=> Counted = {}
BY SetsFinite, FS_EmptySet

-----------------------------------------------------------------------------
(* What the operations of global do to its books. *)

LEMMA BooksUnchanged ==
    ASSUME GlobalBooks, GlobalUnchanged, Waiting' = Waiting, Held' <=> Held
    PROVE  GlobalBooks'
BY DEF GlobalBooks, GlobalUnchanged, Lead, Dist

LEMMA DrawType ==
    ASSUME TypeOK, NEW t \in Threads, GlobalDraw(t)
    PROVE  /\ global' \in [next : 0..(TicketMod - 1), serving : 0..(TicketMod - 1)]
           /\ ticket' \in [Threads -> 0..(TicketMod - 1)]
<1>1. Inc(global.next) \in Ticket
  BY IncType DEF TypeOK, Ticket
<1>2. global' = [next |-> Inc(global.next), serving |-> global.serving]
  BY DEF TypeOK, GlobalDraw, Inc
<1> QED BY <1>1, <1>2 DEF TypeOK, GlobalDraw, Ticket

LEMMA DrawKeepsBooks ==
    ASSUME TypeOK, GlobalBooks, NEW t \in Threads, t \notin Waiting,
           GlobalDraw(t), Waiting' = Waiting \cup {t}, Held' <=> Held
    PROVE  GlobalBooks'
<1> DEFINE s == global.serving
           n == global.next
<1>1. n \in Ticket /\ s \in Ticket /\ ticket \in [Threads -> Ticket]
  BY DEF TypeOK, Ticket
<1>2. global'.next = Inc(n) /\ global'.serving = s
  BY DEF GlobalDraw, TypeOK, Inc
<1>3. ticket' = [ticket EXCEPT ![t] = n]
  BY DEF GlobalDraw
<1>4. Cardinality(Waiting') = Cardinality(Waiting) + 1
  BY SetsFinite, FS_AddElement
<1>5. Cardinality(Waiting) + 1 <= Cardinality(Threads)
  <2>1. Waiting \cup {t} \subseteq Threads  BY SetsFinite
  <2> QED BY <1>4, <2>1, ThreadsFinite, FS_Subset
<1>6. Lead \in Nat /\ Lead + 1 < TicketMod
  BY <1>5, SetsFinite, TicketModLarge DEF GlobalBooks
<1>7. Lead' = Lead + 1
  BY <1>1, <1>2, <1>6, DistInc DEF Lead
<1>8. Lead' = Cardinality(Waiting') + (IF Held' THEN 1 ELSE 0)
  BY <1>4, <1>7, SetsFinite DEF GlobalBooks
<1>9. \A u \in Waiting : u # t /\ u \in Threads /\ ticket'[u] = ticket[u]
  BY <1>1, <1>3, SetsFinite
<1>10. ticket'[t] = n
  BY <1>1, <1>3
<1>11. ASSUME NEW u \in Waiting'
       PROVE  Dist(ticket'[u], s) < Lead' /\ (Held' => ticket'[u] # s)
  <2>1. CASE u = t
    <3>1. Dist(n, s) = Lead  BY DEF Lead
    <3>2. Held => n # s
      <4>1. Held => Lead > 0  BY SetsFinite DEF GlobalBooks
      <4> QED BY <4>1, <3>1, <1>1, DistType
    <3> QED BY <2>1, <3>1, <3>2, <1>6, <1>7, <1>10
  <2>2. CASE u \in Waiting
    <3>1. Dist(ticket[u], s) \in Nat  BY <1>1, <1>9, <2>2, DistType
    <3>2. Dist(ticket[u], s) < Lead /\ (Held => ticket[u] # s)
      BY <2>2 DEF GlobalBooks
    <3> QED BY <3>1, <3>2, <2>2, <1>6, <1>7, <1>9
  <2> QED BY <2>1, <2>2
<1>12. ASSUME NEW u \in Waiting' , NEW v \in Waiting', ticket'[u] = ticket'[v]
       PROVE  u = v
  <2>1. \A w \in Waiting : ticket'[w] # n
    <3> TAKE w \in Waiting
    <3>1. Dist(ticket[w], s) < Dist(n, s)  BY DEF GlobalBooks, Lead
    <3>2. Dist(ticket[w], s) \in Nat  BY <1>1, <1>9, DistType
    <3> QED BY <3>1, <3>2, <1>9
  <2> QED BY <2>1, <1>9, <1>10, <1>12 DEF GlobalBooks
<1> QED
  BY <1>2, <1>8, <1>11, <1>12 DEF GlobalBooks

LEMMA ServedType ==
    ASSUME TypeOK, NEW t \in Threads, GlobalServed(t)
    PROVE  /\ global' \in [next : 0..(TicketMod - 1), serving : 0..(TicketMod - 1)]
           /\ ticket' \in [Threads -> 0..(TicketMod - 1)]
<1>1. 0 \in 0..(TicketMod - 1)
  BY TicketModPositive
<1> QED BY <1>1 DEF TypeOK, GlobalServed

LEMMA UnlockType ==
    ASSUME TypeOK, GlobalUnlock
    PROVE  /\ global' \in [next : 0..(TicketMod - 1), serving : 0..(TicketMod - 1)]
           /\ ticket' \in [Threads -> 0..(TicketMod - 1)]
<1>1. Inc(global.serving) \in Ticket
  BY IncType DEF TypeOK, Ticket
<1>2. CASE GlobalIsLocked
  <2>1. global' = [next |-> global.next, serving |-> Inc(global.serving)]
    BY <1>2 DEF TypeOK, GlobalUnlock, Inc
  <2>2. ticket' = ticket
    BY DEF GlobalUnlock
  <2> QED BY <1>1, <2>1, <2>2 DEF TypeOK, Ticket
<1>3. CASE ~GlobalIsLocked
  BY <1>3 DEF TypeOK, GlobalUnlock
<1> QED BY <1>2, <1>3

\* Whoever is served finds global free.
LEMMA ServedWhenFree ==
    ASSUME GlobalBooks, NEW t \in Waiting, GlobalServed(t)
    PROVE  ~Held
BY DEF GlobalBooks, GlobalServed

LEMMA ServedKeepsBooks ==
    ASSUME TypeOK, GlobalBooks, NEW t \in Waiting, GlobalServed(t),
           Waiting' = Waiting \ {t}, Held'
    PROVE  GlobalBooks'
<1>1. ~Held  BY ServedWhenFree
<1>2. UNCHANGED global /\ ticket[t] = global.serving
  BY DEF GlobalServed
<1>3. \A u \in Waiting' : u \in Waiting /\ ticket'[u] = ticket[u] /\ u # t
  BY SetsFinite DEF GlobalServed, TypeOK
<1>4. Cardinality(Waiting') = Cardinality(Waiting) - 1
  BY SetsFinite, FS_RemoveElement
<1>5. Lead' = Cardinality(Waiting') + (IF Held' THEN 1 ELSE 0)
  BY <1>1, <1>2, <1>4, SetsFinite DEF GlobalBooks, Lead
<1> QED
  BY <1>2, <1>3, <1>5 DEF GlobalBooks, Lead

LEMMA UnlockKeepsBooks ==
    ASSUME TypeOK, GlobalBooks, Held, GlobalUnlock, Waiting' = Waiting, ~Held'
    PROVE  GlobalBooks'
<1> DEFINE s == global.serving
           n == global.next
<1>1. n \in Ticket /\ s \in Ticket /\ ticket \in [Threads -> Ticket]
  BY DEF TypeOK, Ticket
<1>2. Lead \in Nat /\ Lead > 0
  BY SetsFinite DEF GlobalBooks
<1>3. n # s
  BY <1>1, <1>2, DistType DEF Lead
<1>4. global'.serving = Inc(s) /\ global'.next = n /\ ticket' = ticket
  BY <1>3 DEF GlobalUnlock, GlobalIsLocked, TypeOK, Inc
<1>5. Lead' = Lead - 1
  BY <1>1, <1>3, <1>4, DistServed DEF Lead
<1>6. Lead' = Cardinality(Waiting') + (IF Held' THEN 1 ELSE 0)
  BY <1>2, <1>5, SetsFinite DEF GlobalBooks
<1>7. ASSUME NEW u \in Waiting
      PROVE  Dist(ticket[u], Inc(s)) < Lead'
  <2>1. ticket[u] # s /\ Dist(ticket[u], s) < Lead  BY DEF GlobalBooks
  <2>2. ticket[u] \in Ticket  BY <1>1, SetsFinite
  <2>3. Dist(ticket[u], s) \in Nat  BY <1>1, <2>2, DistType
  <2>4. Dist(ticket[u], Inc(s)) = Dist(ticket[u], s) - 1  BY <1>1, <2>1, <2>2, DistServed
  <2> QED BY <1>2, <1>5, <2>1, <2>3, <2>4
<1> QED
  BY <1>4, <1>6, <1>7 DEF GlobalBooks

-----------------------------------------------------------------------------
(* Steps that leave every share where it is. *)

LEMMA SharesUnchanged ==
    ASSUME IInv, TypeOK', ReadersServed', GlobalUnchanged, UNCHANGED counter,
           Waiting' = Waiting, Owners' = Owners, Counted' = Counted, Arriving' = Arriving
    PROVE  IInv'
<1>1. Held' <=> Held  BY DEF Held
<1>2. GlobalBooks'  BY <1>1, BooksUnchanged DEF IInv
<1>3. SharesApart'  BY DEF IInv, SharesApart
<1> QED BY <1>2, <1>3 DEF IInv

\* Appending to the queue of `readers` leaves who is served alone.
LEMMA AppendKeepsServed ==
    ASSUME IInv, NEW t \in Threads, readers' = Append(readers, t), NEW u \in Threads, Served(u)
    PROVE  Served(u)'
BY DEF IInv, TypeOK, Served

\* One step of a method that only moves its thread, with or without a ticket
\* of `readers`.
LEMMA MoveKeeps ==
    ASSUME IInv, NEW t \in Threads, NEW m \in PC, Goto(t, m),
           m \notin Inside, UNCHANGED <<counter, global, ticket>>,
           readers' = readers \/ readers' = Append(readers, t),
           Waiting' = Waiting, Owners' = Owners, Counted' = Counted, Arriving' = Arriving
    PROVE  IInv'
<1>1. TypeOK'
  <2>1. readers' \in Seq(Threads)
    <3>1. readers \in Seq(Threads)  BY DEF IInv, TypeOK
    <3>2. Append(readers, t) \in Seq(Threads)  BY <3>1
    <3> QED BY <3>1, <3>2
  <2>2. pc' \in [Threads -> PC]
    BY DEF IInv, TypeOK, Goto
  <2> QED BY <2>1, <2>2 DEF IInv, TypeOK
<1>2. ReadersServed'
  <2> SUFFICES ASSUME NEW u \in Threads, pc'[u] \in Inside PROVE Served(u)'
    BY DEF ReadersServed
  <2>1. pc[u] \in Inside
    BY DEF IInv, TypeOK, Goto
  <2>2. Served(u)
    BY <2>1 DEF IInv, ReadersServed
  <2>3. CASE readers' = readers
    BY <2>2, <2>3 DEF Served
  <2>4. CASE readers' = Append(readers, t)
    BY <2>2, <2>4, AppendKeepsServed
  <2> QED BY <2>3, <2>4
<1> QED BY <1>1, <1>2, SharesUnchanged DEF GlobalUnchanged

\* The thread served by `readers` is the only one inside.
LEMMA OneInside ==
    ASSUME IInv, NEW t \in Threads, Served(t), NEW u \in Threads, pc[u] \in Inside
    PROVE  u = t
BY DEF IInv, ReadersServed, Served

\* Releasing `readers`.
LEMMA ReleaseKeeps ==
    ASSUME IInv, NEW t \in Threads, NEW m \in PC, Goto(t, m), pc[t] \in Inside,
           m \notin Inside, UNCHANGED <<counter, global, ticket>>, ReadersUnlock,
           Waiting' = Waiting, Owners' = Owners, Counted' = Counted, Arriving' = Arriving
    PROVE  IInv'
<1>0. Served(t)
  BY DEF IInv, ReadersServed
<1>1. TypeOK'
  <2>1. readers # <<>> /\ readers \in Seq(Threads)
    BY <1>0 DEF IInv, TypeOK, Served
  <2>2. Tail(readers) \in Seq(Threads)
    BY <2>1
  <2> QED BY <2>2 DEF IInv, TypeOK, Goto, ReadersUnlock
<1>2. ReadersServed'
  <2> SUFFICES ASSUME NEW u \in Threads, pc'[u] \in Inside PROVE FALSE
    BY DEF ReadersServed
  <2>1. u # t /\ pc[u] \in Inside
    BY DEF IInv, TypeOK, Goto
  <2> QED BY <2>1, <1>0, OneInside
<1> QED BY <1>1, <1>2, SharesUnchanged DEF GlobalUnchanged

-----------------------------------------------------------------------------
(* Steps that move a share. *)

\* A thread that stays at, or comes to, a place inside is the one served.
LEMMA StayServed ==
    ASSUME IInv, NEW t \in Threads, NEW m, Goto(t, m), UNCHANGED readers,
           m \in Inside => Served(t)
    PROVE  ReadersServed'
<1> SUFFICES ASSUME NEW u \in Threads, pc'[u] \in Inside PROVE Served(u)'
  BY DEF ReadersServed
<1>1. CASE u = t
  BY <1>1 DEF IInv, TypeOK, Goto, Served
<1>2. CASE u # t
  BY <1>2 DEF IInv, TypeOK, Goto, Served, ReadersServed
<1> QED BY <1>1, <1>2

LEMMA ReadCountKeeps ==
    ASSUME IInv, NEW t \in Threads, ReadCount(t)
    PROVE  IInv'
<1> DEFINE first == counter + 1 = 1
           m == IF first THEN "r_global" ELSE "r_done"
<1>1. /\ Served(t) /\ pc[t] = "r_count" /\ pc' = [pc EXCEPT ![t] = m]
      /\ counter' = counter + 1 /\ UNCHANGED readers
  BY DEF ReadCount, From, Goto
<1>2. ReadersServed'
  BY <1>1, StayServed DEF Goto
<1>3. Arriving = {}
  <2> SUFFICES ASSUME NEW u \in Threads, pc[u] = "r_global" PROVE FALSE
    BY DEF Arriving
  <2> QED BY <1>1, OneInside DEF Inside
<1>4. pc' \in [Threads -> PC] /\ pc'[t] = m /\ \A u \in Threads : u # t => pc'[u] = pc[u]
  BY <1>1 DEF IInv, TypeOK, PC
<1>5. Counted' = Counted \cup {t} /\ t \notin Counted /\ Owners' = Owners /\ t \notin Waiting
  BY <1>1, <1>4 DEF Counted, Owners, Waiting
<1>6. counter' = Cardinality(Counted')
  BY <1>1, <1>5, CountOne DEF IInv
<1>7. counter' \in 0..Cardinality(Threads)
  BY <1>6, SetsFinitePrime
<1>8. CASE first
  <2>1. Counted = {}
    BY <1>8, NobodyCounted, SetsFinite DEF IInv
  <2>2. GlobalDraw(t)
    BY <1>8 DEF ReadCount
  <2>3. Waiting' = Waiting \cup {t} /\ Arriving' = {t}
    BY <1>3, <1>4, <1>8 DEF Waiting, Arriving
  <2>4. Held' <=> Held
    BY <2>1, <2>3, <1>3, <1>5 DEF Held
  <2>5. GlobalBooks'
    BY <2>2, <2>3, <2>4, <1>5, DrawKeepsBooks DEF IInv
  <2>6. SharesApart'
    BY <2>1, <2>3, <1>5 DEF IInv, SharesApart
  <2>7. TypeOK'
    BY <1>1, <1>4, <1>7, <2>2, DrawType DEF IInv, TypeOK
  <2> QED BY <1>2, <1>6, <2>5, <2>6, <2>7 DEF IInv
<1>9. CASE ~first
  <2>1. Counted # {}
    BY <1>9, NobodyCounted, SetsFinite DEF IInv
  <2>2. GlobalUnchanged
    BY <1>9 DEF ReadCount
  <2>3. Waiting' = Waiting /\ Arriving' = {}
    BY <1>1, <1>3, <1>4, <1>9 DEF Waiting, Arriving
  <2>4. Owners = {}
    BY <2>1, <1>3 DEF IInv, SharesApart
  <2>5. Held' <=> Held
    BY <2>1, <2>3, <1>3, <1>5 DEF Held
  <2>6. GlobalBooks'
    BY <2>2, <2>3, <2>5, BooksUnchanged DEF IInv
  <2>7. SharesApart'
    BY <2>3, <2>4, <1>5 DEF SharesApart
  <2>8. TypeOK'
    BY <1>1, <1>4, <1>7, <2>2 DEF IInv, TypeOK, GlobalUnchanged
  <2> QED BY <1>2, <1>6, <2>6, <2>7, <2>8 DEF IInv
<1> QED BY <1>8, <1>9

LEMMA ReadGlobalKeeps ==
    ASSUME IInv, NEW t \in Threads, ReadGlobal(t)
    PROVE  IInv'
<1>1. /\ GlobalServed(t) /\ pc[t] = "r_global" /\ pc' = [pc EXCEPT ![t] = "r_done"]
      /\ UNCHANGED <<counter, readers>>
  BY DEF ReadGlobal, From, Goto
<1>2. ReadersServed'
  BY <1>1, StayServed DEF Goto, IInv, ReadersServed, Inside
<1>3. pc' \in [Threads -> PC] /\ pc'[t] = "r_done" /\ \A u \in Threads : u # t => pc'[u] = pc[u]
  BY <1>1 DEF IInv, TypeOK, PC
<1>4. t \in Waiting /\ t \in Arriving
  BY <1>1 DEF Waiting, Arriving
<1>5. Counted' = Counted /\ Owners' = Owners /\ Waiting' = Waiting \ {t} /\ Arriving' = Arriving \ {t}
  BY <1>1, <1>3 DEF Counted, Owners, Waiting, Arriving
<1>6. Counted = {t} /\ Arriving = {t}
  <2>1. Counted = {t}  BY <1>4 DEF IInv, SharesApart
  <2>2. \A u \in Arriving : Counted = {u}  BY DEF IInv, SharesApart
  <2> QED BY <2>1, <2>2, <1>4
<1>7. ~Held
  BY <1>1, <1>4, ServedWhenFree DEF IInv
<1>8. Owners = {}
  BY <1>7 DEF Held
<1>9. Held'
  BY <1>5, <1>6 DEF Held
<1>10. GlobalBooks'
  BY <1>1, <1>4, <1>5, <1>9, ServedKeepsBooks DEF IInv
<1>11. SharesApart'
  BY <1>5, <1>6, <1>8 DEF SharesApart
<1>12. TypeOK'
  BY <1>1, <1>3, ServedType DEF IInv, TypeOK
<1> QED BY <1>1, <1>2, <1>5, <1>10, <1>11, <1>12 DEF IInv

LEMMA ReadUnlockCountKeeps ==
    ASSUME IInv, NEW t \in Threads, ReadUnlockCount(t)
    PROVE  IInv'
<1>1. /\ Served(t) /\ pc[t] = "ru_count" /\ pc' = [pc EXCEPT ![t] = "ru_done"]
      /\ counter' = counter - 1 /\ UNCHANGED readers
  BY DEF ReadUnlockCount, From, Goto
<1>2. ReadersServed'
  BY <1>1, StayServed DEF Goto
<1>3. pc' \in [Threads -> PC] /\ pc'[t] = "ru_done" /\ \A u \in Threads : u # t => pc'[u] = pc[u]
  BY <1>1 DEF IInv, TypeOK, PC
<1>4. /\ t \in Counted /\ t \notin Arriving /\ Counted' = Counted \ {t}
      /\ Owners' = Owners /\ Waiting' = Waiting /\ Arriving' = Arriving
  BY <1>1, <1>3 DEF Counted, Owners, Waiting, Arriving
<1>5. counter' = Cardinality(Counted')
  BY <1>1, <1>4, UncountOne DEF IInv
<1>6. counter' \in 0..Cardinality(Threads)
  BY <1>5, SetsFinitePrime
<1>7. Arriving = {}
  <2>1. \A u \in Arriving : Counted = {u}  BY DEF IInv, SharesApart
  <2> QED BY <2>1, <1>4
<1>8. Owners = {}
  BY <1>4, <1>7 DEF IInv, SharesApart
<1>9. Held
  BY <1>4, <1>7 DEF Held
<1>10. SharesApart'
  BY <1>4, <1>7, <1>8 DEF SharesApart
<1>11. CASE counter - 1 = 0
  <2>1. Counted' = {}
    <3>1. IsFiniteSet(Counted')  BY <1>4, SetsFinite, FS_RemoveElement
    <3> QED BY <3>1, <1>11, <1>1, <1>5, FS_EmptySet
  <2>2. ~Held'
    BY <2>1, <1>4, <1>8 DEF Held
  <2>3. GlobalUnlock
    BY <1>11 DEF ReadUnlockCount
  <2>4. GlobalBooks'
    BY <1>4, <1>9, <2>2, <2>3, UnlockKeepsBooks DEF IInv
  <2>5. TypeOK'
    BY <1>1, <1>3, <1>6, <2>3, UnlockType DEF IInv, TypeOK
  <2> QED BY <1>2, <1>5, <1>10, <2>4, <2>5 DEF IInv
<1>12. CASE counter - 1 # 0
  <2>1. Counted' # {}
    BY <1>12, <1>1, <1>5, FS_EmptySet
  <2>2. Held'
    BY <2>1, <1>4, <1>7 DEF Held
  <2>3. GlobalUnchanged
    BY <1>12 DEF ReadUnlockCount
  <2>4. GlobalBooks'
    BY <1>4, <1>9, <2>2, <2>3, BooksUnchanged DEF IInv
  <2>5. TypeOK'
    BY <1>1, <1>3, <1>6, <2>3 DEF IInv, TypeOK, GlobalUnchanged
  <2> QED BY <1>2, <1>5, <1>10, <2>4, <2>5 DEF IInv
<1> QED BY <1>11, <1>12

\* Queueing for global: write_lock() and the end of upgrade().
LEMMA DrawKeeps ==
    ASSUME IInv, NEW t \in Threads, WriteLock(t) \/ UpgradeGlobal(t)
    PROVE  IInv'
<1>1. /\ GlobalDraw(t) /\ pc[t] \in {"idle", "up_draw"} /\ pc' = [pc EXCEPT ![t] = "w_global"]
      /\ UNCHANGED <<counter, readers>>
  BY DEF WriteLock, UpgradeGlobal, From, Goto
<1>2. ReadersServed'
  BY <1>1, StayServed DEF Goto, Inside
<1>3. pc' \in [Threads -> PC] /\ pc'[t] = "w_global" /\ \A u \in Threads : u # t => pc'[u] = pc[u]
  BY <1>1 DEF IInv, TypeOK, PC
<1>4. /\ t \notin Waiting /\ Waiting' = Waiting \cup {t}
      /\ Counted' = Counted /\ Owners' = Owners /\ Arriving' = Arriving
  BY <1>1, <1>3 DEF Counted, Owners, Waiting, Arriving
<1>5. GlobalBooks'
  <2>1. Held' <=> Held  BY <1>4 DEF Held
  <2> QED BY <2>1, <1>1, <1>4, DrawKeepsBooks DEF IInv
<1>6. SharesApart'
  BY <1>4 DEF IInv, SharesApart
<1>7. TypeOK'
  BY <1>1, <1>3, DrawType DEF IInv, TypeOK
<1> QED BY <1>1, <1>2, <1>4, <1>5, <1>6, <1>7 DEF IInv

LEMMA WriteLockedKeeps ==
    ASSUME IInv, NEW t \in Threads, WriteLocked(t)
    PROVE  IInv'
<1>1. /\ GlobalServed(t) /\ pc[t] = "w_global" /\ pc' = [pc EXCEPT ![t] = "writing"]
      /\ UNCHANGED <<counter, readers>>
  BY DEF WriteLocked, From, Goto
<1>2. ReadersServed'
  BY <1>1, StayServed DEF Goto, Inside
<1>3. pc' \in [Threads -> PC] /\ pc'[t] = "writing" /\ \A u \in Threads : u # t => pc'[u] = pc[u]
  BY <1>1 DEF IInv, TypeOK, PC
<1>4. /\ t \in Waiting /\ Waiting' = Waiting \ {t} /\ Owners' = Owners \cup {t}
      /\ Counted' = Counted /\ Arriving' = Arriving
  BY <1>1, <1>3 DEF Counted, Owners, Waiting, Arriving
<1>5. ~Held
  BY <1>1, <1>4, ServedWhenFree DEF IInv
<1>6. GlobalBooks'
  <2>1. Held'  BY <1>4 DEF Held
  <2> QED BY <2>1, <1>1, <1>4, ServedKeepsBooks DEF IInv
<1>7. SharesApart'
  <2>1. Owners' = {t}
    BY <1>4, <1>5 DEF Held
  <2>2. Counted \subseteq Arriving
    <3>1. Counted = {} \/ \E u \in Arriving : TRUE  BY <1>5 DEF Held
    <3> QED BY <3>1 DEF IInv, SharesApart
  <2> QED BY <2>1, <2>2, <1>4 DEF IInv, SharesApart
<1>8. TypeOK'
  BY <1>1, <1>3, ServedType DEF IInv, TypeOK
<1> QED BY <1>1, <1>2, <1>4, <1>6, <1>7, <1>8 DEF IInv

LEMMA WriteUnlockCheckedKeeps ==
    ASSUME IInv, NEW t \in Threads, WriteUnlockChecked(t)
    PROVE  IInv'
<1>1. /\ GlobalUnlock /\ pc[t] = "wu_check" /\ pc' = [pc EXCEPT ![t] = "idle"]
      /\ UNCHANGED <<counter, readers>>
  BY DEF WriteUnlockChecked, From, Goto
<1>2. ReadersServed'
  BY <1>1, StayServed DEF Goto, Inside
<1>3. pc' \in [Threads -> PC] /\ pc'[t] = "idle" /\ \A u \in Threads : u # t => pc'[u] = pc[u]
  BY <1>1 DEF IInv, TypeOK, PC
<1>4. /\ t \in Owners /\ Owners' = Owners \ {t}
      /\ Waiting' = Waiting /\ Counted' = Counted /\ Arriving' = Arriving
  BY <1>1, <1>3 DEF Counted, Owners, Waiting, Arriving
<1>5. Owners' = {} /\ Counted \subseteq Arriving
  BY <1>4 DEF IInv, SharesApart
<1>6. Held /\ ~Held'
  BY <1>4, <1>5 DEF Held
<1>7. GlobalBooks'
  BY <1>1, <1>4, <1>6, UnlockKeepsBooks DEF IInv
<1>8. SharesApart'
  BY <1>4, <1>5 DEF IInv, SharesApart
<1>9. TypeOK'
  BY <1>1, <1>3, UnlockType DEF IInv, TypeOK
<1> QED BY <1>1, <1>2, <1>4, <1>7, <1>8, <1>9 DEF IInv

LEMMA UpgradeCountKeeps ==
    ASSUME IInv, NEW t \in Threads, UpgradeCount(t)
    PROVE  IInv'
<1> DEFINE last == counter - 1 = 0
           m == IF last THEN "up_last" ELSE "up_done"
<1>1. /\ Served(t) /\ pc[t] = "up_count" /\ pc' = [pc EXCEPT ![t] = m]
      /\ counter' = counter - 1 /\ UNCHANGED <<readers, global, ticket>>
  BY DEF UpgradeCount, From, Goto
<1>2. ReadersServed'
  BY <1>1, StayServed DEF Goto
<1>3. pc' \in [Threads -> PC] /\ pc'[t] = m /\ \A u \in Threads : u # t => pc'[u] = pc[u]
  BY <1>1 DEF IInv, TypeOK, PC
<1>4. /\ t \in Counted /\ t \notin Arriving /\ Counted' = Counted \ {t}
      /\ Waiting' = Waiting /\ Arriving' = Arriving
  BY <1>1, <1>3 DEF Counted, Waiting, Arriving
<1>5. counter' = Cardinality(Counted')
  BY <1>1, <1>4, UncountOne DEF IInv
<1>6. counter' \in 0..Cardinality(Threads)
  BY <1>5, SetsFinitePrime
<1>7. Arriving = {}
  <2>1. \A u \in Arriving : Counted = {u}  BY DEF IInv, SharesApart
  <2> QED BY <2>1, <1>4
<1>8. Owners = {}
  BY <1>4, <1>7 DEF IInv, SharesApart
<1>9. last <=> Counted' = {}
  <2>1. IsFiniteSet(Counted')  BY <1>4, SetsFinite, FS_RemoveElement
  <2> QED BY <2>1, <1>1, <1>5, FS_EmptySet
<1>10. Owners' = IF last THEN {t} ELSE {}
  <2>1. CASE last
    BY <2>1, <1>1, <1>3, <1>8 DEF Owners
  <2>2. CASE ~last
    BY <2>2, <1>1, <1>3, <1>8 DEF Owners
  <2> QED BY <2>1, <2>2
<1>11. SharesApart'
  BY <1>4, <1>7, <1>9, <1>10 DEF SharesApart
<1>12. Held /\ Held'
  BY <1>4, <1>7, <1>9, <1>10 DEF Held
<1>13. GlobalBooks'
  BY <1>1, <1>4, <1>12, BooksUnchanged DEF IInv, GlobalUnchanged
<1>14. TypeOK'
  BY <1>1, <1>3, <1>6 DEF IInv, TypeOK
<1> QED BY <1>2, <1>5, <1>11, <1>13, <1>14 DEF IInv

-----------------------------------------------------------------------------
(* The invariant and what it is for. *)

LEMMA InitHolds == Init => IInv
<1> SUFFICES ASSUME Init PROVE IInv
  OBVIOUS
<1>1. /\ counter = 0 /\ readers = <<>> /\ global = [next |-> 0, serving |-> 0]
      /\ ticket = [t \in Threads |-> 0] /\ pc = [t \in Threads |-> "idle"]
  BY DEF Init
<1>2. \A t \in Threads : pc[t] = "idle"
  BY <1>1
<1>3. Waiting = {} /\ Owners = {} /\ Counted = {} /\ Arriving = {}
  BY <1>2 DEF Waiting, Owners, Counted, Arriving
<1>4. 0 \in 0..(TicketMod - 1) /\ 0 \in 0..Cardinality(Threads)
  BY TicketModPositive, SetsFinite
<1>5. TypeOK
  BY <1>1, <1>4 DEF TypeOK, PC
<1>6. ReadersServed /\ SharesApart
  BY <1>2, <1>3 DEF ReadersServed, SharesApart, Inside
<1>7. GlobalBooks
  <2>1. Lead = 0  BY <1>1 DEF Lead, Dist
  <2> QED BY <2>1, <1>3, FS_EmptySet DEF GlobalBooks, Held
<1> QED BY <1>1, <1>3, <1>5, <1>6, <1>7, FS_EmptySet DEF IInv

LEMMA NextKeeps == IInv /\ [Next]_vars => IInv'
<1> SUFFICES ASSUME IInv, [Next]_vars PROVE IInv'
  OBVIOUS
<1> USE DEF From, Goto
<1>1. CASE UNCHANGED vars
  BY <1>1, SharesUnchanged DEF vars, GlobalUnchanged, IInv, TypeOK, ReadersServed, Served,
                               Waiting, Owners, Counted, Arriving
<1>2. ASSUME NEW t \in Threads, Call(t) \/ Progress(t) PROVE IInv'
  <2> USE DEF Waiting, Owners, Counted, Arriving, Inside, PC
  <2>t. pc \in [Threads -> PC]
    BY DEF IInv, TypeOK
  <2>1. CASE ReadLock(t)
    BY <2>t, <2>1, MoveKeeps DEF ReadLock
  <2>2. CASE ReadDraw(t)
    BY <2>t, <2>2, MoveKeeps DEF ReadDraw
  <2>3. CASE ReadCount(t)
    BY <2>3, ReadCountKeeps
  <2>4. CASE ReadGlobal(t)
    BY <2>4, ReadGlobalKeeps
  <2>5. CASE ReadDone(t)
    BY <2>t, <2>5, ReleaseKeeps, ZenonT(30) DEF ReadDone
  <2>6. CASE ReadUnlock(t)
    BY <2>t, <2>6, MoveKeeps, ZenonT(30) DEF ReadUnlock
  <2>7. CASE ReadUnlockChecked(t)
    BY <2>t, <2>7, MoveKeeps DEF ReadUnlockChecked
  <2>8. CASE ReadUnlockDraw(t)
    BY <2>t, <2>8, MoveKeeps DEF ReadUnlockDraw
  <2>9. CASE ReadUnlockCount(t)
    BY <2>9, ReadUnlockCountKeeps
  <2>10. CASE ReadUnlockDone(t)
    BY <2>t, <2>10, ReleaseKeeps DEF ReadUnlockDone
  <2>11. CASE WriteLock(t) \/ UpgradeGlobal(t)
    BY <2>11, DrawKeeps
  <2>12. CASE WriteLocked(t)
    BY <2>12, WriteLockedKeeps
  <2>13. CASE WriteUnlock(t)
    BY <2>t, <2>13, MoveKeeps, ZenonT(30) DEF WriteUnlock
  <2>14. CASE WriteUnlockChecked(t)
    BY <2>14, WriteUnlockCheckedKeeps
  <2>15. CASE Upgrade(t)
    BY <2>t, <2>15, MoveKeeps, ZenonT(30) DEF Upgrade
  <2>16. CASE UpgradeDraw(t)
    BY <2>t, <2>16, MoveKeeps, ZenonT(30) DEF UpgradeDraw
  <2>17. CASE UpgradeCount(t)
    BY <2>17, UpgradeCountKeeps
  <2>18. CASE UpgradeDone(t) /\ pc[t] = "up_last"
    BY <2>t, <2>18, ReleaseKeeps DEF UpgradeDone
  <2>19. CASE UpgradeDone(t) /\ pc[t] # "up_last"
    BY <2>t, <2>19, ReleaseKeeps DEF UpgradeDone
  <2> QED
    BY <1>2, <2>1, <2>2, <2>3, <2>4, <2>5, <2>6, <2>7, <2>8, <2>9, <2>10, <2>11, <2>12,
       <2>13, <2>14, <2>15, <2>16, <2>17, <2>18, <2>19 DEF Call, Progress
<1> QED BY <1>1, <1>2 DEF Next

LEMMA InvariantImplies == IInv => RwLockSafe
<1> SUFFICES ASSUME IInv PROVE RwLockSafe
  OBVIOUS
<1>1. global.next \in Ticket /\ global.serving \in Ticket
  BY DEF IInv, TypeOK, Ticket
<1>2. Held \/ Waiting # {} => GlobalIsLocked
  <2>1. Waiting # {} => Cardinality(Waiting) > 0
    BY SetsFinite, FS_EmptySet
  <2>2. Held \/ Waiting # {} => Lead > 0
    BY <2>1, SetsFinite DEF IInv, GlobalBooks
  <2> QED BY <1>1, <2>2, DistType DEF Lead, GlobalIsLocked
<1>3. Writers \subseteq Owners /\ Readers \subseteq Counted /\ Readers \cap Arriving = {}
      /\ Arriving \subseteq Waiting
  BY DEF Writers, Readers, Owners, Counted, Arriving, Waiting
<1>4. ReadersWriterExclusion
  BY <1>3 DEF IInv, SharesApart, ReadersWriterExclusion
<1>5. counter > 0 => Counted # {}
  BY NobodyCounted, SetsFinite DEF IInv
<1>6. CounterExact
  BY <1>2, <1>3, <1>5 DEF CounterExact, IInv, Held
<1>7. UnlockAssertion
  <2> SUFFICES ASSUME NEW t \in Threads, pc[t] = "wu_check"
               PROVE  /\ GlobalIsLocked
                      /\ counter # 0 => \E u \in Threads : Counted = {u} /\ pc[u] = "r_global"
    BY DEF UnlockAssertion
  <2>1. Owners # {}
    BY DEF Owners
  <2>2. GlobalIsLocked
    BY <2>1, <1>2 DEF Held
  <2>3. ASSUME counter # 0 PROVE \E u \in Threads : Counted = {u} /\ pc[u] = "r_global"
    <3>1. Counted # {}
      BY <2>3, NobodyCounted DEF IInv
    <3>2. PICK u \in Counted : TRUE
      BY <3>1
    <3>3. u \in Arriving
      BY <2>1, <3>2 DEF IInv, SharesApart
    <3> QED BY <3>3 DEF IInv, SharesApart, Arriving
  <2> QED BY <2>2, <2>3
<1> QED BY <1>4, <1>6, <1>7 DEF RwLockSafe, IInv

(* For any number of threads and any interleaving of read_lock,            *)
(* read_unlock, write_lock, write_unlock and upgrade: a writer is alone,   *)
(* the reader count is exact, global is locked while anybody is counted,   *)
(* and the assertion of write_unlock fails only while the first reader     *)
(* waits for the writer to leave.                                          *)
THEOREM RwLockSafeInvariant == LocksSpec => []RwLockSafe
<1> QED BY InitHolds, NextKeeps, InvariantImplies, RwLockSteps, PTL DEF Spec

(* The promise of the lock on its own: nobody reads or writes while        *)
(* another thread writes, whoever releases the ticket of the readers.      *)
THEOREM ReadersWriterExclusionInvariant == LocksSpec => []ReadersWriterExclusion
<1>1. RwLockSafe => ReadersWriterExclusion
  BY DEF RwLockSafe
<1> QED BY <1>1, RwLockSafeInvariant, PTL

-----------------------------------------------------------------------------
(* The mutex.                                                              *)

InQueue(q, t) == \E i \in 1..Len(q) : q[i] = t

\* The spinlock: holders are its head, spinners queue for it.
QueueOrder ==
    /\ \A t \in Mtx!Holders : lockq # <<>> /\ Head(lockq) = t
    /\ \A t \in Threads : mutexPc[t] = "spin" => InQueue(lockq, t)

\* The semaphore: who sleeps, who is listed, who is about to be woken.
SleepersKnown ==
    /\ \A i, j \in 1..Len(waiters) : waiters[i] = waiters[j] => i = j
    /\ \A i \in 1..Len(waiters) : waiters[i] \in Mtx!Asleep
    /\ \A u \in Threads : \A t \in target[u] : t \in Mtx!Asleep /\ mutexPc[u] = "wake" /\ ~InQueue(waiters, t)
    /\ \A u, v \in Threads : \A t \in target[u] : t \in target[v] => u = v
    /\ \A t \in Mtx!Asleep : InQueue(waiters, t) \/ \E u \in Threads : t \in target[u]

\* Calls that still owe a signal.
Owing == {t \in Threads : mutexPc[t] \notin {"idle", "wake"}}

\* The types, without the bounds of TypeOK on the count.
Types ==
    /\ lockq \in Seq(Threads)
    /\ signals \in Int
    /\ waiters \in Seq(Threads)
    /\ target \in [Threads -> SUBSET Threads]
    /\ mutexPc \in [Threads -> Mtx!PC]

Listed == Len(waiters) = IF signals < 0 THEN -signals ELSE 0
Bounded == signals + Cardinality(Owing) <= MaxSignals

MutexIInv == Types /\ QueueOrder /\ SleepersKnown /\ Listed /\ Bounded

-----------------------------------------------------------------------------
(* Queues *)

\* Append puts its element behind everyone who is there already.
LEMMA AppendFacts ==
    ASSUME NEW S, NEW q \in Seq(S), NEW e \in S
    PROVE  /\ Append(q, e) \in Seq(S)
           /\ Append(q, e) # <<>>
           /\ Len(Append(q, e)) = Len(q) + 1
           /\ \A i \in 1..Len(q) : Append(q, e)[i] = q[i]
           /\ Append(q, e)[Len(q) + 1] = e
           /\ q # <<>> => Head(Append(q, e)) = Head(q)
           /\ \A x : InQueue(Append(q, e), x) <=> InQueue(q, x) \/ x = e
<1>1. /\ Append(q, e) \in Seq(S)
      /\ Append(q, e) # <<>>
      /\ Len(q) \in Nat
      /\ Len(Append(q, e)) = Len(q) + 1
      /\ \A i \in 1..Len(q) : Append(q, e)[i] = q[i]
      /\ Append(q, e)[Len(q) + 1] = e
  BY AppendProperties, LenProperties
<1>2. q # <<>> => Head(Append(q, e)) = Head(q)
  BY <1>1, EmptySeq
<1>3. \A x : InQueue(Append(q, e), x) <=> InQueue(q, x) \/ x = e
  BY <1>1 DEF InQueue
<1>. QED
  BY <1>1, <1>2, <1>3

\* Tail drops the head and nobody else.
LEMMA TailFacts ==
    ASSUME NEW S, NEW q \in Seq(S), q # <<>>
    PROVE  /\ Head(q) \in S
           /\ Head(q) = q[1]
           /\ Tail(q) \in Seq(S)
           /\ Len(q) \in Nat \ {0}
           /\ Len(Tail(q)) = Len(q) - 1
           /\ \A i \in 1..Len(Tail(q)) : Tail(q)[i] = q[i + 1]
           /\ \A x : InQueue(Tail(q), x) => InQueue(q, x)
           /\ \A x : InQueue(q, x) /\ x # Head(q) => InQueue(Tail(q), x)
<1>1. /\ Head(q) \in S
      /\ Head(q) = q[1]
      /\ Tail(q) \in Seq(S)
      /\ Len(q) \in Nat \ {0}
      /\ Len(Tail(q)) = Len(q) - 1
      /\ \A i \in 1..Len(Tail(q)) : Tail(q)[i] = q[i + 1]
  BY HeadTailProperties, EmptySeq
<1>2. \A x : InQueue(Tail(q), x) => InQueue(q, x)
  BY <1>1 DEF InQueue
<1>3. ASSUME NEW x, InQueue(q, x), x # Head(q)
      PROVE  InQueue(Tail(q), x)
  <2>1. PICK i \in 1..Len(q) : q[i] = x
    BY <1>3 DEF InQueue
  <2>2. i # 1
    BY <2>1, <1>1, <1>3
  <2>3. i - 1 \in 1..Len(Tail(q)) /\ Tail(q)[i - 1] = x
    BY <2>1, <2>2, <1>1
  <2>. QED
    BY <2>3 DEF InQueue
<1>. QED
  BY <1>1, <1>2, <1>3

-----------------------------------------------------------------------------
(* The spinlock *)

\* A thread that leaves lockq alone and comes to hold the mutex only as its head.
LEMMA QueueQuiet ==
    ASSUME Types, QueueOrder, NEW t \in Threads, NEW l \in Mtx!PC,
           lockq' = lockq, mutexPc' = [mutexPc EXCEPT ![t] = l], l # "spin",
           l \in {"held", "tested"} => lockq # <<>> /\ Head(lockq) = t
    PROVE  QueueOrder'
<1>1. \A u \in Threads : mutexPc'[u] = IF u = t THEN l ELSE mutexPc[u]
  BY DEF Types
<1>2. \A u \in Mtx!Holders' : lockq # <<>> /\ Head(lockq) = u
  BY <1>1 DEF Mtx!Holders, QueueOrder
<1>3. \A u \in Threads : mutexPc'[u] = "spin" => InQueue(lockq, u)
  BY <1>1 DEF QueueOrder
<1>. QED
  BY <1>2, <1>3 DEF QueueOrder

LEMMA QueueKept ==
    ASSUME Types, QueueOrder, NEW t \in Threads, Mtx!Progress(t) \/ Mtx!Call(t)
    PROVE  QueueOrder'
<1>. USE DEF Mtx!Goto, Mtx!From
<1>1. CASE Mtx!Wait(t)
  <2>. "asleep" \in Mtx!PC /\ "draw" \in Mtx!PC
    BY DEF Mtx!PC
  <2>1. CASE signals' < 0
    BY <1>1, <2>1, QueueQuiet DEF Mtx!Wait
  <2>2. CASE ~(signals' < 0)
    BY <1>1, <2>2, QueueQuiet DEF Mtx!Wait
  <2>. QED
    BY <2>1, <2>2
<1>2. CASE Mtx!Draw(t)
  <2>1. /\ mutexPc[t] = "draw"
        /\ lockq' = Append(lockq, t)
        /\ \A u \in Threads : mutexPc'[u] = IF u = t THEN "spin" ELSE mutexPc[u]
    BY <1>2 DEF Mtx!Draw, Types
  <2>2. /\ lockq' # <<>>
        /\ lockq # <<>> => Head(lockq') = Head(lockq)
        /\ \A u \in Threads : InQueue(lockq', u) <=> InQueue(lockq, u) \/ u = t
    BY <2>1, AppendFacts DEF Types
  <2>3. \A u \in Mtx!Holders' : lockq' # <<>> /\ Head(lockq') = u
    BY <2>1, <2>2 DEF Mtx!Holders, QueueOrder
  <2>4. \A u \in Threads : mutexPc'[u] = "spin" => InQueue(lockq', u)
    BY <2>1, <2>2 DEF QueueOrder
  <2>. QED
    BY <2>3, <2>4 DEF QueueOrder
<1>3. CASE Mtx!Served(t)
  <2>1. mutexPc[t] = "spin" /\ Head(lockq) = t
    BY <1>3 DEF Mtx!Served
  <2>2. lockq # <<>>
    BY <2>1, EmptySeq DEF QueueOrder, InQueue
  <2>3. "held" \in Mtx!PC
    BY DEF Mtx!PC
  <2>. QED
    BY <1>3, <2>1, <2>2, <2>3, QueueQuiet DEF Mtx!Served
<1>4. CASE Mtx!Unlock(t)
  <2>. "tested" \in Mtx!PC /\ "idle" \in Mtx!PC
    BY DEF Mtx!PC
  <2>1. t \in Mtx!Holders
    BY <1>4 DEF Mtx!Unlock, Mtx!Holders
  <2>2. lockq # <<>> /\ Head(lockq) = t
    BY <2>1 DEF QueueOrder
  <2>3. CASE Mtx!IsLocked
    BY <1>4, <2>2, <2>3, QueueQuiet DEF Mtx!Unlock
  <2>4. CASE ~Mtx!IsLocked
    BY <1>4, <2>4, QueueQuiet DEF Mtx!Unlock
  <2>. QED
    BY <2>3, <2>4
<1>5. CASE Mtx!Release(t)
  <2>1. /\ mutexPc[t] = "tested"
        /\ lockq' = Tail(lockq)
        /\ \A u \in Threads : mutexPc'[u] = IF u = t THEN "signal" ELSE mutexPc[u]
    BY <1>5 DEF Mtx!Release, Types
  <2>2. lockq # <<>> /\ Head(lockq) = t
    BY <2>1 DEF QueueOrder, Mtx!Holders
  <2>3. \A u \in Threads : InQueue(lockq, u) /\ u # t => InQueue(lockq', u)
    BY <2>1, <2>2, TailFacts DEF Types
  <2>4. Mtx!Holders' = {}
    BY <2>1, <2>2 DEF Mtx!Holders, QueueOrder
  <2>5. \A u \in Threads : mutexPc'[u] = "spin" => InQueue(lockq', u)
    BY <2>1, <2>3 DEF QueueOrder
  <2>. QED
    BY <2>4, <2>5 DEF QueueOrder
<1>6. CASE Mtx!Signal(t)
  <2>. "wake" \in Mtx!PC /\ "idle" \in Mtx!PC
    BY DEF Mtx!PC
  <2>1. CASE signals' <= 0 /\ waiters # <<>>
    BY <1>6, <2>1, QueueQuiet DEF Mtx!Signal
  <2>2. CASE ~(signals' <= 0 /\ waiters # <<>>)
    BY <1>6, <2>2, QueueQuiet DEF Mtx!Signal
  <2>. QED
    BY <2>1, <2>2
<1>7. CASE Mtx!WakeUp(t)
  <2>1. /\ lockq' = lockq
        /\ \A u \in Threads : mutexPc'[u] = mutexPc[u] \/ mutexPc'[u] \in {"idle", "draw"}
    BY <1>7 DEF Mtx!WakeUp
  <2>2. Mtx!Holders' \subseteq Mtx!Holders
    BY <2>1 DEF Mtx!Holders
  <2>3. \A u \in Threads : mutexPc'[u] = "spin" => InQueue(lockq', u)
    BY <2>1 DEF QueueOrder
  <2>. QED
    BY <2>1, <2>2, <2>3 DEF QueueOrder
<1>8. CASE Mtx!PollTest(t) \/ Mtx!PollTimeout(t)
  <2>. "try" \in Mtx!PC
    BY DEF Mtx!PC
  <2>. QED
    BY <1>8, QueueQuiet DEF Mtx!PollTest, Mtx!PollTimeout
<1>9. CASE Mtx!Lock(t)
  <2>1. "wait" \in Mtx!PC /\ "draw" \in Mtx!PC
    BY DEF Mtx!PC
  <2>. QED
    BY <1>9, <2>1, QueueQuiet DEF Mtx!Lock
<1>10. CASE Mtx!TryLock(t)
  <2>1. "idle" \in Mtx!PC /\ "draw" \in Mtx!PC
    BY DEF Mtx!PC
  <2>. QED
    BY <1>10, <2>1, QueueQuiet DEF Mtx!TryLock
<1>11. CASE Mtx!TryLockUntil(t)
  <2>1. "poll" \in Mtx!PC /\ "try" \in Mtx!PC
    BY DEF Mtx!PC
  <2>. QED
    BY <1>11, <2>1, QueueQuiet DEF Mtx!TryLockUntil
<1>. QED
  BY <1>1, <1>2, <1>3, <1>4, <1>5, <1>6, <1>7, <1>8, <1>9, <1>10, <1>11
  DEF Mtx!Progress, Mtx!Call

\* Hence one holder: it is the head of the queue.
LEMMA HolderUnique ==
    ASSUME QueueOrder
    PROVE  Mtx!MutualExclusion
  BY DEF QueueOrder, Mtx!MutualExclusion

-----------------------------------------------------------------------------
(* The sleepers *)

\* A step that leaves the list and the targets alone and neither puts its thread
\* to sleep nor ends a sleep or a wake_up.
LEMMA SleepersQuiet ==
    ASSUME Types, SleepersKnown, NEW t \in Threads, NEW l \in Mtx!PC,
           waiters' = waiters, target' = target, mutexPc' = [mutexPc EXCEPT ![t] = l],
           l # "asleep", mutexPc[t] \notin {"asleep", "wake"}
    PROVE  SleepersKnown'
<1>1. \A u \in Threads : mutexPc'[u] = IF u = t THEN l ELSE mutexPc[u]
  BY DEF Types
<1>2. Mtx!Asleep' = Mtx!Asleep
  BY <1>1 DEF Mtx!Asleep
<1>3. \A u \in Threads : \A x \in target[u] : mutexPc'[u] = "wake"
  BY <1>1 DEF SleepersKnown
<1>. QED
  BY <1>2, <1>3 DEF SleepersKnown

\* wait() with no signal left: the caller joins the list and sleeps.
LEMMA WaitSleeps ==
    ASSUME Types, SleepersKnown, NEW t \in Threads, Mtx!Wait(t), signals' < 0
    PROVE  SleepersKnown'
<1>1. /\ mutexPc[t] = "wait" /\ target' = target
      /\ waiters' = Append(waiters, t)
      /\ \A u \in Threads : mutexPc'[u] = IF u = t THEN "asleep" ELSE mutexPc[u]
  BY DEF Mtx!Wait, Mtx!Goto, Types
<1>2. /\ Len(waiters') = Len(waiters) + 1
      /\ Len(waiters) \in Nat
      /\ \A i \in 1..Len(waiters) : waiters'[i] = waiters[i]
      /\ waiters'[Len(waiters) + 1] = t
      /\ \A x : InQueue(waiters', x) <=> InQueue(waiters, x) \/ x = t
  BY <1>1, AppendFacts, LenProperties DEF Types
<1>3. Mtx!Asleep' = Mtx!Asleep \cup {t} /\ t \notin Mtx!Asleep
  BY <1>1 DEF Mtx!Asleep
<1>4. \A i \in 1..Len(waiters) : waiters[i] # t
  BY <1>3 DEF SleepersKnown
<1>5. \A i, j \in 1..Len(waiters') : waiters'[i] = waiters'[j] => i = j
  BY <1>2, <1>4 DEF SleepersKnown
<1>6. \A i \in 1..Len(waiters') : waiters'[i] \in Mtx!Asleep'
  BY <1>2, <1>3 DEF SleepersKnown
<1>7. \A u \in Threads : \A x \in target'[u] :
        x \in Mtx!Asleep' /\ mutexPc'[u] = "wake" /\ ~InQueue(waiters', x)
  BY <1>1, <1>2, <1>3 DEF SleepersKnown
<1>8. \A u, v \in Threads : \A x \in target'[u] : x \in target'[v] => u = v
  BY <1>1 DEF SleepersKnown
<1>9. \A x \in Mtx!Asleep' : InQueue(waiters', x) \/ \E u \in Threads : x \in target'[u]
  BY <1>1, <1>2, <1>3 DEF SleepersKnown
<1>. QED
  BY <1>5, <1>6, <1>7, <1>8, <1>9 DEF SleepersKnown

\* signal() with a waiter: the oldest one leaves the list and becomes the target.
LEMMA SignalPicks ==
    ASSUME Types, SleepersKnown, NEW t \in Threads, Mtx!Signal(t),
           signals' <= 0, waiters # <<>>
    PROVE  SleepersKnown'
<1>1. /\ mutexPc[t] = "signal"
      /\ waiters' = Tail(waiters)
      /\ \A u \in Threads : mutexPc'[u] = IF u = t THEN "wake" ELSE mutexPc[u]
      /\ \A u \in Threads : target'[u] = IF u = t THEN {Head(waiters)} ELSE target[u]
  BY DEF Mtx!Signal, Mtx!Goto, Types
<1>2. /\ Head(waiters) = waiters[1]
      /\ Len(waiters) \in Nat \ {0}
      /\ Len(waiters') = Len(waiters) - 1
      /\ \A i \in 1..Len(waiters') : waiters'[i] = waiters[i + 1]
      /\ \A x : InQueue(waiters', x) => InQueue(waiters, x)
      /\ \A x : InQueue(waiters, x) /\ x # Head(waiters) => InQueue(waiters', x)
  BY <1>1, TailFacts DEF Types
<1>3. Mtx!Asleep' = Mtx!Asleep
  BY <1>1 DEF Mtx!Asleep
<1>4. target[t] = {}
  BY <1>1 DEF SleepersKnown
<1>5. Head(waiters) \in Mtx!Asleep /\ InQueue(waiters, Head(waiters))
  BY <1>2 DEF SleepersKnown, InQueue
<1>6. ~InQueue(waiters', Head(waiters))
  BY <1>2 DEF SleepersKnown, InQueue
<1>7. \A i, j \in 1..Len(waiters') : waiters'[i] = waiters'[j] => i = j
  BY <1>2 DEF SleepersKnown
<1>8. \A i \in 1..Len(waiters') : waiters'[i] \in Mtx!Asleep'
  BY <1>2, <1>3 DEF SleepersKnown
<1>9. \A u \in Threads : \A x \in target'[u] :
        x \in Mtx!Asleep' /\ mutexPc'[u] = "wake" /\ ~InQueue(waiters', x)
  BY <1>1, <1>2, <1>3, <1>5, <1>6 DEF SleepersKnown
<1>10. \A u \in Threads : Head(waiters) \notin target[u]
  BY <1>5 DEF SleepersKnown
<1>11. \A u, v \in Threads : \A x \in target'[u] : x \in target'[v] => u = v
  BY <1>1, <1>4, <1>10 DEF SleepersKnown
<1>12. ASSUME NEW x \in Mtx!Asleep'
       PROVE  InQueue(waiters', x) \/ \E u \in Threads : x \in target'[u]
  <2>1. CASE x = Head(waiters)
    BY <2>1, <1>1
  <2>2. CASE x # Head(waiters) /\ InQueue(waiters, x)
    BY <2>2, <1>2
  <2>3. CASE \E u \in Threads : x \in target[u]
    BY <2>3, <1>1, <1>4
  <2>. QED
    BY <2>1, <2>2, <2>3, <1>3 DEF SleepersKnown
<1>. QED
  BY <1>7, <1>8, <1>9, <1>11, <1>12 DEF SleepersKnown

\* wake_up reaches its target, which no list and no other wake_up knows.
LEMMA WakeUpReaches ==
    ASSUME Types, SleepersKnown, NEW t \in Threads, Mtx!WakeUp(t)
    PROVE  SleepersKnown'
<1>1. /\ mutexPc[t] = "wake" /\ waiters' = waiters
      /\ \A u \in Threads : target'[u] = IF u = t THEN {} ELSE target[u]
  BY DEF Mtx!WakeUp, Types
<1>2. /\ mutexPc'[t] = "idle"
      /\ \A u \in Threads \ {t} :
           mutexPc'[u] = IF u \in target[t] /\ mutexPc[u] = "asleep" THEN "draw" ELSE mutexPc[u]
  BY DEF Mtx!WakeUp
<1>3. Mtx!Asleep' = Mtx!Asleep \ target[t]
  BY <1>1, <1>2 DEF Mtx!Asleep
<1>4. \A i \in 1..Len(waiters) : waiters[i] \notin target[t]
  BY DEF SleepersKnown, InQueue
<1>5. \A i \in 1..Len(waiters') : waiters'[i] \in Mtx!Asleep'
  BY <1>1, <1>3, <1>4 DEF SleepersKnown
<1>6. ASSUME NEW u \in Threads, NEW x \in target'[u]
      PROVE  x \in Mtx!Asleep' /\ mutexPc'[u] = "wake" /\ ~InQueue(waiters', x)
  <2>1. u # t /\ x \in target[u]
    BY <1>1, <1>6
  <2>2. x \notin target[t] /\ x \in Mtx!Asleep /\ mutexPc[u] = "wake" /\ ~InQueue(waiters, x)
    BY <2>1 DEF SleepersKnown
  <2>3. mutexPc'[u] = "wake"
    BY <2>1, <2>2, <1>2
  <2>. QED
    BY <2>2, <2>3, <1>1, <1>3
<1>7. \A u, v \in Threads : \A x \in target'[u] : x \in target'[v] => u = v
  BY <1>1 DEF SleepersKnown
<1>8. \A x \in Mtx!Asleep' : InQueue(waiters', x) \/ \E u \in Threads : x \in target'[u]
  BY <1>1, <1>3 DEF SleepersKnown
<1>9. \A i, j \in 1..Len(waiters') : waiters'[i] = waiters'[j] => i = j
  BY <1>1 DEF SleepersKnown
<1>. QED
  BY <1>5, <1>6, <1>7, <1>8, <1>9 DEF SleepersKnown

LEMMA SleepersKept ==
    ASSUME Types, SleepersKnown, NEW t \in Threads, Mtx!Progress(t) \/ Mtx!Call(t)
    PROVE  SleepersKnown'
<1>. USE DEF Mtx!Goto, Mtx!From
<1>. {"idle", "wait", "draw", "spin", "held", "tested", "signal", "try", "poll"} \subseteq Mtx!PC
  BY DEF Mtx!PC
<1>1. CASE Mtx!Wait(t)
  <2>1. CASE ~(signals' < 0)
    BY <1>1, <2>1, SleepersQuiet DEF Mtx!Wait
  <2>. QED
    BY <1>1, <2>1, WaitSleeps
<1>2. CASE Mtx!Signal(t)
  <2>1. CASE ~(signals' <= 0 /\ waiters # <<>>)
    BY <1>2, <2>1, SleepersQuiet DEF Mtx!Signal
  <2>. QED
    BY <1>2, <2>1, SignalPicks
<1>3. CASE Mtx!WakeUp(t)
  BY <1>3, WakeUpReaches
<1>4. CASE Mtx!Draw(t) \/ Mtx!Served(t) \/ Mtx!Release(t)
  BY <1>4, SleepersQuiet DEF Mtx!Draw, Mtx!Served, Mtx!Release
<1>5. CASE Mtx!Unlock(t)
  BY <1>5, SleepersQuiet DEF Mtx!Unlock
<1>6. CASE Mtx!PollTest(t) \/ Mtx!PollTimeout(t)
  BY <1>6, SleepersQuiet DEF Mtx!PollTest, Mtx!PollTimeout
<1>7. CASE Mtx!Lock(t)
  BY <1>7, SleepersQuiet DEF Mtx!Lock
<1>8. CASE Mtx!TryLock(t)
  BY <1>8, SleepersQuiet DEF Mtx!TryLock
<1>9. CASE Mtx!TryLockUntil(t)
  BY <1>9, SleepersQuiet DEF Mtx!TryLockUntil
<1>. QED
  BY <1>1, <1>2, <1>3, <1>4, <1>5, <1>6, <1>7, <1>8, <1>9 DEF Mtx!Progress, Mtx!Call

-----------------------------------------------------------------------------
(* The count *)

\* A thread joins or leaves a set of threads.
LEMMA OneMoreOrLess ==
    ASSUME NEW S, NEW R, S \subseteq Threads, R \subseteq Threads, NEW t \in Threads
    PROVE  /\ Cardinality(S) \in Nat
           /\ Cardinality(S) <= Cardinality(Threads)
           /\ S \subseteq R => Cardinality(S) <= Cardinality(R)
           /\ R \subseteq S \cup {t} => Cardinality(R) <= Cardinality(S) + 1
           /\ t \in S /\ R \subseteq S \ {t} => Cardinality(R) <= Cardinality(S) - 1
<1>1. IsFiniteSet(S) /\ IsFiniteSet(R) /\ IsFiniteSet(S \cup {t}) /\ IsFiniteSet(S \ {t})
  <2>1. S \cup {t} \subseteq Threads /\ S \ {t} \subseteq Threads
    OBVIOUS
  <2>. QED
    BY <2>1, ThreadsFinite, FS_Subset
<1>2. Cardinality(S) \in Nat /\ Cardinality(R) \in Nat
  BY <1>1, FS_CardinalityType
<1>3. Cardinality(S) <= Cardinality(Threads)
  BY ThreadsFinite, FS_Subset
<1>4. S \subseteq R => Cardinality(S) <= Cardinality(R)
  BY <1>1, FS_Subset
<1>5. R \subseteq S \cup {t} => Cardinality(R) <= Cardinality(S) + 1
  <2>1. R \subseteq S \cup {t} => Cardinality(R) <= Cardinality(S \cup {t})
    BY <1>1, FS_Subset
  <2>2. Cardinality(S \cup {t}) \in {Cardinality(S), Cardinality(S) + 1}
    BY <1>1, FS_AddElement
  <2>. QED
    BY <2>1, <2>2, <1>2
<1>6. t \in S /\ R \subseteq S \ {t} => Cardinality(R) <= Cardinality(S) - 1
  <2>1. R \subseteq S \ {t} => Cardinality(R) <= Cardinality(S \ {t})
    BY <1>1, FS_Subset
  <2>2. t \in S => Cardinality(S \ {t}) = Cardinality(S) - 1
    BY <1>1, FS_RemoveElement
  <2>. QED
    BY <2>1, <2>2, <1>2
<1>. QED
  BY <1>2, <1>3, <1>4, <1>5, <1>6

\* The count is the negated length of the list, or not negative and the list empty.
LEMMA ListedKept ==
    ASSUME Types, Listed, NEW t \in Threads, Mtx!Progress(t) \/ Mtx!Call(t)
    PROVE  Listed'
<1>1. CASE Mtx!Wait(t)
  <2>1. Len(waiters) \in Nat /\ Len(Append(waiters, t)) = Len(waiters) + 1
    BY AppendFacts, LenProperties DEF Types
  <2>. QED
    BY <1>1, <2>1 DEF Mtx!Wait, Listed, Types
<1>2. CASE Mtx!Signal(t)
  <2>1. signals' = signals + 1
    BY <1>2 DEF Mtx!Signal
  <2>2. CASE signals' <= 0 /\ waiters # <<>>
    <3>1. waiters' = Tail(waiters)
      BY <1>2, <2>2 DEF Mtx!Signal
    <3>2. Len(waiters) \in Nat /\ Len(waiters') = Len(waiters) - 1
      BY <2>2, <3>1, TailFacts DEF Types
    <3>. QED
      BY <2>1, <2>2, <3>2 DEF Listed, Types
  <2>3. CASE ~(signals' <= 0 /\ waiters # <<>>)
    <3>1. waiters' = waiters
      BY <1>2, <2>3 DEF Mtx!Signal
    <3>2. signals >= 0
      BY <2>1, <2>3, EmptySeq DEF Listed, Types
    <3>. QED
      BY <2>1, <3>1, <3>2 DEF Listed, Types
  <2>. QED
    BY <2>2, <2>3
<1>3. CASE Mtx!PollTest(t)
  BY <1>3 DEF Mtx!PollTest, Listed, Types
<1>4. CASE UNCHANGED <<signals, waiters>>
  BY <1>4 DEF Listed
<1>. QED
  BY <1>1, <1>2, <1>3, <1>4 DEF Mtx!Progress, Mtx!Call, Mtx!Draw, Mtx!Served, Mtx!Unlock, Mtx!Release,
     Mtx!WakeUp, Mtx!PollTimeout, Mtx!Lock, Mtx!TryLock, Mtx!TryLockUntil

\* A call under way owes its signal until signal() gives it, so the signals stay
\* below the bound under which calls are admitted.
LEMMA BoundedKept ==
    ASSUME Types, Bounded, NEW t \in Threads, Mtx!Progress(t) \/ Mtx!Call(t)
    PROVE  Bounded'
<1>. USE MaxSignalsNat
<1>1. Owing \subseteq Threads /\ Owing' \subseteq Threads
  BY DEF Owing
<1>2. /\ Cardinality(Owing) \in Nat /\ Cardinality(Owing') \in Nat
      /\ Owing' \subseteq Owing => Cardinality(Owing') <= Cardinality(Owing)
      /\ t \in Owing /\ Owing' \subseteq Owing \ {t} =>
           Cardinality(Owing') <= Cardinality(Owing) - 1
  BY <1>1, OneMoreOrLess
<1>3. CASE Mtx!Call(t)
  <2>. DEFINE Busy == {u \in Threads : mutexPc[u] # "idle"}
  <2>1. Owing' \subseteq Busy \cup {t}
    BY <1>3 DEF Mtx!Call, Mtx!Lock, Mtx!TryLock, Mtx!TryLockUntil, Mtx!From, Mtx!Goto, Owing, Types
  <2>2. Busy \subseteq Threads
    OBVIOUS
  <2>3. Cardinality(Owing') <= Cardinality(Busy) + 1 /\ Cardinality(Busy) \in Nat
    BY <1>1, <2>1, <2>2, OneMoreOrLess
  <2>4. signals + Cardinality(Busy) < MaxSignals /\ signals' = signals
    BY <1>3, SameCount DEF Mtx!Call, Mtx!Room, Mtx!Lock, Mtx!TryLock, Mtx!TryLockUntil
  <2>. HIDE DEF Busy
  <2>. QED
    BY <2>3, <2>4, <1>2 DEF Bounded, Types
<1>4. CASE Mtx!Signal(t)
  <2>1. t \in Owing /\ Owing' \subseteq Owing \ {t} /\ signals' = signals + 1
    BY <1>4 DEF Mtx!Signal, Owing, Mtx!Goto, Types
  <2>. QED
    BY <2>1, <1>2 DEF Bounded, Types
<1>5. CASE Mtx!WakeUp(t)
  <2>1. \A u \in Threads : mutexPc'[u] \notin {"idle", "wake"} => mutexPc[u] \notin {"idle", "wake"}
    BY <1>5 DEF Mtx!WakeUp
  <2>2. Owing' \subseteq Owing /\ signals' = signals
    BY <1>5, <2>1 DEF Owing, Mtx!WakeUp
  <2>. QED
    BY <2>2, <1>2 DEF Bounded, Types
<1>6. CASE Mtx!Wait(t) \/ Mtx!PollTest(t)
  <2>1. Owing' \subseteq Owing /\ signals' = signals - 1
    BY <1>6 DEF Mtx!Wait, Mtx!PollTest, Owing, Mtx!From, Mtx!Goto, Types
  <2>. QED
    BY <2>1, <1>2 DEF Bounded, Types
<1>7. CASE Mtx!Draw(t) \/ Mtx!Served(t) \/ Mtx!Unlock(t) \/ Mtx!Release(t) \/ Mtx!PollTimeout(t)
  <2>1. Owing' \subseteq Owing /\ signals' = signals
    BY <1>7 DEF Mtx!Draw, Mtx!Served, Mtx!Unlock, Mtx!Release, Mtx!PollTimeout, Owing, Mtx!From, Mtx!Goto, Types
  <2>. QED
    BY <2>1, <1>2 DEF Bounded, Types
<1>8. CASE mutexPc[t] = "try" /\ Mtx!TryLock(t)
  <2>1. Owing' \subseteq Owing /\ signals' = signals
    BY <1>8 DEF Mtx!TryLock, Owing, Mtx!Goto, Types
  <2>. QED
    BY <2>1, <1>2 DEF Bounded, Types
<1>. QED
  BY <1>3, <1>4, <1>5, <1>6, <1>7, <1>8 DEF Mtx!Progress

-----------------------------------------------------------------------------
(* The theorems *)

LEMMA TypesKept ==
    ASSUME Types, QueueOrder, NEW t \in Threads, Mtx!Progress(t) \/ Mtx!Call(t)
    PROVE  Types'
<1>. USE DEF Mtx!Goto, Mtx!From
<1>1. mutexPc' \in [Threads -> Mtx!PC]
  BY DEF Types, Mtx!PC, Mtx!Progress, Mtx!Call, Mtx!Wait, Mtx!Draw, Mtx!Served, Mtx!Unlock, Mtx!Release, Mtx!Signal,
     Mtx!WakeUp, Mtx!PollTest, Mtx!PollTimeout, Mtx!Lock, Mtx!TryLock, Mtx!TryLockUntil
<1>2. signals' \in Int
  BY DEF Types, Mtx!Progress, Mtx!Call, Mtx!Wait, Mtx!Draw, Mtx!Served, Mtx!Unlock, Mtx!Release, Mtx!Signal,
     Mtx!WakeUp, Mtx!PollTest, Mtx!PollTimeout, Mtx!Lock, Mtx!TryLock, Mtx!TryLockUntil
<1>3. lockq' \in Seq(Threads)
  <2>1. CASE Mtx!Draw(t)
    BY <2>1, AppendFacts DEF Types, Mtx!Draw
  <2>2. CASE Mtx!Release(t)
    <3>1. lockq # <<>>
      BY <2>2 DEF Mtx!Release, QueueOrder, Mtx!Holders
    <3>. QED
      BY <2>2, <3>1, TailFacts DEF Types, Mtx!Release
  <2>3. CASE lockq' = lockq
    BY <2>3 DEF Types
  <2>. QED
    BY <2>1, <2>2, <2>3 DEF Mtx!Progress, Mtx!Call, Mtx!Wait, Mtx!Served, Mtx!Unlock, Mtx!Signal, Mtx!WakeUp,
       Mtx!PollTest, Mtx!PollTimeout, Mtx!Lock, Mtx!TryLock, Mtx!TryLockUntil
<1>4. waiters' \in Seq(Threads) /\ target' \in [Threads -> SUBSET Threads]
  <2>1. CASE Mtx!Wait(t)
    BY <2>1, AppendFacts DEF Types, Mtx!Wait
  <2>2. CASE Mtx!Signal(t)
    <3>1. CASE signals' <= 0 /\ waiters # <<>>
      <4>1. Head(waiters) \in Threads /\ Tail(waiters) \in Seq(Threads)
        BY <3>1, TailFacts DEF Types
      <4>2. /\ waiters' = Tail(waiters)
            /\ target' = [target EXCEPT ![t] = {Head(waiters)}]
        BY <2>2, <3>1 DEF Mtx!Signal
      <4>3. target' \in [Threads -> SUBSET Threads]
        BY <4>1, <4>2 DEF Types
      <4>. QED
        BY <4>1, <4>2, <4>3
    <3>2. CASE ~(signals' <= 0 /\ waiters # <<>>)
      BY <2>2, <3>2 DEF Types, Mtx!Signal
    <3>. QED
      BY <3>1, <3>2
  <2>3. CASE Mtx!WakeUp(t)
    BY <2>3 DEF Types, Mtx!WakeUp
  <2>4. CASE UNCHANGED <<waiters, target>>
    BY <2>4 DEF Types
  <2>. QED
    BY <2>1, <2>2, <2>3, <2>4 DEF Mtx!Progress, Mtx!Call, Mtx!Draw, Mtx!Served, Mtx!Unlock, Mtx!Release,
       Mtx!PollTest, Mtx!PollTimeout, Mtx!Lock, Mtx!TryLock, Mtx!TryLockUntil
<1>. QED
  BY <1>1, <1>2, <1>3, <1>4 DEF Types

LEMMA InvInit ==
    ASSUME Mtx!Init
    PROVE  MutexIInv
<1>1. Types
  BY DEF Mtx!Init, Types, Mtx!PC
<1>2. QueueOrder
  BY DEF Mtx!Init, QueueOrder, Mtx!Holders
<1>3. Len(waiters) = 0
  BY DEF Mtx!Init
<1>4. SleepersKnown
  BY <1>3 DEF Mtx!Init, SleepersKnown, Mtx!Asleep
<1>5. Owing = {}
  BY DEF Mtx!Init, Owing
<1>6. Bounded
  BY <1>5, FS_EmptySet, MaxSignalsNat DEF Mtx!Init, Bounded
<1>7. Listed
  BY <1>3 DEF Listed, Mtx!Init
<1>. QED
  BY <1>1, <1>2, <1>4, <1>6, <1>7 DEF MutexIInv

LEMMA InvKept ==
    ASSUME MutexIInv, [Mtx!Next]_Mtx!vars
    PROVE  MutexIInv'
<1>1. CASE Mtx!Next
  <2>1. PICK t \in Threads : Mtx!Progress(t) \/ Mtx!Call(t)
    BY <1>1 DEF Mtx!Next
  <2>. QED
    BY <2>1, TypesKept, QueueKept, SleepersKept, ListedKept, BoundedKept DEF MutexIInv
<1>2. CASE UNCHANGED Mtx!vars
  <2>. USE <1>2 DEF Mtx!vars
  <2>1. Types' /\ Listed'
    BY DEF MutexIInv, Types, Listed
  <2>2. QueueOrder'
    BY DEF MutexIInv, QueueOrder, Mtx!Holders
  <2>3. SleepersKnown'
    BY DEF MutexIInv, SleepersKnown, Mtx!Asleep
  <2>4. Owing' = Owing
    BY DEF Owing
  <2>5. Bounded'
    BY <2>4 DEF MutexIInv, Bounded
  <2>. QED
    BY <2>1, <2>2, <2>3, <2>5 DEF MutexIInv
<1>. QED
  BY <1>1, <1>2

\* The list holds no thread twice, so it is never longer than there are threads.
LEMMA ListFits ==
    ASSUME MutexIInv
    PROVE  Len(waiters) \in Nat /\ Len(waiters) <= Cardinality(Threads)
<1>1. Len(waiters) \in Nat /\ waiters \in [1..Len(waiters) -> Threads]
  BY LenProperties DEF MutexIInv, Types
<1>2. waiters \in Injection(1..Len(waiters), Threads)
  BY <1>1 DEF MutexIInv, SleepersKnown, Injection, IsInjective
<1>3. Cardinality(1..Len(waiters)) <= Cardinality(Threads)
  BY <1>2, ThreadsFinite, FS_Injection
<1>4. Cardinality(1..Len(waiters)) = Len(waiters)
  BY <1>1, FS_Interval
<1>. QED
  BY <1>1, <1>3, <1>4

\* A sleeper is listed once and no target, or not listed and one target.
LEMMA SleeperOnce ==
    ASSUME MutexIInv, NEW t \in Mtx!Asleep
    PROVE  Cardinality({i \in 1..Len(waiters) : waiters[i] = t})
             + Cardinality({u \in Threads : t \in target[u]}) = 1
<1>. DEFINE Places == {i \in 1..Len(waiters) : waiters[i] = t}
            Wakers == {u \in Threads : t \in target[u]}
<1>1. CASE InQueue(waiters, t)
  <2>1. PICK i \in 1..Len(waiters) : waiters[i] = t
    BY <1>1 DEF InQueue
  <2>2. Places = {i}
    BY <2>1 DEF MutexIInv, SleepersKnown
  <2>3. Wakers = {}
    BY <1>1 DEF MutexIInv, SleepersKnown
  <2>4. Cardinality(Places) = 1 /\ Cardinality(Wakers) = 0
    BY <2>2, <2>3, FS_Singleton, FS_EmptySet
  <2>. QED
    BY <2>4
<1>2. CASE ~InQueue(waiters, t)
  <2>1. PICK u \in Threads : t \in target[u]
    BY <1>2 DEF MutexIInv, SleepersKnown
  <2>2. Places = {}
    BY <1>2 DEF InQueue
  <2>3. Wakers = {u}
    BY <2>1 DEF MutexIInv, SleepersKnown
  <2>4. Cardinality(Places) = 0 /\ Cardinality(Wakers) = 1
    BY <2>2, <2>3, FS_Singleton, FS_EmptySet
  <2>. QED
    BY <2>4
<1>. QED
  BY <1>1, <1>2

LEMMA InvSafe ==
    ASSUME MutexIInv
    PROVE  Mtx!MutexSafe
<1>1. Len(waiters) \in Nat /\ Len(waiters) <= Cardinality(Threads)
  BY ListFits
<1>2. Cardinality(Owing) \in Nat /\ Cardinality(Threads) \in Nat
  BY ThreadsFinite, FS_Subset, FS_CardinalityType DEF Owing
<1>3. signals \in -Cardinality(Threads)..MaxSignals
  BY <1>1, <1>2, MaxSignalsNat DEF MutexIInv, Types, Listed, Bounded
<1>4. Mtx!TypeOK
  BY <1>3, SameCount DEF MutexIInv, Types, Mtx!TypeOK
<1>5. Mtx!MutualExclusion
  BY HolderUnique DEF MutexIInv
<1>6. Mtx!SemaphoreExact
  BY SleeperOnce, SameCount DEF MutexIInv, Listed, SleepersKnown, Mtx!SemaphoreExact
<1>. QED
  BY <1>4, <1>5, <1>6 DEF Mtx!MutexSafe

(***************************************************************************)
(* For any number of threads that call lock(), unlock(), try_lock() and    *)
(* try_lock_until() in any interleaving, one thread holds the mutex, and   *)
(* the count, the list and the sleepers of the semaphore agree: no sleeper *)
(* is forgotten, listed twice or woken by two signals.                     *)
(***************************************************************************)
THEOREM MutexSafeInvariant == LocksSpec => []MutexSafe
<1>1. Mtx!Init => MutexIInv
  BY InvInit
<1>2. MutexIInv /\ [Mtx!Next]_Mtx!vars => MutexIInv'
  BY InvKept
<1>3. MutexIInv => MutexSafe
  BY InvSafe DEF MutexSafe
<1>. QED
  BY <1>1, <1>2, <1>3, MutexSteps, PTL DEF Mtx!Spec

(***************************************************************************)
(* bug_on(threads.size() == 0) in semaphore::signal() never fires: when    *)
(* the count says that somebody waits, the list is not empty.              *)
(***************************************************************************)
THEOREM SignalFindsWaiter ==
    LocksSpec => [][\A t \in Threads : Mtx!Signal(t) /\ signals' <= 0 => waiters # <<>>]_Mtx!vars
<1>1. Mtx!Init => MutexIInv
  BY InvInit
<1>2. MutexIInv /\ [Mtx!Next]_Mtx!vars => MutexIInv'
  BY InvKept
<1>3. MutexIInv => \A t \in Threads : Mtx!Signal(t) /\ signals' <= 0 => waiters # <<>>
  BY EmptySeq DEF MutexIInv, Types, Listed, Mtx!Signal
<1>. QED
  BY <1>1, <1>2, <1>3, MutexSteps, PTL DEF Mtx!Spec
=============================================================================
