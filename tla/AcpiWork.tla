------------------------------ MODULE AcpiWork ------------------------------
(***************************************************************************)
(* The work queues that the kernel lends to uACPI                          *)
(* (kernel/source/deps/uacpi.cpp): one queue and one worker for each kind  *)
(* of work, both workers asleep on the one semaphore `added`, and callers  *)
(* of uacpi_kernel_wait_for_work_completion() asleep on `completed`.       *)
(*                                                                         *)
(* A semaphore operation is one step (module Mutex opens it up, and Sched  *)
(* the wake-up at its end, which can hang in an interrupt handler too), a  *)
(* thread is awake again as soon as it has left the list of the semaphore. *)
(* The n-th work of a kind is the number n.                                *)
(*                                                                         *)
(* Work is scheduled by threads and, for GPEs, by the interrupt handler on *)
(* the boot CPU (acpi.cpp:151).  The locks of the queues do not switch     *)
(* interrupts off: the handler can arrive while a thread of its own CPU    *)
(* holds the lock it needs, or has drawn a ticket for it, and then spins   *)
(* for ever.  Threads that call schedule_work() themselves are taken to    *)
(* run on other CPUs.                                                      *)
(***************************************************************************)
EXTENDS Integers, Sequences

CONSTANTS
  Waiters,      \* threads that wait for the completion of work
  OnBsp,        \* the workers and waiters that run on the boot CPU
  MaxWork,      \* bound: work of each kind
  MaxCalls      \* bound: calls of each waiter

Kinds == {"notify", "gpe"}

\* The workers are threads of their own.
AcpiWorkAssumption ==
  /\ MaxWork \in Nat /\ MaxCalls \in Nat
  /\ Waiters \cap Kinds = {} /\ OnBsp \subseteq Kinds \cup Waiters

VARIABLES
  queue,        \* kind -> the work queued, in order
  writer,       \* kind -> does its worker hold the lock of the queue
  readers,      \* kind -> waiters that hold it for reading
  added,        \* semaphore: [signals, threads]
  completed,    \* semaphore
  pc,           \* worker or waiter -> where it is
  worked,       \* kind -> did its worker run something in this round
  ran,          \* kind -> the work it ran, in order
  scheduled,    \* kind -> number of works scheduled
  owed,         \* callers of schedule_work that have not signalled yet
  irq,          \* the interrupt handler in schedule_work: "none", "lock", "behind", "signal"
  calls,        \* waiter -> calls made
  taken,        \* kind -> signals the other worker got since this one took its lock
  reports       \* waiter -> completions signalled since it looked at the queues

vars == <<queue, writer, readers, added, completed, pc, worked, ran, scheduled, owed, irq, calls, taken, reports>>

Init ==
  /\ queue = [k \in Kinds |-> <<>>]
  /\ writer = [k \in Kinds |-> FALSE]
  /\ readers = [k \in Kinds |-> {}]
  /\ added = [signals |-> 0, threads |-> <<>>]
  /\ completed = [signals |-> 0, threads |-> <<>>]
  /\ pc = [t \in Kinds \cup Waiters |-> IF t \in Kinds THEN "wait" ELSE "idle"]
  /\ worked = [k \in Kinds |-> FALSE]
  /\ ran = [k \in Kinds |-> <<>>]
  /\ scheduled = [k \in Kinds |-> 0]
  /\ owed = 0
  /\ irq = "none"
  /\ calls = [w \in Waiters |-> 0]
  /\ taken = [k \in Kinds |-> 0]
  /\ reports = [w \in Waiters |-> 0]

-----------------------------------------------------------------------------
(* lib::semaphore.                                                         *)

Asleep(t, s) == \E i \in DOMAIN s.threads : s.threads[i] = t
Down(s, t) ==
  [signals |-> s.signals - 1,
   threads |-> IF s.signals - 1 < 0 THEN Append(s.threads, t) ELSE s.threads]

\* A mutation: every signal is dropped when nobody waits.
BugUp(s, drop) ==
  IF s.threads = <<>> THEN s
  ELSE [signals |-> s.signals + 1, threads |-> Tail(s.threads)]

Up(s, drop) ==
  IF drop /\ s.threads = <<>> THEN s
  ELSE [signals |-> s.signals + 1,
        threads |-> IF s.signals + 1 <= 0 THEN Tail(s.threads) ELSE s.threads]

TakenBy(t) == [k \in Kinds |-> IF k = t THEN taken[k] ELSE taken[k] + 1]
Free(k) == ~writer[k] /\ readers[k] = {}

-----------------------------------------------------------------------------
(* uacpi_kernel_schedule_work(): the work is queued under the lock, then   *)
(* the signal is given without it.                                         *)

Enqueue(k) ==
  /\ scheduled[k] < MaxWork
  /\ Free(k)
  /\ scheduled' = [scheduled EXCEPT ![k] = @ + 1]
  /\ queue' = [queue EXCEPT ![k] = Append(@, scheduled[k] + 1)]
  /\ owed' = owed + 1
  /\ UNCHANGED <<writer, readers, added, completed, pc, worked, ran, calls, taken, reports>>
GiveSignal ==
  /\ owed > 0
  /\ owed' = owed - 1
  /\ added' = Up(added, FALSE)
  /\ taken' = IF added.threads = <<>> THEN taken ELSE TakenBy(Head(added.threads))
  /\ UNCHANGED <<queue, writer, readers, completed, pc, worked, ran, scheduled, calls, reports>>

\* By a thread.  The work that the handler has come with is within the bound.
Schedule(k) ==
  /\ k = "gpe" /\ irq = "lock" => scheduled[k] + 1 < MaxWork
  /\ Enqueue(k)
  /\ UNCHANGED irq
ScheduleSignal ==
  /\ irq = "signal" => owed > 1
  /\ GiveSignal
  /\ UNCHANGED irq

\* By the interrupt handler, which nothing on the boot CPU runs before.  It may
\* come when a thread there is inside the lock operation, with a ticket.
Runs(t) == t \in OnBsp => irq = "none"
AtDoor == \E t \in OnBsp : pc[t] = "gpe" \/ (t = "gpe" /\ pc[t] = "woken" /\ ~Asleep(t, added))
IrqEnter ==
  /\ irq = "none"
  /\ scheduled["gpe"] < MaxWork
  /\ irq' \in {"lock"} \cup (IF AtDoor THEN {"behind"} ELSE {})
  /\ UNCHANGED <<queue, writer, readers, added, completed, pc, worked, ran, scheduled, owed, calls, taken, reports>>
IrqQueue ==
  /\ irq = "lock"
  /\ Enqueue("gpe")
  /\ irq' = "signal"
IrqSignal ==
  /\ irq = "signal"
  /\ GiveSignal
  /\ irq' = "none"

-----------------------------------------------------------------------------
(* worker_caller().                                                        *)

WorkerWait(k) ==
  /\ Runs(k) /\ pc[k] = "wait"
  /\ added' = Down(added, k)
  /\ taken' = IF added.signals > 0 THEN TakenBy(k) ELSE taken
  /\ pc' = [pc EXCEPT ![k] = "woken"]
  /\ UNCHANGED <<queue, writer, readers, completed, worked, ran, scheduled, owed, irq, calls, reports>>

WorkerLock(k) ==
  /\ Runs(k) /\ pc[k] = "woken"
  /\ ~Asleep(k, added)
  /\ Free(k)
  /\ writer' = [writer EXCEPT ![k] = TRUE]
  /\ worked' = [worked EXCEPT ![k] = FALSE]
  /\ taken' = [taken EXCEPT ![k] = 0]
  /\ pc' = [pc EXCEPT ![k] = "drain"]
  /\ UNCHANGED <<queue, readers, added, completed, ran, scheduled, owed, irq, calls, reports>>

\* pop_front_element() and the handler, with the lock held.
WorkerRun(k) ==
  /\ Runs(k) /\ pc[k] = "drain"
  /\ queue[k] # <<>>
  /\ queue' = [queue EXCEPT ![k] = Tail(@)]
  /\ ran' = [ran EXCEPT ![k] = Append(@, Head(queue[k]))]
  /\ worked' = [worked EXCEPT ![k] = TRUE]
  /\ UNCHANGED <<writer, readers, added, completed, pc, scheduled, owed, irq, calls, taken, reports>>

\* A mutation: completion is signalled only to a thread that already waits.
BugAfterDrain(k) == IF worked[k] /\ completed.threads # <<>> THEN "signal" ELSE "wait"

AfterDrain(k) == IF worked[k] THEN "signal" ELSE "wait"
WorkerUnlock(k) ==
  /\ Runs(k) /\ pc[k] = "drain"
  /\ queue[k] = <<>>
  /\ writer' = [writer EXCEPT ![k] = FALSE]
  /\ pc' = [pc EXCEPT ![k] = AfterDrain(k)]
  /\ UNCHANGED <<queue, readers, added, completed, worked, ran, scheduled, owed, irq, calls, taken, reports>>

\* completed.signal(true): forgotten when nobody waits.
WorkerSignal(k) ==
  /\ Runs(k) /\ pc[k] = "signal"
  /\ completed' = Up(completed, TRUE)
  /\ reports' = [w \in Waiters |-> reports[w] + 1]
  /\ pc' = [pc EXCEPT ![k] = "wait"]
  /\ UNCHANGED <<queue, writer, readers, added, worked, ran, scheduled, owed, irq, calls, taken>>

-----------------------------------------------------------------------------
(* uacpi_kernel_wait_for_work_completion(): is_empty() holds both locks    *)
(* when it looks, and none when the caller goes to sleep.                  *)

ReadNotify(w) ==
  /\ Runs(w) /\ pc[w] = "idle"
  /\ calls[w] < MaxCalls
  /\ ~writer["notify"]
  /\ readers' = [readers EXCEPT !["notify"] = @ \cup {w}]
  /\ pc' = [pc EXCEPT ![w] = "gpe"]
  /\ UNCHANGED <<queue, writer, added, completed, worked, ran, scheduled, owed, irq, calls, taken, reports>>
ReadGpe(w) ==
  /\ Runs(w) /\ pc[w] = "gpe"
  /\ ~writer["gpe"]
  /\ readers' = [readers EXCEPT !["gpe"] = @ \cup {w}]
  /\ pc' = [pc EXCEPT ![w] = "look"]
  /\ UNCHANGED <<queue, writer, added, completed, worked, ran, scheduled, owed, irq, calls, taken, reports>>

\* A mutation: is_empty() keeps its read share of the second queue.
BugLooked(w) == [readers EXCEPT !["notify"] = @ \ {w}]

Looked(w) == [k \in Kinds |-> readers[k] \ {w}]
IsEmpty(w) ==
  /\ Runs(w) /\ pc[w] = "look"
  /\ readers' = Looked(w)
  /\ pc' = [pc EXCEPT ![w] = IF \A k \in Kinds : queue[k] = <<>> THEN "return" ELSE "sleep"]
  /\ reports' = [reports EXCEPT ![w] = 0]
  /\ UNCHANGED <<queue, writer, added, completed, worked, ran, scheduled, owed, irq, calls, taken>>

CompletedWait(w) ==
  /\ Runs(w) /\ pc[w] = "sleep"
  /\ completed' = Down(completed, w)
  /\ pc' = [pc EXCEPT ![w] = "return"]
  /\ UNCHANGED <<queue, writer, readers, added, worked, ran, scheduled, owed, irq, calls, taken, reports>>

Return(w) ==
  /\ Runs(w) /\ pc[w] = "return"
  /\ ~Asleep(w, completed)
  /\ calls' = [calls EXCEPT ![w] = @ + 1]
  /\ pc' = [pc EXCEPT ![w] = "idle"]
  /\ UNCHANGED <<queue, writer, readers, added, completed, worked, ran, scheduled, owed, irq, taken, reports>>

Next ==
  \/ ScheduleSignal
  \/ IrqEnter \/ IrqQueue \/ IrqSignal
  \/ \E k \in Kinds : \/ Schedule(k)
                      \/ WorkerWait(k) \/ WorkerLock(k) \/ WorkerRun(k) \/ WorkerUnlock(k) \/ WorkerSignal(k)
  \/ \E w \in Waiters : ReadNotify(w) \/ ReadGpe(w) \/ IsEmpty(w) \/ CompletedWait(w) \/ Return(w)

\* Every thread that can run is scheduled again and again; nobody is obliged to
\* schedule work or to call.  A CPU that spins on a queue lock is served in the
\* order of the tickets: it cannot be passed over for ever when the lock is
\* free again and again.
Fairness ==
  /\ WF_vars(ScheduleSignal) /\ WF_vars(IrqSignal) /\ SF_vars(IrqQueue)
  /\ \A k \in Kinds : /\ WF_vars(WorkerWait(k) \/ WorkerRun(k) \/ WorkerUnlock(k) \/ WorkerSignal(k))
                      /\ SF_vars(WorkerLock(k))
  /\ \A w \in Waiters : WF_vars(IsEmpty(w) \/ CompletedWait(w) \/ Return(w)) /\ SF_vars(ReadGpe(w))

Spec == Init /\ [][Next]_vars /\ Fairness

-----------------------------------------------------------------------------
(* Properties.                                                             *)

TypeOK ==
  /\ \A k \in Kinds : writer[k] \in BOOLEAN /\ worked[k] \in BOOLEAN /\ readers[k] \subseteq Waiters
  /\ added.signals \in Int /\ completed.signals \in Int
  /\ owed \in Nat
  /\ irq \in {"none", "lock", "behind", "signal"}

\* Nothing but the callers of schedule_work can move the queues any more.
Quiet == owed = 0 /\ \A k \in Kinds : Asleep(k, added)

\* Work runs once, in the order it was scheduled.  It stays in a queue whose
\* worker sleeps only for one reason: for each piece left, the worker of the
\* other kind was woken in its place.
StrandedOnlyByOther ==
  /\ TypeOK
  /\ \A k \in Kinds :
       /\ ran[k] \o queue[k] = [i \in 1..scheduled[k] |-> i]
       /\ Quiet => taken[k] >= Len(queue[k])

\* A caller that waits for completion when all work is done missed the report:
\* it was given between its look at the queues and its sleep, or to another.
\* It never waits for work that ended before it looked.
HangsOnlyAfterReport ==
  \A w \in Waiters :
    Quiet /\ Asleep(w, completed) /\ (\A k \in Kinds : queue[k] = <<>>) => reports[w] > 0

\* The interrupt handler spins for a lock that a thread it interrupted holds, or
\* has the next ticket for.
Stuck ==
  \/ irq = "behind"
  \/ irq = "lock" /\ (readers["gpe"] \cap OnBsp # {} \/ (writer["gpe"] /\ "gpe" \in OnBsp))

\* With the workers scheduled fairly, work whose worker is awake is run, or the
\* boot CPU is stuck: the callers of is_empty() never keep both workers from
\* their queues, and the interrupt handler stops them only by spinning on its
\* own CPU for the lock of the gpe queue, which does not switch interrupts off.
AwakeWorkerRuns ==
  \A k \in Kinds : (pc[k] = "woken" /\ ~Asleep(k, added) /\ queue[k] # <<>>) ~> (queue[k] = <<>> \/ Stuck)
=============================================================================
