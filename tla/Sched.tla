------------------------------- MODULE Sched --------------------------------
(***************************************************************************)
(* The scheduler (system/scheduler.cpp): per-CPU run queue and sleep       *)
(* queue, schedule() in the timer/IPI handler, prepare_sleep, yield,       *)
(* wake_up, the sleeper and reaper threads, spawn, and signals given by    *)
(* threads and by interrupt handlers.                                      *)
(*                                                                         *)
(* What runs where: a CPU executes its running thread (schedPc "run"),     *)
(* schedule() ("switch") or an interrupt handler that signals ("handler"), *)
(* the boot CPU only. schedule() runs with interrupts off, so it is cut    *)
(* only where another CPU can step in: it picks the next thread and        *)
(* releases the sleep_lock of the current one (Interrupt), and later tests *)
(* the status of the current one again and switches (Switch). A thread's   *)
(* code runs with interrupts on unless its pc says otherwise:              *)
(*   new         not created yet                                           *)
(*   run         executing                                                 *)
(*   yielding    in yield(), interrupts on, the reschedule IPI on its way  *)
(*   signalling  in semaphore::signal(), before wake_up(), interrupts on   *)
(*   waking      in wake_up() of another thread, interrupts off            *)
(*   dozing      the reaper has set its status to sleeping, interrupts on  *)
(*   linking     the reaper inserts itself, interrupts on                  *)
(*                                                                         *)
(* vruntime matters only by comparison, so it is kept relative: the lowest *)
(* vruntime of the threads that compete for a CPU is MaxLag, and a thread  *)
(* that sleeps falls behind to at most 0. sleep_until is kept as the time  *)
(* left. Nothing in the repository ever kills a thread: the list of dead   *)
(* threads is empty, and a reaper goes to sleep once and for all.          *)
(***************************************************************************)
EXTENDS Integers, Sequences, FiniteSets, SequencesExt

CONSTANTS
    Cpus,
    Workers,      \* the threads spawned by the rest of the kernel
    Bsp,          \* the boot CPU, which all interrupt lines lead to
    Sleeper,      \* [Cpus -> thread]: the thread that runs sleeper() there
    Reaper,       \* [Cpus -> thread]: the thread that runs reaper() there
    Idle,         \* stands for the idle thread of any CPU
    MaxLag,       \* bound on how far a thread's vruntime lags behind
    MaxRun,       \* bound on the vruntime added by one schedule()
    MaxSleep      \* bound on the argument of sleep_for

ASSUME SleeperPerCpu ==
    /\ \A c, d \in Cpus : Sleeper[c] = Sleeper[d] => c = d
    /\ \A c \in Cpus : Sleeper[c] \notin Workers
ASSUME ReaperPerCpu ==
    /\ \A c, d \in Cpus : Reaper[c] = Reaper[d] => c = d
    /\ \A c, d \in Cpus : Reaper[c] # Sleeper[d] /\ Reaper[c] \notin Workers
ASSUME IdleApart == Idle \notin Workers /\ \A c \in Cpus : Sleeper[c] # Idle /\ Reaper[c] # Idle
ASSUME BspIsCpu == Bsp \in Cpus
ASSUME Bounds == MaxLag \in Nat /\ MaxRun \in Nat \ {0} /\ MaxSleep \in Nat \ {0}

\* A sleeper never sleeps: it yields when there is nothing to do.
MaySleep == Workers \union {Reaper[c] : c \in Cpus}
Threads == MaySleep \union {Sleeper[c] : c \in Cpus}

VARIABLES
    status,      \* thread::status
    home,        \* the CPU the thread was enqueued on: threads do not migrate
    runq,        \* percpu::queue in order of vruntime, per CPU
    sleepq,      \* percpu::sleep_queue in order of sleep_until, per CPU
    running,     \* percpu::running_thread
    schedPc,     \* where the CPU is in schedule()
    pick,        \* the local `next` of schedule(), Idle for nullptr
    vruntime,    \* thread::vruntime
    until,       \* thread::sleep_until: time left, or NoTimeout
    sleepLock,   \* thread::sleep_lock is held
    listed,      \* threads in the list of a semaphore, waiting for a signal
    target,      \* the thread that a thread has signalled and is to wake, else Idle
    irqTarget,   \* the same of the interrupt handler on the boot CPU
    pc,
    torn,        \* a sleep queue was left half linked: what follows is undefined
    panicked     \* lib::panic was reached

vars == <<status, home, runq, sleepq, running, schedPc, pick, vruntime, until,
          sleepLock, listed, target, irqTarget, pc, torn, panicked>>

NoTimeout == -1

Places == {"new", "run", "yielding", "signalling", "waking", "dozing", "linking"}
TypeOK ==
    /\ status \in [Threads -> {"not_ready", "ready", "running", "sleeping"}]
    /\ home \in [Threads -> Cpus]
    /\ \A c \in Cpus : Range(runq[c]) \subseteq Threads
    /\ \A c \in Cpus : Range(sleepq[c]) \subseteq MaySleep
    /\ running \in [Cpus -> Threads \union {Idle}]
    /\ schedPc \in [Cpus -> {"run", "switch", "handler"}]
    /\ pick \in [Cpus -> Threads \union {Idle}]
    /\ vruntime \in [Threads -> Nat]
    /\ until \in [Threads -> {NoTimeout} \union 0..MaxSleep]
    /\ sleepLock \in [Threads -> BOOLEAN]
    /\ listed \subseteq Workers
    /\ target \in [Threads -> Threads \union {Idle}]
    /\ irqTarget \in Threads \union {Idle}
    /\ pc \in [Threads -> Places]
    /\ torn \in BOOLEAN /\ panicked \in BOOLEAN

-----------------------------------------------------------------------------
(* Mutations: plausible bugs in the definitions below. Next does not use   *)
(* them.                                                                   *)

\* schedule() does not charge the current thread for the time it ran.
BugCharged(cur, d) == vruntime

\* wake_up() returns without changing the status.
BugWoken(t) == status

\* sleeper() only looks for threads that wake_up() made ready.
BugDue(t) == status[t] = "ready"

\* yield() does not enter the thread in the sleep queue when it has no timeout.
BugAsleepIn(q, t, ms) == IF ms = NoTimeout THEN q ELSE InsertAt(q, 1, t)
-----------------------------------------------------------------------------
\* rbtree::insert: behind every node whose key is not greater.
InsertBy(q, t, key) ==
    InsertAt(q, 1 + Cardinality({i \in 1..Len(q) : key[q[i]] <= key[t]}), t)

Least(S) == CHOOSE m \in S : \A n \in S : m <= n

\* The vruntimes of the threads of CPU c, shifted so that the lowest one that
\* competes for the CPU (queue rq and running thread r) is MaxLag again.
Rebase(v, c, rq, r) ==
    LET competing == Range(rq) \union ({r} \ {Idle})
        low == Least({v[t] : t \in competing})
        shifted(t) == v[t] - low + MaxLag
    IN  IF competing = {} THEN v
        ELSE [t \in Threads |->
                IF home[t] # c THEN v[t]
                ELSE IF shifted(t) < 0 THEN 0 ELSE shifted(t)]

\* prepare_sleep and yield: when the timeout is over, and the sleep queue.
Deadline(ms) == ms
AsleepIn(q, t, ms) == InsertBy(q, t, [until EXCEPT ![t] = Deadline(ms)])

\* What wake_up does to the status of t, under its sleep_lock.
Woken(t) == IF status[t] = "sleeping" THEN [status EXCEPT ![t] = "ready"] ELSE status

\* The sleeper moves t to the run queue: it was woken, or its time is over.
Due(t) == IF until[t] = NoTimeout THEN status[t] = "ready" ELSE until[t] = 0

\* schedule(): a current thread that sleeps has its sleep_lock released, and
\* any other one goes back to the run queue.
SleepLockLeft(cur) ==
    IF cur # Idle /\ status[cur] = "sleeping"
       THEN [sleepLock EXCEPT ![cur] = FALSE] ELSE sleepLock
Requeued(cur, next) == cur # Idle /\ next # cur /\ status[cur] # "sleeping"

\* schedule(): the current thread is charged for the time it ran.
Charged(cur, d) == IF cur = Idle THEN vruntime ELSE [vruntime EXCEPT ![cur] = @ + d]

\* start() on every CPU, with the kernel's first thread spawned before.
Init ==
    \E w \in Workers, h \in [Workers -> Cpus] :
        LET boot(c) == (IF h[w] = c THEN <<w>> ELSE <<>>) \o <<Reaper[c], Sleeper[c]>>
            alive == {w} \union (Threads \ Workers)
        IN  /\ home = [t \in Threads |->
                         IF t \in Workers THEN h[t]
                         ELSE CHOOSE c \in Cpus : t \in {Sleeper[c], Reaper[c]}]
            /\ status = [t \in Threads |-> IF t \in alive THEN "ready" ELSE "not_ready"]
            /\ pc = [t \in Threads |-> IF t \in alive THEN "run" ELSE "new"]
            /\ runq = [c \in Cpus |-> boot(c)]
            /\ sleepq = [c \in Cpus |-> <<>>]
            /\ running = [c \in Cpus |-> Idle]
            /\ schedPc = [c \in Cpus |-> "run"]
            /\ pick = [c \in Cpus |-> Idle]
            /\ vruntime = [t \in Threads |-> IF t \in alive THEN MaxLag ELSE 0]
            /\ until = [t \in Threads |-> NoTimeout]
            /\ sleepLock = [t \in Threads |-> FALSE]
            /\ listed = {}
            /\ target = [t \in Threads |-> Idle]
            /\ irqTarget = Idle
            /\ torn = FALSE
            /\ panicked = FALSE

\* Thread t is at p of its own code on CPU c.
Up == ~panicked /\ ~torn
At(t, c, p) ==
    /\ running[c] = t
    /\ schedPc[c] = "run"
    /\ pc[t] = p
    /\ Up
Executes(t, c) == At(t, c, "run")

\* CPU c can be interrupted.
InterruptsOn(c) ==
    /\ schedPc[c] = "run"
    /\ running[c] # Idle => pc[running[c]] # "waking"
    /\ Up

-----------------------------------------------------------------------------
\* spawn(), or spawn_on(), of a thread on CPU c (home is where it will be).
Spawn(u, d, t) ==
    LET c == home[t]
        v == [vruntime EXCEPT ![t] = 0]
    IN  /\ Executes(u, d)
        /\ u \in Workers
        /\ pc[t] = "new"
        /\ pc' = [pc EXCEPT ![t] = "run"]
        /\ status' = [status EXCEPT ![t] = "ready"]
        /\ runq' = [runq EXCEPT ![c] = InsertBy(@, t, v)]
        /\ vruntime' = Rebase(v, c, runq'[c], running[c])
        /\ UNCHANGED <<home, sleepq, running, schedPc, pick, until, sleepLock,
                       listed, target, irqTarget, torn, panicked>>

\* prepare_sleep() and yield() up to the point where interrupts are on again:
\* the caller is in the sleep queue and holds its own sleep_lock. ms is the
\* timeout of sleep_for, or NoTimeout when a semaphore puts it to sleep.
Sleep(t, c, ms) ==
    /\ Executes(t, c)
    /\ t \in Workers
    /\ ~sleepLock[t]
    /\ sleepLock' = [sleepLock EXCEPT ![t] = TRUE]
    /\ status' = [status EXCEPT ![t] = "sleeping"]
    /\ until' = [until EXCEPT ![t] = Deadline(ms)]
    /\ sleepq' = [sleepq EXCEPT ![c] = AsleepIn(@, t, ms)]
    /\ listed' = IF ms = NoTimeout THEN listed \union {t} ELSE listed
    /\ pc' = [pc EXCEPT ![t] = "yielding"]
    /\ UNCHANGED <<home, runq, running, schedPc, pick, vruntime, target, irqTarget, torn, panicked>>

\* semaphore::signal takes a thread off its list with interrupts off, switches
\* them on again, and calls wake_up on it.
Signal(u, c, t) ==
    /\ Executes(u, c)
    /\ u \in Workers
    /\ t \in listed
    /\ listed' = listed \ {t}
    /\ target' = [target EXCEPT ![u] = t]
    /\ pc' = [pc EXCEPT ![u] = "signalling"]
    /\ UNCHANGED <<home, status, runq, sleepq, running, schedPc, pick, vruntime,
                   until, sleepLock, irqTarget, torn, panicked>>

\* wake_up(): interrupts go off, and the target's sleep_lock is taken.
EnterWakeUp(u) ==
    /\ At(u, home[u], "signalling")
    /\ pc' = [pc EXCEPT ![u] = "waking"]
    /\ UNCHANGED <<home, status, runq, sleepq, running, schedPc, pick, vruntime,
                   until, sleepLock, listed, target, irqTarget, torn, panicked>>
WakeUp(u) ==
    LET t == target[u]
    IN  /\ pc[u] = "waking"
        /\ Up
        /\ ~sleepLock[t]
        /\ status' = Woken(t)
        /\ target' = [target EXCEPT ![u] = Idle]
        /\ pc' = [pc EXCEPT ![u] = "run"]
        /\ UNCHANGED <<home, runq, sleepq, running, schedPc, pick, vruntime,
                       until, sleepLock, listed, irqTarget, torn, panicked>>

\* The same in an interrupt handler, with interrupts off throughout.
HandlerSignal(t) ==
    /\ InterruptsOn(Bsp)
    /\ t \in listed
    /\ listed' = listed \ {t}
    /\ irqTarget' = t
    /\ schedPc' = [schedPc EXCEPT ![Bsp] = "handler"]
    /\ UNCHANGED <<home, status, runq, sleepq, running, pick, vruntime,
                   until, sleepLock, target, pc, torn, panicked>>
HandlerWakeUp ==
    /\ schedPc[Bsp] = "handler"
    /\ Up
    /\ ~sleepLock[irqTarget]
    /\ status' = Woken(irqTarget)
    /\ irqTarget' = Idle
    /\ schedPc' = [schedPc EXCEPT ![Bsp] = "run"]
    /\ UNCHANGED <<home, runq, sleepq, running, pick, vruntime,
                   until, sleepLock, listed, target, pc, torn, panicked>>

-----------------------------------------------------------------------------
\* The loop of sleeper() over the sleep queue q: after n nodes, the threads
\* that stay asleep and the run queue rq with the others inserted.
Swept(q, rq, key) ==
    LET after[n \in 0..Len(q)] ==
          CASE n = 0 -> [asleep |-> <<>>, queue |-> rq]
            [] n > 0 /\ Due(q[n]) -> [after[n - 1] EXCEPT !.queue = InsertBy(@, q[n], key)]
            [] OTHER -> [after[n - 1] EXCEPT !.asleep = Append(@, q[n])]
    IN  after[Len(q)]

\* One round of sleeper() on CPU c, with preemption disabled: every thread
\* that was woken or whose time is over moves to the run queue, in the order
\* of the sleep queue; then the sleeper yields.
SleeperRound(c) ==
    LET q == sleepq[c]
        timed == {t \in Range(q) : Due(t) /\ until[t] # NoTimeout}
        \* begin->vruntime: begin is the first node of the sleep queue
        v == [t \in Threads |-> IF t \in timed THEN vruntime[q[1]] ELSE vruntime[t]]
        after == Swept(q, runq[c], v)
    IN  /\ Executes(Sleeper[c], c)
        /\ IF \E t \in Range(q) : until[t] = NoTimeout /\ status[t] = "running"
              THEN /\ panicked' = TRUE
                   /\ UNCHANGED <<status, runq, sleepq, vruntime, until, pc>>
              ELSE /\ sleepq' = [sleepq EXCEPT ![c] = after.asleep]
                   /\ runq' = [runq EXCEPT ![c] = after.queue]
                   /\ status' = [t \in Threads |-> IF t \in timed THEN "ready" ELSE status[t]]
                   /\ until' = [t \in Threads |-> IF t \in timed THEN NoTimeout ELSE until[t]]
                   /\ vruntime' = Rebase(v, c, runq'[c], running[c])
                   /\ pc' = [pc EXCEPT ![Sleeper[c]] = "yielding"]
                   /\ UNCHANGED panicked
        /\ UNCHANGED <<home, running, schedPc, pick, sleepLock, listed, target, irqTarget, torn>>

\* reaper(), which finds nobody dead: its status is set without prepare_sleep(),
\* so that yield() enters it in the sleep queue with interrupts on.
ReaperDoze(c) ==
    /\ Executes(Reaper[c], c)
    /\ status' = [status EXCEPT ![Reaper[c]] = "sleeping"]
    /\ pc' = [pc EXCEPT ![Reaper[c]] = "dozing"]
    /\ UNCHANGED <<home, runq, sleepq, running, schedPc, pick, vruntime, until,
                   sleepLock, listed, target, irqTarget, torn, panicked>>
ReaperLink(c) ==
    /\ At(Reaper[c], c, "dozing")
    /\ pc' = [pc EXCEPT ![Reaper[c]] = "linking"]
    /\ UNCHANGED <<home, status, runq, sleepq, running, schedPc, pick, vruntime, until,
                   sleepLock, listed, target, irqTarget, torn, panicked>>
ReaperInsert(c) ==
    /\ At(Reaper[c], c, "linking")
    /\ sleepq' = [sleepq EXCEPT ![c] = AsleepIn(@, Reaper[c], NoTimeout)]
    /\ pc' = [pc EXCEPT ![Reaper[c]] = "yielding"]
    /\ UNCHANGED <<home, status, runq, running, schedPc, pick, vruntime, until,
                   sleepLock, listed, target, irqTarget, torn, panicked>>

-----------------------------------------------------------------------------
\* schedule(), first part: the timer or the IPI arrives while interrupts are
\* on, the first ready thread leaves the run queue, and a current thread that
\* went to sleep has its sleep_lock released for it. (A reaper holds none, and
\* the release does nothing.) A reaper in the middle of its insertion never
\* comes back to end it.
Interrupt(c) ==
    LET cur == running[c]
        q == runq[c]
        next == IF q # <<>> THEN Head(q)
                ELSE IF cur # Idle /\ status[cur] = "running" THEN cur ELSE Idle
    IN  /\ InterruptsOn(c)
        /\ torn' = (cur # Idle /\ pc[cur] = "linking")
        /\ IF q # <<>> /\ status[Head(q)] \in {"sleeping", "running"}
              THEN /\ panicked' = TRUE
                   /\ UNCHANGED <<runq, pick, sleepLock, schedPc>>
              ELSE /\ runq' = [runq EXCEPT ![c] = IF q = <<>> THEN q ELSE Tail(q)]
                   /\ pick' = [pick EXCEPT ![c] = next]
                   /\ sleepLock' = SleepLockLeft(cur)
                   /\ schedPc' = [schedPc EXCEPT ![c] = "switch"]
                   /\ UNCHANGED panicked
        /\ UNCHANGED <<home, status, sleepq, running, vruntime, until, listed, target, irqTarget, pc>>

\* schedule(), second part: charge the current thread, put it back into the
\* run queue unless it sleeps, and switch.
Switch(c, d) ==
    LET cur == running[c]
        next == pick[c]
        v == Charged(cur, d)
        back == Requeued(cur, next)
    IN  /\ schedPc[c] = "switch"
        /\ Up
        /\ runq' = IF back THEN [runq EXCEPT ![c] = InsertBy(@, cur, v)] ELSE runq
        /\ status' = [t \in Threads |->
                        IF t = next THEN "running"
                        ELSE IF t = cur /\ back THEN "ready" ELSE status[t]]
        /\ running' = [running EXCEPT ![c] = next]
        /\ vruntime' = Rebase(v, c, runq'[c], next)
        /\ pc' = [t \in Threads |->
                    IF t = next /\ pc[t] = "yielding" THEN "run" ELSE pc[t]]
        /\ schedPc' = [schedPc EXCEPT ![c] = "run"]
        /\ pick' = [pick EXCEPT ![c] = Idle]
        /\ UNCHANGED <<home, sleepq, until, sleepLock, listed, target, irqTarget, torn, panicked>>

\* The clock advances.
Clock ==
    /\ Up
    /\ until' = [t \in Threads |-> IF until[t] > 0 THEN until[t] - 1 ELSE until[t]]
    /\ until' # until
    /\ UNCHANGED <<home, status, runq, sleepq, running, schedPc, pick, vruntime,
                   sleepLock, listed, target, irqTarget, pc, torn, panicked>>

Next ==
    \/ \E c \in Cpus :
         \/ Interrupt(c)
         \/ \E d \in 1..MaxRun : Switch(c, d)
         \/ SleeperRound(c)
         \/ ReaperDoze(c) \/ ReaperLink(c) \/ ReaperInsert(c)
         \/ \E t \in Workers, ms \in {NoTimeout} \union 1..MaxSleep : Sleep(t, c, ms)
         \/ \E u, t \in Workers : Signal(u, c, t) \/ Spawn(u, c, t)
    \/ \E u \in Workers : EnterWakeUp(u) \/ WakeUp(u) \/ HandlerSignal(u)
    \/ HandlerWakeUp
    \/ Clock

Spec == Init /\ [][Next]_vars

(***************************************************************************)
(* Fairness. schedule() re-arms the timer every time, so each CPU keeps    *)
(* being interrupted, and a handler goes on as far as it can. A thread in  *)
(* wake_up() has interrupts off and goes on. The sleeper may be preempted  *)
(* before it starts a round, and a thread between signal() and wake_up(),  *)
(* but a time slice is longer than the way to disable() and to wake_up(),  *)
(* so when they are scheduled again and again they get there (strong       *)
(* fairness). The clock does not stop. What workers call is up to them.    *)
(***************************************************************************)
Fairness ==
    /\ \A c \in Cpus :
         /\ WF_vars(Interrupt(c))
         /\ WF_vars(\E d \in 1..MaxRun : Switch(c, d))
         /\ SF_vars(SleeperRound(c))
    /\ \A u \in Workers : SF_vars(EnterWakeUp(u)) /\ WF_vars(WakeUp(u))
    /\ WF_vars(HandlerWakeUp)
    /\ WF_vars(Clock)

FairSpec == Spec /\ Fairness

-----------------------------------------------------------------------------
\* How often t stands in q.
Times(q, t) == Cardinality({i \in 1..Len(q) : q[i] = t})

(***************************************************************************)
(* No panic of schedule(), "found a {} thread in scheduler queue", and of  *)
(* sleeper(), "found a running thread in sleep queue", is ever reached.    *)
(* Holds on one CPU; the run with two CPUs shows how it fails there.       *)
(***************************************************************************)
NoSchedulerPanic == ~panicked

(***************************************************************************)
(* A thread is never lost and never in two places: one that does not run   *)
(* stands exactly once in exactly one of the run queue, the sleep queue    *)
(* and the hands of schedule(), and one that runs in none of them. Both    *)
(* queues link threads through the same rbtree_hook, so a second insertion *)
(* would corrupt them. The one exception is a reaper between its setting   *)
(* of its status (line 486) and the end of its insertion (line 410): it is *)
(* in no place, and an interrupt there leaves it so for ever.              *)
(***************************************************************************)
InOnePlace ==
    \A t \in Threads : pc[t] # "new" =>
        LET c == home[t]
        IN  Times(runq[c], t) + Times(sleepq[c], t)
              + (IF pick[c] = t /\ running[c] # t THEN 1 ELSE 0)
              = IF status[t] = "running" \/ pc[t] \in {"dozing", "linking"} THEN 0 ELSE 1

(***************************************************************************)
(* A held sleep_lock belongs to a thread that is still on its CPU on the   *)
(* way to sleep, so schedule() will release it and a wake_up() that spins  *)
(* on it with interrupts off does not spin forever, unless it is in an     *)
(* interrupt handler on that very CPU (SelfDeadlock).                      *)
(***************************************************************************)
SleepLockOnWayOut ==
    \A t \in Threads : sleepLock[t] =>
        /\ running[home[t]] = t
        /\ status[t] = "sleeping"
        /\ schedPc[home[t]] # "switch"

(***************************************************************************)
(* On one CPU no thread but an interrupted reaper is lost, and none linked *)
(* twice or left holding its sleep_lock, so that no panic of the scheduler *)
(* is reached.                                                             *)
(***************************************************************************)
SchedSafe == TypeOK /\ NoSchedulerPanic /\ InOnePlace /\ SleepLockOnWayOut

(***************************************************************************)
(* What stops the scheduler: an interrupt handler that wakes the very      *)
(* thread it interrupted in yield() (after line 413) and spins for ever on *)
(* its sleep_lock, or a sleep queue that an interrupted reaper left half   *)
(* linked.                                                                 *)
(***************************************************************************)
SelfDeadlock ==
    schedPc[Bsp] = "handler" /\ sleepLock[irqTarget] /\ running[Bsp] = irqTarget
Stopped == torn \/ SelfDeadlock

(***************************************************************************)
(* Every thread in a run queue is eventually run, unless the scheduler     *)
(* stops: vruntime order starves nobody, although sleepers come back with  *)
(* an old vruntime.                                                        *)
(***************************************************************************)
ReadyThreadRuns ==
    \A t \in Threads : t \in Range(runq[home[t]]) ~> (status[t] = "running" \/ Stopped)

(***************************************************************************)
(* A thread that a semaphore signals, from a thread that can be preempted  *)
(* before wake_up() or from an interrupt handler, is eventually run, and   *)
(* so is a thread in sleep_for, unless the scheduler stops.                *)
(***************************************************************************)
SignalledThreadRuns ==
    \A t \in Workers :
        (irqTarget = t \/ \E u \in Workers : target[u] = t) ~> (status[t] = "running" \/ Stopped)
TimedSleepEnds ==
    \A t \in Workers : until[t] # NoTimeout ~> (status[t] = "running" \/ Stopped)
=============================================================================
