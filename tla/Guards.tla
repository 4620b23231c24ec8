------------------------------- MODULE Guards -------------------------------
(***************************************************************************)
(* The two spinlocks that keep interrupts or the scheduler away from their *)
(* holder: spinlock_irq and spinlock_preempt of lib/spinlock.cppm, with    *)
(* lib/lock.cpp around them.                                               *)
(*                                                                         *)
(* The ticket lock inside is taken as the FIFO queue it implements (module *)
(* TicketLock).  Its users are the threads of a CPU and what interrupts    *)
(* them: a device handler that takes the same spinlock_irq, as the ACPI    *)
(* interrupt does with the locks of uACPI, or schedule() itself, which     *)
(* takes the spinlock_preempt of its run queue.  A thread may be preempted *)
(* between any two steps while interrupts are on.                          *)
(***************************************************************************)
EXTENDS Integers, FiniteSets, Sequences

CONSTANTS
  Kind,         \* lock_type of the lock: "irq" or "preempt"
  Cpus,
  Threads,
  Home,         \* the CPU a thread lives on
  QueueCpu      \* the CPU whose schedule() takes the lock, if Kind is "preempt"

GuardsAssumption ==
  /\ Kind \in {"irq", "preempt"}
  /\ Home \in [Threads -> Cpus] /\ QueueCpu \in Cpus
  /\ Cpus \cap Threads = {}

VARIABLES
  running,      \* percpu::running_thread
  ints,         \* the interrupt flag of each CPU
  irq_depth,    \* lib::lock::irq_depth of each CPU
  preemption,   \* percpu::preemption
  interrupts,   \* spinlock_irq::_interrupts, one for all that use the lock
  queue,        \* who holds the lock and who waits for it
  saved,        \* the flag that a context has in hand
  pc,           \* what a thread, or the interrupt handler of a CPU, is about to do
  raced,        \* history: CPUs where a thread was preempted between count and cli
  overwritten   \* history: CPUs where another CPU changed the flag a thread saved

lockvars == <<interrupts, queue>>
cpuvars == <<running, ints, irq_depth, preemption>>
vars == <<running, ints, irq_depth, preemption, interrupts, queue, saved, pc, raced, overwritten>>

\* The handler of a CPU goes by the name of the CPU.
CpuOf(x) == IF x \in Cpus THEN x ELSE Home[x]
InInterrupt(c) == pc[c] # "idle"
Executes(x) == IF x \in Cpus THEN InInterrupt(x) ELSE running[Home[x]] = x /\ ~InInterrupt(Home[x])

Init ==
  /\ running \in {r \in [Cpus -> Threads] : \A c \in Cpus : Home[r[c]] = c}
  /\ ints = [c \in Cpus |-> TRUE]
  /\ irq_depth = [c \in Cpus |-> 0]
  /\ preemption = [c \in Cpus |-> 0]
  /\ interrupts = FALSE
  /\ queue = <<>>
  /\ saved = [x \in Threads \cup Cpus |-> FALSE]
  /\ pc = [x \in Threads \cup Cpus |-> "idle"]
  /\ raced = {}
  /\ overwritten = {}

From(x, l, m) == Executes(x) /\ pc[x] = l /\ pc' = [pc EXCEPT ![x] = m]

-----------------------------------------------------------------------------
(* The lock inside, for both kinds.                                        *)

Draw(x) ==
  /\ From(x, "draw", "wait")
  /\ queue' = Append(queue, x)
  /\ UNCHANGED <<cpuvars, interrupts, saved, raced, overwritten>>

Served(x) ==
  /\ From(x, "wait", IF Kind = "preempt" /\ x \in Threads THEN "disable" ELSE "held")
  /\ Head(queue) = x
  /\ UNCHANGED <<cpuvars, lockvars, saved, raced, overwritten>>

Unlock(x) ==
  /\ From(x, "held", IF x \in Cpus THEN "return" ELSE IF Kind = "irq" THEN "load" ELSE "enable")
  /\ queue' = Tail(queue)
  /\ UNCHANGED <<cpuvars, interrupts, saved, raced, overwritten>>

-----------------------------------------------------------------------------
(* spinlock_irq::lock().                                                   *)

\* acquire_irq(): int_status(), and not in an interrupt.
Status(t) ==
  /\ Kind = "irq"
  /\ From(t, "idle", "count")
  /\ saved' = [saved EXCEPT ![t] = ints[Home[t]]]
  /\ UNCHANGED <<cpuvars, lockvars, raced, overwritten>>

\* A mutation: interrupts are switched off by the second guard, not the first.
BugFirst(c) == irq_depth[c] = 1

\* Only the first one to count switches interrupts off, in a step of its own.
First(c) == irq_depth[c] = 0
Count(t) ==
  /\ From(t, "count", IF First(Home[t]) THEN "cli" ELSE "store")
  /\ irq_depth' = [irq_depth EXCEPT ![Home[t]] = @ + 1]
  /\ UNCHANGED <<running, ints, preemption, lockvars, saved, raced, overwritten>>

SwitchOff(t) ==
  /\ From(t, "cli", "store")
  /\ ints' = [ints EXCEPT ![Home[t]] = FALSE]
  /\ UNCHANGED <<running, irq_depth, preemption, lockvars, saved, raced, overwritten>>

\* _interrupts is written before the lock is taken.
Store(x) ==
  LET saving == {t \in Threads : pc[t] \in {"draw", "wait", "held", "load"}}
  IN  /\ From(x, "store", "draw")
      /\ interrupts' = saved[x]
      /\ overwritten' = IF interrupts = saved[x] THEN overwritten
                        ELSE overwritten \cup ({Home[t] : t \in saving} \ {CpuOf(x)})
      /\ UNCHANGED <<cpuvars, queue, saved, raced>>

(* spinlock_irq::unlock(), after the lock inside is free: release_irq().   *)
Load(t) ==
  /\ From(t, "load", "sub")
  /\ saved' = [saved EXCEPT ![t] = interrupts]
  /\ UNCHANGED <<cpuvars, lockvars, raced, overwritten>>

Sub(t) ==
  /\ From(t, "sub", IF irq_depth[Home[t]] = 1 THEN "switch" ELSE "idle")
  /\ irq_depth' = [irq_depth EXCEPT ![Home[t]] = @ - 1]
  /\ UNCHANGED <<running, ints, preemption, lockvars, saved, raced, overwritten>>

SwitchBack(t) ==
  /\ From(t, "switch", "idle")
  /\ ints' = [ints EXCEPT ![Home[t]] = saved[t]]
  /\ UNCHANGED <<running, irq_depth, preemption, lockvars, saved, raced, overwritten>>

\* A device interrupts the CPU: the flag is off in the handler, whose
\* acquire_irq() and release_irq() only look at it.
DeviceInterrupt(c) ==
  /\ Kind = "irq"
  /\ ints[c] /\ ~InInterrupt(c)
  /\ ints' = [ints EXCEPT ![c] = FALSE]
  /\ saved' = [saved EXCEPT ![c] = FALSE]
  /\ pc' = [pc EXCEPT ![c] = "store"]
  /\ UNCHANGED <<running, irq_depth, preemption, lockvars, raced, overwritten>>

DeviceReturn(c) ==
  /\ Kind = "irq"
  /\ From(c, "return", "idle")
  /\ ints' = [ints EXCEPT ![c] = TRUE]
  /\ UNCHANGED <<running, irq_depth, preemption, lockvars, saved, raced, overwritten>>

-----------------------------------------------------------------------------
(* spinlock_preempt: the lock is taken first, then preemption disabled.    *)

Lock(t) ==
  /\ Kind = "preempt"
  /\ From(t, "idle", "draw")
  /\ UNCHANGED <<cpuvars, lockvars, saved, raced, overwritten>>

Disable(t) ==
  /\ From(t, "disable", "held")
  /\ preemption' = [preemption EXCEPT ![Home[t]] = @ + 1]
  /\ UNCHANGED <<running, ints, irq_depth, lockvars, saved, raced, overwritten>>

Enable(t) ==
  /\ From(t, "enable", "idle")
  /\ preemption' = [preemption EXCEPT ![Home[t]] = @ - 1]
  /\ UNCHANGED <<running, ints, irq_depth, lockvars, saved, raced, overwritten>>

-----------------------------------------------------------------------------
(* The timer: schedule() returns at once while preemption is disabled.     *)

\* A mutation: schedule() does not look at the preemption count.
BugPreemptible(c) == ints[c] /\ ~InInterrupt(c)

Preemptible(c) == ints[c] /\ ~InInterrupt(c) /\ preemption[c] = 0

\* On the CPU whose run queue the lock is for, schedule() takes the lock.
Schedule(c) ==
  /\ Kind = "preempt" /\ c = QueueCpu
  /\ Preemptible(c)
  /\ pc' = [pc EXCEPT ![c] = "draw"]
  /\ UNCHANGED <<cpuvars, lockvars, saved, raced, overwritten>>

Switch(c, t) ==
  /\ Home[t] = c
  /\ \/ Kind = "preempt" /\ c = QueueCpu /\ From(c, "return", "idle")
     \/ (Kind = "irq" \/ c # QueueCpu) /\ Preemptible(c) /\ UNCHANGED pc
  /\ running' = [running EXCEPT ![c] = t]
  /\ raced' = IF pc[running[c]] = "cli" THEN raced \cup {c} ELSE raced
  /\ UNCHANGED <<ints, irq_depth, preemption, lockvars, saved, overwritten>>

Next ==
  \/ \E x \in Threads \cup Cpus : Draw(x) \/ Served(x) \/ Unlock(x) \/ Store(x)
  \/ \E t \in Threads : \/ Status(t) \/ Count(t) \/ SwitchOff(t) \/ Load(t) \/ Sub(t) \/ SwitchBack(t)
                        \/ Lock(t) \/ Disable(t) \/ Enable(t)
  \/ \E c \in Cpus : DeviceInterrupt(c) \/ DeviceReturn(c) \/ Schedule(c)
  \/ \E c \in Cpus, t \in Threads : Switch(c, t)

Spec == Init /\ [][Next]_vars

-----------------------------------------------------------------------------
(* Properties.                                                             *)

\* x waits for the lock behind y, and y cannot run before x has it.
Behind(x, y) == \E i, j \in DOMAIN queue : i < j /\ queue[i] = y /\ queue[j] = x
Guarded(c) ==
  \E t \in Threads : Home[t] = c /\ pc[t] \notin {"idle", "count", "cli"}

\* What spinlock_irq is for, and how far it goes.  Unless a thread was
\* preempted between counting itself and switching interrupts off, no handler
\* and no thread of a CPU waits for a lock that a thread of the same CPU has or
\* will get first; and unless another CPU has written the flag that is kept in
\* the lock, a CPU has its interrupts back when its threads are outside.
IrqGuardsHold ==
  \A c \in Cpus \ raced :
    /\ \A t \in Threads : Home[t] = c => ~Behind(c, t)
    /\ \A t, u \in Threads : Home[t] = c /\ Home[u] = c => ~Behind(t, u)
    /\ irq_depth[c] = Cardinality({t \in Threads : Home[t] = c /\ pc[t] \in
                        {"cli", "store", "draw", "wait", "held", "load", "sub"}})
    /\ c \in overwritten \/ Guarded(c) \/ InInterrupt(c) \/ ints[c]

\* schedule() never waits behind a thread of its CPU that has disabled
\* preemption, so it interrupts no critical section.  The one way it can wait
\* for its own CPU is an interrupt between the ticket of a thread and its
\* disable(), and then the CPU stands still.
PreemptGuardsHold ==
  \A c \in Cpus, t \in Threads :
    Home[t] = c /\ Behind(c, t) => running[c] = t /\ pc[t] \in {"wait", "disable"}
=============================================================================
