------------------------------ MODULE Platform ------------------------------
(***************************************************************************)
(* What the kernel builds directly on the processor and its devices: the   *)
(* start of the processors, interrupt lines, the clocks, a counter that    *)
(* wraps, and the two kinds of guarded spinlock.  They share no state; a   *)
(* behaviour is one of one of them, the others rest.                       *)
(***************************************************************************)
EXTENDS Integers

CONSTANTS
  Entries, BspAid, Builds,                              \* of Smp
  Machines, Legacy, NumInts, SchedVector, SciLines,     \* of Irq
  Cpus, Bsp, Started, MaxTime,                          \* of Clocks
  Callers, Period, MaxTicks, MaxJumps,                  \* of WrapClock
  Threads, Home, QueueCpu                               \* of Guards, with Cpus

VARIABLES
  part,         \* the part whose behaviour this is
  LimineMp, bsp, nxt, bases, info, mapped, ap, proc, online,
  machine, initialised, booted, entries, pic, handlers, op, pending, lost, panicked,
  now, clocks, main, offset, tasks, init, supported, is_calibrated, running_cpus, held, seen, toldBy, lag, tscLag, tscFrom, slack,
  ticks, last, calls, value, last_val, readAt, storedAt, jumps,
  running, ints, irq_depth, preemption, interrupts, queue, saved, pc, raced, overwritten

Parts == {"processors", "lines", "clocks", "counter", "irq", "preempt"}

Processors == INSTANCE Smp
Lines == INSTANCE Irq
Time == INSTANCE Clocks WITH online <- running_cpus
Counter == INSTANCE WrapClock WITH MaxTime <- MaxTicks, now <- ticks, pc <- calls
IrqLock == INSTANCE Guards WITH Kind <- "irq"
PreemptLock == INSTANCE Guards WITH Kind <- "preempt"

ASSUME PlatformAssumption ==
  /\ Processors!SmpAssumption /\ Lines!IrqAssumption /\ Time!ClocksAssumption
  /\ Counter!WrapClockAssumption /\ IrqLock!GuardsAssumption /\ PreemptLock!GuardsAssumption

processorVars == <<LimineMp, bsp, nxt, bases, info, mapped, ap, proc, online>>
lineVars == <<machine, initialised, booted, entries, pic, handlers, op, pending, lost, panicked>>
timeVars == <<now, clocks, main, offset, tasks, init, supported, is_calibrated, running_cpus, held, seen, toldBy, lag, tscLag, tscFrom, slack>>
counterVars == <<ticks, last, calls, value, last_val, readAt, storedAt, jumps>>
guardVars == <<running, ints, irq_depth, preemption, interrupts, queue, saved, pc, raced, overwritten>>
vars == <<part, processorVars, lineVars, timeVars, counterVars, guardVars>>

\* A part that rests has one initial state.
FirstOf(c) == CHOOSE t \in Threads : Home[t] = c
Init ==
  /\ part \in Parts
  /\ Processors!Init /\ (part # "processors" => LimineMp = CHOOSE b \in Builds : TRUE)
  /\ Lines!Init /\ (part # "lines" => machine = CHOOSE m \in Machines : TRUE)
  /\ Time!Init /\ (part # "clocks" => supported = {} /\ ~is_calibrated)
  /\ Counter!Init
  /\ IrqLock!Init /\ (part \notin {"irq", "preempt"} => running = [c \in Cpus |-> FirstOf(c)])
Next ==
  \/ part = "processors" /\ Processors!Next /\ UNCHANGED <<part, lineVars, timeVars, counterVars, guardVars>>
  \/ part = "lines" /\ Lines!Next /\ UNCHANGED <<part, processorVars, timeVars, counterVars, guardVars>>
  \/ part = "clocks" /\ Time!Next /\ UNCHANGED <<part, processorVars, lineVars, counterVars, guardVars>>
  \/ part = "counter" /\ Counter!Next /\ UNCHANGED <<part, processorVars, lineVars, timeVars, guardVars>>
  \/ part = "irq" /\ IrqLock!Next /\ UNCHANGED <<part, processorVars, lineVars, timeVars, counterVars>>
  \/ part = "preempt" /\ PreemptLock!Next /\ UNCHANGED <<part, processorVars, lineVars, timeVars, counterVars>>
Spec == Init /\ [][Next]_vars

-----------------------------------------------------------------------------
(* Properties.                                                             *)

\* Each processor that cpu::init() starts gets the structure and the stack
\* made for its own id, and the kernel goes on only when all are online.
ProcessorsApart == part = "processors" => Processors!ProcessorsApart

\* An installed handler is reached by its own line, and no line leads to a
\* vector without a handler.
LinesReachHandlers == part = "lines" => Lines!LinesReachHandlers

\* The main clock goes back on a CPU only when the tsc takes over, by what the
\* tsc has lost since it was set there and, on the boot CPU, the gap one order
\* of the timer tasks leaves.
TimeNeverBack == [][part = "clocks" => Time!TimeKept]_vars

\* hpet and acpipm extend a wrapping counter exactly, unless a call is overtaken
\* between reading the counter and loading `last`.
ExactUnlessOvertaken == part = "counter" => Counter!ExactUnlessOvertaken

\* spinlock_irq keeps handlers and threads of a CPU from waiting for their own
\* CPU and gives the interrupts back, but after the two races that are named.
IrqGuardsHold == part = "irq" => IrqLock!IrqGuardsHold

\* schedule() waits for a thread of its own CPU only if it interrupted that
\* thread between its ticket and disable().
PreemptGuardsHold == part = "preempt" => PreemptLock!PreemptGuardsHold
=============================================================================
