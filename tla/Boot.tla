-------------------------------- MODULE Boot --------------------------------
(***************************************************************************)
(* What brings the kernel up and keeps its work in order: the graph of     *)
(* boot tasks (InitGraph, which is extended), the loader of kernel modules *)
(* and the two parts of the glue to uACPI that have a protocol, work       *)
(* queues and events.  They share no state; a behaviour is one of one of   *)
(* them, the others rest.                                                  *)
(***************************************************************************)
EXTENDS InitGraph

CONSTANTS
  Parts,                                 \* bound: the parts that are looked at
  Page, Internal, Files, Frames,         \* of KernelModule
  Waiters, OnBsp, MaxWork, MaxCalls,     \* of AcpiWork
  EventWaiters, Timeouts, MaxSignals     \* of AcpiEvent

VARIABLES
  part,         \* the part whose behaviour this is
  stage, todo, cur, loaded_at, at, memory, pages, vspace_base, ptes, used, modules, failed,
  queue, writer, readers, added, completed, pc, worked, ran, scheduled, owed, irq, calls, taken, reports,
  counter, started, eventPc, loaded, left, waited, call, given, lost

Loader == INSTANCE KernelModule
Work == INSTANCE AcpiWork
Event == INSTANCE AcpiEvent WITH pc <- eventPc, Waiters <- EventWaiters

ASSUME BootAssumption ==
  Loader!KernelModuleAssumption /\ Work!AcpiWorkAssumption /\ Event!AcpiEventAssumption

loaderVars == <<stage, todo, cur, loaded_at, at, memory, pages, vspace_base, ptes, used, modules, failed>>
workVars == <<queue, writer, readers, added, completed, pc, worked, ran, scheduled, owed, irq, calls, taken, reports>>
eventVars == <<counter, started, eventPc, loaded, left, waited, call, given, lost>>
bootVars == <<part, vars, loaderVars, workVars, eventVars>>

\* A part that rests has one initial state.
BootInit ==
  /\ part \in Parts \cap {"graph", "loader", "work", "event"}
  /\ Init /\ Loader!Init /\ Work!Init /\ Event!Init
  /\ part # "loader" => todo = {}
BootNext ==
  \/ part = "graph" /\ Next /\ UNCHANGED <<part, loaderVars, workVars, eventVars>>
  \/ part = "loader" /\ Loader!Next /\ UNCHANGED <<part, vars, workVars, eventVars>>
  \/ part = "work" /\ Work!Next /\ UNCHANGED <<part, vars, loaderVars, eventVars>>
  \/ part = "event" /\ Event!Next /\ UNCHANGED <<part, vars, loaderVars, workVars>>
BootSpec ==
  /\ BootInit /\ [][BootNext]_bootVars
  /\ part = "graph" => Fairness
  /\ part = "work" => Work!Fairness

-----------------------------------------------------------------------------
(* Properties; CountsExact, OutcomeTrue and DependenciesFirst are those of *)
(* InitGraph.                                                              *)

\* Both engines come to an end: boot completes or panics.
EnginesEnd == part = "graph" => BootEnds

\* Every page the module loader took belongs to a loaded module, with the
\* protection its segment asks for, or was given back.
MemoryOwned == Loader!MemoryOwned

\* Work runs once and in order; it lies in a queue whose worker sleeps only if
\* the worker of the other kind was woken in its place.
StrandedOnlyByOther == Work!StrandedOnlyByOther

\* uacpi_kernel_wait_for_work_completion() hangs only after a report that came
\* between its look at the queues and its sleep, or went to another.
HangsOnlyAfterReport == Work!HangsOnlyAfterReport

\* Work whose worker is awake is run, unless the interrupt handler spins for a
\* lock its own CPU holds.
AwakeWorkerRuns == Work!AwakeWorkerRuns

\* A signal of an event is consumed by one waiter, reset, or still there.
ConsumedOnce == Event!ConsumedOnce

\* uacpi_kernel_wait_for_event() does not give up before its time.
GivesUpLate == Event!GivesUpLate
=============================================================================
