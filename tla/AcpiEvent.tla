----------------------------- MODULE AcpiEvent -----------------------------
(***************************************************************************)
(* The event uACPI asks of the kernel (simple_event and its callers in     *)
(* kernel/source/deps/uacpi.cpp): a counter that signallers raise and      *)
(* waiters lower with a compare-and-exchange, asleep for 10 ms between two *)
(* attempts.  Times are in microseconds.                                   *)
(***************************************************************************)
EXTENDS Integers, FiniteSets

CONSTANTS
  Waiters,      \* threads in uacpi_kernel_wait_for_event
  Timeouts,     \* bound: timeouts in ms, Forever among them
  MaxSignals    \* bound: calls of uacpi_kernel_signal_event

Forever == 65535
AcpiEventAssumption ==
  IsFiniteSet(Waiters) /\ Timeouts \subseteq 0..Forever /\ MaxSignals \in Nat

VARIABLES
  counter,      \* simple_event::counter
  started,      \* sched::is_initialised()
  pc,           \* waiter -> "idle", "load", "exchange", "failed", "true", "false"
  loaded,       \* waiter -> the value decrement() has read
  left,         \* waiter -> `value`, what is left of the timeout
  waited,       \* waiter -> time spent in uacpi_kernel_sleep since the call
  call,         \* waiter -> [timeout, started when called]
  given, lost   \* signals given, and wiped out by uacpi_kernel_reset_event

vars == <<counter, started, pc, loaded, left, waited, call, given, lost>>
event == <<counter, given, lost>>

Init ==
  /\ counter = 0 /\ given = 0 /\ lost = 0
  /\ started = FALSE
  /\ pc = [w \in Waiters |-> "idle"]
  /\ loaded = [w \in Waiters |-> 0]
  /\ left = [w \in Waiters |-> 0]
  /\ waited = [w \in Waiters |-> 0]
  /\ call = [w \in Waiters |-> [timeout |-> 0, started |-> FALSE]]

Signal ==
  /\ given < MaxSignals
  /\ counter' = counter + 1
  /\ given' = given + 1
  /\ UNCHANGED <<started, pc, loaded, left, waited, call, lost>>

Reset ==
  /\ counter' = 0
  /\ lost' = lost + counter
  /\ UNCHANGED <<started, pc, loaded, left, waited, call, given>>

Wait(w, timeout) ==
  /\ pc[w] = "idle"
  /\ pc' = [pc EXCEPT ![w] = "load"]
  /\ call' = [call EXCEPT ![w] = [timeout |-> timeout, started |-> started]]
  /\ left' = [left EXCEPT ![w] = timeout]
  /\ UNCHANGED <<event, started, loaded, waited>>

\* decrement(): the load, then the exchange, which is tried again when the
\* counter has changed in between.
Load(w) ==
  /\ pc[w] = "load"
  /\ loaded' = [loaded EXCEPT ![w] = counter]
  /\ pc' = [pc EXCEPT ![w] = IF counter = 0 THEN "failed" ELSE "exchange"]
  /\ UNCHANGED <<event, started, left, waited, call>>

\* A mutation: the counter is stored without comparing it with what was loaded.
BugExchanges(w) == TRUE

Exchanges(w) == counter = loaded[w]
Exchange(w) ==
  /\ pc[w] = "exchange"
  /\ counter' = IF Exchanges(w) THEN loaded[w] - 1 ELSE counter
  /\ pc' = [pc EXCEPT ![w] = IF Exchanges(w) THEN "true" ELSE "load"]
  /\ UNCHANGED <<started, loaded, left, waited, call, given, lost>>

\* uacpi_kernel_sleep(): before the scheduler runs it is uacpi_kernel_stall(),
\* which takes the number of microseconds in eight bits.
Slept(ms) == IF started THEN ms * 1000 ELSE (ms * 1000) % 256

\* A mutation: the last round of the wait is left out.
BugGivesUp(w) == left[w] <= 10

GivesUp(w) == left[w] <= 0
Failed(w) ==
  /\ pc[w] = "failed"
  /\ IF call[w].timeout # Forever /\ GivesUp(w)
     THEN pc' = [pc EXCEPT ![w] = "false"] /\ UNCHANGED <<left, waited>>
     ELSE /\ pc' = [pc EXCEPT ![w] = "load"]
          /\ waited' = [waited EXCEPT ![w] = IF call[w].timeout = Forever THEN 0 ELSE @ + Slept(10)]
          /\ left' = [left EXCEPT ![w] = IF call[w].timeout = Forever THEN @ ELSE @ - 10]
  /\ UNCHANGED <<event, started, loaded, call>>

Start == ~started /\ started' = TRUE /\ UNCHANGED <<event, pc, loaded, left, waited, call>>

Next ==
  \/ Signal \/ Reset \/ Start
  \/ \E w \in Waiters : \/ \E timeout \in Timeouts : Wait(w, timeout)
                        \/ Load(w) \/ Exchange(w) \/ Failed(w)

Spec == Init /\ [][Next]_vars

-----------------------------------------------------------------------------
(* Properties.                                                             *)

TypeOK ==
  /\ counter \in Nat
  /\ \A w \in Waiters : pc[w] \in {"idle", "load", "exchange", "failed", "true", "false"} /\ left[w] \in Int

\* However waiters, signallers and resets interleave, every signal wakes at
\* most one waiter: it was consumed once, wiped out by a reset, or is still there.
ConsumedOnce ==
  /\ TypeOK
  /\ given = counter + lost + Cardinality({w \in Waiters : pc[w] = "true"})

\* A wait that gives up has waited at least for its timeout, if the scheduler
\* was running when it began.
GivesUpLate ==
  \A w \in Waiters : pc[w] = "false" /\ call[w].started => waited[w] >= call[w].timeout * 1000
=============================================================================
