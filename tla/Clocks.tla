------------------------------ MODULE Clocks ------------------------------
(***************************************************************************)
(* How the kernel changes its main clock while it boots                    *)
(* (system/time.cpp and the timers of arch/x86_64/drivers/timers and       *)
(* drivers/timers).  A clock source subtracts an offset from its counter,  *)
(* chosen so that it goes on where the main clock is, and is then          *)
(* registered; the registered clock of the highest priority is the main    *)
(* one.  The time-stamp counters differ between CPUs: each CPU sets an     *)
(* offset of its own when it starts, and only when all are online does     *)
(* finalise() register them.  The two readings an offset is made of are    *)
(* two steps.  The frequency of the tsc is measured around a calibrator    *)
(* that takes less time than the measurement (tsc.cpp:79-83), so it comes  *)
(* out high or exact, never low, and the tsc falls behind: each tick of    *)
(* real time is a tick of the tsc or is lost to it, on all CPUs alike.     *)
(* The other sources run at their nominal rate; that a counter wraps is    *)
(* module WrapClock.                                                       *)
(***************************************************************************)
EXTENDS Integers, FiniteSets

CONSTANTS
  Cpus, Bsp,    \* the CPUs and the one that boots the others
  Started,      \* [clock -> [cpu -> what its counter shows at time 0]]
  MaxTime       \* bound: ticks

ClockNames == {"pit", "acpipm", "hpet", "tsc", "kvm"}

\* Only the time-stamp counters differ between CPUs.
ClocksAssumption ==
  /\ Bsp \in Cpus /\ MaxTime \in Nat
  /\ Started \in [ClockNames -> [Cpus -> Nat]]
  /\ \A c \in ClockNames \ {"tsc"}, p \in Cpus : Started[c][p] = Started[c][Bsp]

None == "none"
Idle == [clock |-> None, own |-> 0, at |-> 0]
priority == [pit |-> 0, acpipm |-> 25, hpet |-> 50, tsc |-> 75, kvm |-> 100]

VARIABLES
  now,          \* real time
  clocks,       \* the heap of registered clocks
  main,
  offset,       \* clock -> cpu -> offset; one value for all CPUs but for tsc
  tasks,        \* the timer tasks that have run
  init,         \* cpu -> [clock, own, at]: the new clock it has read, or Idle
  supported,    \* the optional sources this machine has: kvm, tsc
  is_calibrated,
  online,
  held,         \* cpu -> the clock main_clock() returned, not yet read
  seen,         \* cpu -> the last time it was told
  toldBy,       \* cpu -> the clock that told it
  lag,          \* what the tsc has lost so far
  tscLag,       \* cpu -> what it had lost when the CPU's offset was read
  tscFrom,      \* the main clock the BSP's tsc was set by
  slack         \* time that passed between the two readings of an offset, in all

vars == <<now, clocks, main, offset, tasks, init, supported, is_calibrated, online, held, seen, toldBy, lag, tscLag, tscFrom, slack>>

\* time_ns() of each source: freq.nanos() of its counter, less the offset.
TimeNs(c, p) == now - (IF c = "tsc" THEN lag ELSE 0) + Started[c][p] - offset[c][p]

Init ==
  /\ now = 0 /\ clocks = {} /\ main = None /\ tasks = {}
  /\ offset = [c \in ClockNames |-> [p \in Cpus |-> 0]]
  /\ init = [p \in Cpus |-> Idle]
  /\ supported \in SUBSET {"kvm", "tsc"}
  /\ is_calibrated \in {FALSE, "tsc" \in supported}
  /\ online = {Bsp}
  /\ held = [p \in Cpus |-> None]
  /\ seen = [p \in Cpus |-> 0] /\ toldBy = [p \in Cpus |-> None]
  /\ lag = 0 /\ tscLag = [p \in Cpus |-> 0]
  /\ tscFrom = None /\ slack = 0

Tick ==
  /\ now < MaxTime
  /\ now' = now + 1 /\ lag' \in {lag, lag + 1}
  /\ UNCHANGED <<clocks, main, offset, tasks, init, supported, is_calibrated, online, held, seen, toldBy, tscLag, tscFrom, slack>>

Register(c) ==
  /\ clocks' = clocks \cup {c}
  /\ main' = CHOOSE d \in clocks \cup {c} : \A e \in clocks \cup {c} : priority[e] <= priority[d]

\* acpipm comes first, tsc after kvm.  Only kvm and tsc do nothing on a machine
\* that lacks them; hpet and acpipm only log whether they are supported() and
\* are registered all the same: the machine is assumed to have them.
Requires(c) == CASE c = "acpipm" -> {} [] c = "tsc" -> {"acpipm", "kvm"} [] OTHER -> {"acpipm"}
Present(c) == CASE c = "kvm" -> "kvm" \in supported [] c = "tsc" -> is_calibrated [] OTHER -> TRUE

BootTask(c) ==
  /\ c \notin tasks /\ Requires(c) \subseteq tasks /\ init[Bsp] = Idle /\ held[Bsp] = None
  /\ tasks' = tasks \cup {c}
  /\ init' = IF Present(c) THEN [init EXCEPT ![Bsp] = [clock |-> c, own |-> TimeNs(c, Bsp), at |-> now]] ELSE init
  /\ tscLag' = IF c = "tsc" THEN [tscLag EXCEPT ![Bsp] = lag] ELSE tscLag
  /\ UNCHANGED <<now, clocks, main, offset, supported, is_calibrated, online, held, seen, toldBy, lag, tscFrom, slack>>

\* A mutation: the reading of the main clock is not subtracted.
BugNewOffset(c, p, own) == offset[c][p] + own

\* The offset from the two readings; the PIT starts at zero without a main clock.
NewOffset(c, p, own) ==
  offset[c][p] + (CASE main # None -> own - TimeNs(main, p)
                    [] main = None /\ c = "pit" -> 0
                    [] OTHER -> own)

\* The second half of a task on the BSP: of all clocks but tsc the offset is
\* shared, and they are registered at once.
SetOffset ==
  /\ init[Bsp] # Idle
  /\ LET c == init[Bsp].clock
         new == NewOffset(c, Bsp, init[Bsp].own)
     IN IF c = "tsc"
        THEN offset' = [offset EXCEPT ![c][Bsp] = new] /\ UNCHANGED <<clocks, main>>
        ELSE offset' = [offset EXCEPT ![c] = [p \in Cpus |-> new]] /\ Register(c)
  /\ init' = [init EXCEPT ![Bsp] = Idle]
  /\ slack' = slack + (now - init[Bsp].at)
  /\ tscFrom' = IF init[Bsp].clock = "tsc" THEN main ELSE tscFrom
  /\ UNCHANGED <<now, tasks, supported, is_calibrated, online, held, seen, toldBy, lag, tscLag>>

\* core::entry() on another CPU, once every timer task has run.
ApInit(p) ==
  /\ p \notin online /\ tasks = ClockNames /\ init[Bsp] = Idle /\ init[p] = Idle /\ is_calibrated
  /\ init' = [init EXCEPT ![p] = [clock |-> "tsc", own |-> TimeNs("tsc", p), at |-> now]]
  /\ tscLag' = [tscLag EXCEPT ![p] = lag]
  /\ UNCHANGED <<now, clocks, main, offset, tasks, supported, is_calibrated, online, held, seen, toldBy, lag, tscFrom, slack>>

ApOnline(p) ==
  /\ p \notin online /\ tasks = ClockNames /\ init[Bsp] = Idle
  /\ is_calibrated => init[p] # Idle
  /\ offset' = IF is_calibrated
               THEN [offset EXCEPT !["tsc"][p] = NewOffset("tsc", p, init[p].own)] ELSE offset
  /\ init' = [init EXCEPT ![p] = Idle]
  /\ online' = online \cup {p}
  /\ UNCHANGED <<now, clocks, main, tasks, supported, is_calibrated, held, seen, toldBy, lag, tscLag, tscFrom, slack>>

\* finalise(), after cpu::init() has waited for every CPU.
AllOnline == online = Cpus
Finalise ==
  /\ AllOnline /\ tasks = ClockNames /\ init[Bsp] = Idle
  /\ is_calibrated /\ "tsc" \notin clocks
  /\ Register("tsc")
  /\ UNCHANGED <<now, offset, tasks, init, supported, is_calibrated, online, held, seen, toldBy, lag, tscLag, tscFrom, slack>>

\* main_clock()->ns(): a log line, a sleep, a stall.
MainClock(p) ==
  /\ p \in online /\ init[p] = Idle /\ held[p] = None /\ main # None
  /\ held' = [held EXCEPT ![p] = main]
  /\ UNCHANGED <<now, clocks, main, offset, tasks, init, supported, is_calibrated, online, seen, toldBy, lag, tscLag, tscFrom, slack>>

Ns(p) ==
  /\ held[p] # None
  /\ seen' = [seen EXCEPT ![p] = TimeNs(held[p], p)]
  /\ toldBy' = [toldBy EXCEPT ![p] = held[p]]
  /\ held' = [held EXCEPT ![p] = None]
  /\ UNCHANGED <<now, clocks, main, offset, tasks, init, supported, is_calibrated, online, lag, tscLag, tscFrom, slack>>

Next ==
  \/ Tick \/ SetOffset \/ Finalise
  \/ \E c \in ClockNames : BootTask(c)
  \/ \E p \in Cpus : ApInit(p) \/ ApOnline(p) \/ MainClock(p) \/ Ns(p)
Spec == Init /\ [][Next]_vars

-----------------------------------------------------------------------------
(* Properties.                                                             *)

\* By how much the first reading of the tsc on a CPU may be behind the last one
\* of the clock before it: by what the tsc has lost since this CPU set its offset
\* and, on the BSP, if tsc was set by a clock that is not the main one any more
\* when tsc takes over (the graph does not order tsc after hpet), by what passed
\* between the readings of the offsets.
Behind(p) == (lag - tscLag[p]) + (IF p = Bsp /\ tscFrom # "hpet" THEN slack ELSE 0)

\* The time of a CPU goes back at most once, when it first reads the tsc that
\* took over, and then by no more than Behind: the deadlines of sleeping threads
\* and of stalls rest on it.  Otherwise it never does, whichever sources the
\* machine has and across every other change of the main clock, because each
\* offset is made of the new clock read before the old one.
TimeKept ==
  \A p \in Cpus :
    IF held[p] = "tsc" /\ toldBy[p] # "tsc"
    THEN seen'[p] + Behind(p) >= seen[p]
    ELSE seen'[p] >= seen[p]
TimeNeverBack == [][TimeKept]_vars
=============================================================================
