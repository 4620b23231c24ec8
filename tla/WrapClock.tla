----------------------------- MODULE WrapClock -----------------------------
(***************************************************************************)
(* A hardware counter that wraps, made into a clock that does not: read()  *)
(* of arch/x86_64/drivers/timers/hpet.cpp for a 32-bit HPET and time_ns()  *)
(* of drivers/timers/acpipm.cpp.  Any thread or interrupt on any CPU calls *)
(* it; `last` is shared and only accessed atomically, one access a step.   *)
(* The thread handle_overflow() calls it once a second, far more often     *)
(* than the counter wraps: no period passes without a stored value, and no *)
(* call lasts as long as one.                                              *)
(***************************************************************************)
EXTENDS Integers

CONSTANTS
  Callers,      \* threads that read the clock
  Period,       \* mask + 1
  MaxTime,      \* bound: ticks
  MaxJumps      \* bound: races counted

WrapClockAssumption == Period \in Nat /\ Period > 2 /\ MaxTime \in Nat /\ MaxJumps \in Nat

VARIABLES
  now,          \* ticks since the counter was started
  last,         \* the static variable `last`
  pc,           \* caller -> "idle", "load", "store"
  value,        \* caller -> what it read, then what it will return
  last_val,     \* caller -> what it loaded from last
  readAt,       \* caller -> when it read the counter
  storedAt,     \* when the value in last was read
  jumps         \* calls that loaded a `last` later than their own reading

vars == <<now, last, pc, value, last_val, readAt, storedAt, jumps>>

Init ==
  /\ now = 0 /\ last = 0 /\ jumps = 0 /\ storedAt = 0
  /\ pc = [c \in Callers |-> "idle"]
  /\ value = [c \in Callers |-> 0]
  /\ last_val = [c \in Callers |-> 0]
  /\ readAt = [c \in Callers |-> 0]

Tick ==
  /\ now < MaxTime
  /\ now + 1 - storedAt < Period
  /\ \A c \in Callers : pc[c] # "idle" => now + 1 - readAt[c] < Period
  /\ now' = now + 1
  /\ UNCHANGED <<last, pc, value, last_val, readAt, storedAt, jumps>>

Read(c) ==
  /\ pc[c] = "idle"
  /\ value' = [value EXCEPT ![c] = now % Period]
  /\ readAt' = [readAt EXCEPT ![c] = now]
  /\ pc' = [pc EXCEPT ![c] = "load"]
  /\ UNCHANGED <<now, last, last_val, storedAt, jumps>>

\* A mutation: two equal readings count as a wrap.
BugExtended(v, l) == LET e == v + (l - (l % Period)) IN IF e <= l THEN e + Period ELSE e

\* The upper bits are those of last; a value behind it has wrapped.
Extended(v, l) == LET e == v + (l - (l % Period)) IN IF e < l THEN e + Period ELSE e
Load(c) ==
  /\ pc[c] = "load"
  /\ jumps < MaxJumps \/ storedAt <= readAt[c]
  /\ last_val' = [last_val EXCEPT ![c] = last]
  /\ value' = [value EXCEPT ![c] = Extended(value[c], last)]
  /\ jumps' = IF storedAt > readAt[c] THEN jumps + 1 ELSE jumps
  /\ pc' = [pc EXCEPT ![c] = "store"]
  /\ UNCHANGED <<now, last, readAt, storedAt>>

\* last_val - value is unsigned: the test lets through every value but last_val.
Store(c) ==
  /\ pc[c] = "store"
  /\ IF value[c] # last_val[c] /\ last = last_val[c]
     THEN last' = value[c] /\ storedAt' = readAt[c]
     ELSE UNCHANGED <<last, storedAt>>
  /\ pc' = [pc EXCEPT ![c] = "idle"]
  /\ UNCHANGED <<now, value, last_val, readAt, jumps>>

Next == Tick \/ \E c \in Callers : Read(c) \/ Load(c) \/ Store(c)
Spec == Init /\ [][Next]_vars

-----------------------------------------------------------------------------
(* Properties.                                                             *)

TypeOK ==
  /\ now \in Nat /\ last \in Nat /\ jumps \in Nat
  /\ \A c \in Callers : pc[c] \in {"idle", "load", "store"} /\ value[c] \in Nat

\* The clock is exact, through every wrap of the counter, as long as no call
\* reads the counter before and loads `last` after a call that stored a later
\* value; each such race puts the clock ahead by at most one period.
ExactUnlessOvertaken ==
  /\ TypeOK
  /\ \A c \in Callers : pc[c] = "store" => value[c] <= readAt[c] + jumps * Period
  /\ jumps = 0 => \A c \in Callers : pc[c] = "store" => value[c] = readAt[c]
=============================================================================
