-------------------------------- MODULE Smp --------------------------------
(***************************************************************************)
(* Starting the other processors: cpu::init() and local::request() of      *)
(* system/cpu.cpp, boot_cores() of arch/x86_64/system/mp.cpp, the          *)
(* trampoline smp.S and core::entry() of arch/x86_64/arch.cpp.  The BSP    *)
(* hands what a processor needs over in one block of memory that it uses   *)
(* again for the next one, and all of them start on one temporary stack in *)
(* one trampoline page.  Without the boot loader's help (LimineMp FALSE)   *)
(* it waits for a flag the trampoline sets before it goes on, and for all  *)
(* processors at the end; with it, for each processor to be online.  A     *)
(* processor may be arbitrarily slow or never start: every wait gives up   *)
(* with a panic after a number of tries, and which try sees the processor  *)
(* is left open.                                                           *)
(***************************************************************************)
EXTENDS Naturals, Sequences, FiniteSets

CONSTANTS
  Entries,      \* the processors of the firmware's tables in their order:
                \*   [id, enabled, capable], flags 0 and 1 of an entry
  BspAid,       \* the one that boots
  Builds        \* values of ILOBILIX_LIMINE_MP to consider

Usable(e) == e.enabled # e.capable
Ids == {Entries[i].id : i \in {j \in DOMAIN Entries : Usable(Entries[j])}}
Aps == Ids \ {BspAid}

\* The ids of usable processors differ, as the firmware's tables must have it.
SmpAssumption ==
  /\ Entries \in Seq([id : Nat, enabled : BOOLEAN, capable : BOOLEAN])
  /\ BspAid \in Ids /\ Builds \subseteq BOOLEAN
  /\ \A i, j \in DOMAIN Entries :
       Usable(Entries[i]) /\ Usable(Entries[j]) /\ Entries[i].id = Entries[j].id => i = j

None == "none"

VARIABLES
  LimineMp,     \* the build's ILOBILIX_LIMINE_MP
  bsp,          \* "start", "wait", "all", "done", "panic"
  nxt,          \* index into Entries of the entry looked at
  bases,        \* idx -> the arch_id of processor idx: what request() has made
  info,         \* the block: [proc, flag]; proc is an index into bases
  mapped,       \* trampoline and temporary stack are mapped
  ap,           \* id -> "off", "sipi", "early", "proc", "flag", "entry", "online"
  proc,         \* id -> the processor structure it took out of the block
  online        \* processors (indices into bases) that set online

vars == <<LimineMp, bsp, nxt, bases, info, mapped, ap, proc, online>>

Init ==
  /\ LimineMp \in Builds
  /\ bsp = "start" /\ nxt = 1 /\ bases = <<BspAid>>
  /\ info = [proc |-> 0, flag |-> FALSE]
  /\ mapped = ~LimineMp
  /\ ap = [a \in Aps |-> "off"]
  /\ proc = [a \in Aps |-> 0]
  /\ online = {}

NumCores == Cardinality({i \in DOMAIN Entries : Usable(Entries[i])})

\* One turn of the loop over the entries: skip, or request() a structure, fill
\* the block and send INIT and SIPI (or store the entry point).
Skip ==
  /\ bsp = "start" /\ NumCores > 1 /\ nxt <= Len(Entries)
  /\ ~Usable(Entries[nxt]) \/ Entries[nxt].id = BspAid
  /\ nxt' = nxt + 1
  /\ UNCHANGED <<LimineMp, bsp, bases, info, mapped, ap, proc, online>>

\* local::map(), local::request(): per-CPU data and a stack for the next index.
Request(aid) == Append(bases, aid)

StartAp ==
  /\ bsp = "start" /\ NumCores > 1 /\ nxt <= Len(Entries)
  /\ Usable(Entries[nxt]) /\ Entries[nxt].id # BspAid
  /\ bases' = Request(Entries[nxt].id)
  /\ info' = [proc |-> Len(bases) + 1, flag |-> FALSE]
  /\ ap' = [ap EXCEPT ![Entries[nxt].id] = "sipi"]
  /\ bsp' = "wait"
  /\ UNCHANGED <<LimineMp, nxt, mapped, proc, online>>

\* A mutation: the boot CPU does not wait for the one it started.
BugSeen == TRUE

Seen == IF LimineMp THEN info.proc \in online ELSE info.flag
Waited ==
  /\ bsp = "wait" /\ Seen
  /\ bsp' = "start" /\ nxt' = nxt + 1
  /\ UNCHANGED <<LimineMp, bases, info, mapped, ap, proc, online>>

Ended ==
  /\ bsp = "start" /\ (nxt > Len(Entries) \/ NumCores <= 1)
  /\ bsp' = IF LimineMp \/ NumCores <= 1 THEN "done" ELSE "all"
  /\ UNCHANGED <<LimineMp, nxt, bases, info, mapped, ap, proc, online>>

\* The last wait, and the trampoline goes.
AllSeen == \A i \in 2..NumCores : i \in online
AllWaited ==
  /\ bsp = "all" /\ AllSeen
  /\ bsp' = "done" /\ mapped' = FALSE
  /\ UNCHANGED <<LimineMp, nxt, bases, info, ap, proc, online>>

Panic ==
  /\ \/ bsp = "wait" /\ ~Seen
     \/ bsp = "all" /\ ~AllSeen
  /\ bsp' = "panic"
  /\ UNCHANGED <<LimineMp, nxt, bases, info, mapped, ap, proc, online>>

\* The processor: the trampoline switches to the temporary stack, takes its
\* structure out of the block, sets the flag and jumps to core::entry() on the
\* stack of that structure, through the block's jump address; with the boot
\* loader's help there is no trampoline and no flag.
Step(a, from, to) == ap[a] = from /\ ap' = [ap EXCEPT ![a] = to]

Early(a) == Step(a, "sipi", "early") /\ UNCHANGED <<LimineMp, bsp, nxt, bases, info, mapped, proc, online>>
TakeProc(a) ==
  /\ Step(a, "early", "proc")
  /\ proc' = [proc EXCEPT ![a] = info.proc]
  /\ UNCHANGED <<LimineMp, bsp, nxt, bases, info, mapped, online>>
SetFlag(a) ==
  /\ Step(a, "proc", "flag")
  /\ info' = IF LimineMp THEN info ELSE [info EXCEPT !.flag = TRUE]
  /\ UNCHANGED <<LimineMp, bsp, nxt, bases, mapped, proc, online>>
Jump(a) == Step(a, "flag", "entry") /\ UNCHANGED <<LimineMp, bsp, nxt, bases, info, mapped, proc, online>>
Online(a) ==
  /\ Step(a, "entry", "online")
  /\ online' = online \cup {proc[a]}
  /\ UNCHANGED <<LimineMp, bsp, nxt, bases, info, mapped, proc>>

Next ==
  \/ Skip \/ StartAp \/ Waited \/ Ended \/ AllWaited \/ Panic
  \/ \E a \in Aps : Early(a) \/ TakeProc(a) \/ SetFlag(a) \/ Jump(a) \/ Online(a)
Spec == Init /\ [][Next]_vars

-----------------------------------------------------------------------------
(* Properties.                                                             *)

TypeOK ==
  /\ bsp \in {"start", "wait", "all", "done", "panic"} /\ mapped \in BOOLEAN
  /\ nxt \in 1..Len(Entries) + 1 /\ bases \in Seq(Ids) /\ online \subseteq DOMAIN bases
  /\ ap \in [Aps -> {"off", "sipi", "early", "proc", "flag", "entry", "online"}]
  /\ proc \in [Aps -> 0..Len(bases)]

\* However slow the processors are: each takes the structure (and with it the
\* stack and the per-CPU data) that was made for its own id, at most one of them
\* is on the temporary stack, and when cpu::init() returns and the trampoline
\* goes every usable processor is online: a processor that does not start ends
\* in a panic.
ProcessorsApart ==
  /\ TypeOK
  /\ \A a \in Aps : ap[a] \in {"proc", "flag", "entry", "online"} => bases[proc[a]] = a
  /\ ~LimineMp => Cardinality({a \in Aps : ap[a] \in {"sipi", "early", "proc"}}) <= 1
  /\ bsp = "done" => \A a \in Aps : ap[a] = "online"
=============================================================================
