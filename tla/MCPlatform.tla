----------------------------- MODULE MCPlatform -----------------------------
(***************************************************************************)
(* Four usable processors, the second the one that boots, and an unusable  *)
(* one.  Five legacy lines, on machines with no I/O APIC, with one (with   *)
(* and without the usual override of line 0) and with two, once with an    *)
(* override to the first gsi of the second, and on one whose MADT does not *)
(* mention PICs.  Two CPUs whose time-stamp counters differ.  A counter of *)
(* four values, read by two callers, that wraps three times.  Two CPUs     *)
(* with three threads, two of which preempt each other.                    *)
(***************************************************************************)
EXTENDS Platform

Entry(i, e, c) == [id |-> i, enabled |-> e, capable |-> c]
McEntries ==
  << Entry(10, TRUE, FALSE), Entry(11, TRUE, FALSE), Entry(12, FALSE, FALSE),
     Entry(13, FALSE, TRUE), Entry(14, TRUE, FALSE) >>

Io(b, n) == [base |-> b, redirs |-> n]
Iso(s, g) == [source |-> s, gsi |-> g]
McMachines ==
  { [ioapics |-> <<>>, isos |-> {}, pics |-> TRUE],
    [ioapics |-> <<Io(0, 6)>>, isos |-> {}, pics |-> TRUE],
    [ioapics |-> <<Io(0, 6)>>, isos |-> {Iso(0, 2), Iso(4, 4)}, pics |-> TRUE],
    [ioapics |-> <<Io(0, 6), Io(6, 3)>>, isos |-> {Iso(0, 2), Iso(3, 7)}, pics |-> TRUE],
    [ioapics |-> <<Io(0, 5), Io(5, 3)>>, isos |-> {Iso(3, 5)}, pics |-> TRUE],
    [ioapics |-> <<Io(0, 6)>>, isos |-> {Iso(0, 2)}, pics |-> FALSE] }
McLegacy == 0..4

McStarted ==
  [c \in {"pit", "acpipm", "hpet", "tsc", "kvm"} |->
     CASE c = "tsc" -> [c1 |-> 5, c2 |-> 0]
       [] c = "acpipm" -> [c1 |-> 4, c2 |-> 4]
       [] c = "hpet" -> [c1 |-> 1, c2 |-> 1]
       [] c = "kvm" -> [c1 |-> 2, c2 |-> 2]
       [] OTHER -> [c1 |-> 0, c2 |-> 0]]

McHome == [t1 |-> "c1", t2 |-> "c1", t3 |-> "c2"]
=============================================================================
