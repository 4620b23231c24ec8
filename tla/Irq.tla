-------------------------------- MODULE Irq --------------------------------
(***************************************************************************)
(* The way of an interrupt: a device raises its line, an I/O APIC's        *)
(* redirection entry (arch/x86_64/system/ioapic.cpp) or the legacy PIC     *)
(* (pic.cpp) turns it into a vector, and isr_handler() (idt.cpp) calls the *)
(* handler of the vector.  Handlers are installed and removed by the PIT's *)
(* task, the scheduler and uACPI through interrupts.cpp, all on the boot   *)
(* processor; an interrupt may come between any two of their steps.        *)
(* Vectors are counted from irq(0) = 0x20, so that legacy line n has       *)
(* vector n.                                                               *)
(***************************************************************************)
EXTENDS Naturals, Sequences, FiniteSets, FiniteSetsExt

CONSTANTS
  Machines,     \* what the MADT says: set of [ioapics: Seq([base, redirs]),
                \*   isos: set of [source, gsi], pics: the ACPI_PIC_ENABLED flag]
  Legacy,       \* the legacy lines, 0..15
  NumInts,      \* vectors
  SchedVector,
  SciLines      \* lines uACPI may ask for

Cascade == 2
None == "none"
NoVector == NumInts   \* of a redirection entry that was never written

\* The gsi that the device of legacy line irq is wired to.
Override(m, irq) == {o \in m.isos : o.source = irq}
GsiOf(m, irq) == IF Override(m, irq) = {} THEN irq ELSE (CHOOSE o \in Override(m, irq) : TRUE).gsi

\* The MADT overrides a line once and puts no two lines on one gsi; the system
\* control interrupt is neither the timer's line nor the cascade.
Routed == Legacy \ {Cascade}
IrqAssumption ==
  /\ NumInts \in Nat /\ SchedVector \in 0..NumInts - 1 /\ SchedVector \notin Legacy
  /\ Legacy = 0..Cardinality(Legacy) - 1 /\ Cardinality(Legacy) \in Nat
  /\ Cardinality(Legacy) < NumInts /\ Cascade \in Legacy
  /\ SciLines \subseteq Routed \ {0}
  /\ \A m \in Machines :
       /\ m.ioapics \in Seq([base : Nat, redirs : Nat]) /\ m.pics \in BOOLEAN
       /\ \A o \in m.isos : o.gsi \in Nat
       /\ \A o, p \in m.isos : o.source = p.source => o = p
       /\ \A a, b \in Routed : GsiOf(m, a) = GsiOf(m, b) => a = b

VARIABLES
  machine,
  initialised,  \* apic::io::initialised
  booted,       \* io::init() has run
  entries,      \* <<ioapic, pin>> -> [vector, masked]
  pic,          \* lines the legacy PIC lets through
  handlers,     \* vector -> [func, reserved] on the boot processor
  op,           \* [what, vector]: what is left of a call that changes them
  pending,      \* vectors the local APIC holds
  lost,         \* a redirection entry was written that does not exist
  panicked

vars == <<machine, initialised, booted, entries, pic, handlers, op, pending, lost, panicked>>

Idle == [what |-> None, vector |-> 0]
RealPins(m) == UNION {{i} \X (0..m.ioapics[i].redirs - 1) : i \in DOMAIN m.ioapics}
Reset == [vector |-> NoVector, masked |-> TRUE]

Init ==
  /\ machine \in Machines
  /\ initialised = FALSE /\ booted = FALSE /\ lost = FALSE /\ panicked = FALSE
  /\ entries = [ip \in RealPins(machine) |-> Reset]
  /\ pic = {Cascade}
  /\ handlers = [v \in 0..NumInts - 1 |-> [func |-> None, reserved |-> FALSE]]
  /\ op = Idle /\ pending = {}

\* gsi2ioapic(): the first I/O APIC whose range takes the gsi; <<>> is the panic.
Takes(io, gsi) == io.base <= gsi /\ gsi <= io.base + io.redirs
Gsi2Ioapic(gsi) ==
  LET fits == {i \in DOMAIN machine.ioapics : Takes(machine.ioapics[i], gsi)}
  IN IF fits = {} THEN <<>> ELSE <<Min(fits), gsi - machine.ioapics[Min(fits)].base>>

\* A mutation: the overrides of the MADT are not looked up.
BugLineOf(irq) == irq

\* irq2iso(), and the line itself where nothing overrides it.
LineOf(irq) ==
  IF \E o \in machine.isos : o.source = irq
  THEN (CHOOSE o \in machine.isos : o.source = irq).gsi ELSE irq

\* io::init(): all entries masked; if the machine has PICs, each legacy line but
\* the cascade routed to its vector in turn, a later line over an earlier one,
\* and the vector reserved.
IoInit ==
  /\ ~booted
  /\ booted' = TRUE
  /\ IF machine.ioapics = <<>>
     THEN UNCHANGED <<initialised, entries, pic, handlers, lost, panicked>>
     ELSE LET to(irq) == Gsi2Ioapic(LineOf(irq))
              lines == IF machine.pics THEN Routed ELSE {}
              setters(ip) == {irq \in lines : to(irq) = ip}
          IN /\ pic' = {}
             /\ panicked' = \E irq \in lines : to(irq) = <<>>
             /\ entries' = [ip \in DOMAIN entries |->
                              [entries[ip] EXCEPT !.vector = IF setters(ip) = {} THEN @ ELSE Max(setters(ip))]]
             /\ lost' = \E irq \in lines : to(irq) \notin DOMAIN entries \cup {<<>>}
             /\ handlers' = [v \in DOMAIN handlers |->
                               IF v \in lines THEN [handlers[v] EXCEPT !.reserved = TRUE] ELSE handlers[v]]
             /\ initialised' = TRUE
  /\ UNCHANGED <<machine, op, pending>>

\* ioapic::mask() and unmask() of one redirection entry.
MaskIdx(ip, m) == IF ip \in DOMAIN entries THEN [entries EXCEPT ![ip].masked = m] ELSE entries

\* interrupts::mask() and unmask().
SetMask(v, m) ==
  IF initialised
  THEN LET ip == Gsi2Ioapic(LineOf(v))
       IN /\ panicked' = (ip = <<>>)
          /\ entries' = MaskIdx(ip, m)
          /\ lost' = (lost \/ ip \notin DOMAIN entries \cup {<<>>})
          /\ UNCHANGED pic
  ELSE /\ pic' = IF m THEN pic \ {v} ELSE pic \cup {v}
       /\ UNCHANGED <<entries, lost, panicked>>

\* interrupts::allocate(): a legacy vector that is not used, if the machine has
\* PICs, or the first vector that is neither used nor reserved, which it reserves.
Allocate(hint) ==
  LET free == {v \in hint..NumInts - 1 : handlers[v].func = None /\ ~handlers[v].reserved}
      legacy == machine.pics /\ hint \in Legacy /\ handlers[hint].func = None
  IN IF legacy THEN {[vector |-> hint, reserve |-> handlers[hint].reserved]}
     ELSE {[vector |-> v, reserve |-> TRUE] : v \in {w \in free : \A x \in free : w <= x}}

Ready == booted /\ ~panicked /\ op = Idle
SetFunc(v, f) == handlers' = [handlers EXCEPT ![v].func = f]

\* The PIT's task and the scheduler's init(): allocate and set; only the PIT
\* unmasks.
Fill(a, f) == handlers' = [handlers EXCEPT ![a.vector] = [func |-> f, reserved |-> a.reserve]]
Pit ==
  /\ Ready /\ \A v \in DOMAIN handlers : handlers[v].func # "pit"
  /\ \E a \in Allocate(0) : Fill(a, "pit") /\ op' = [what |-> "unmask", vector |-> a.vector]
  /\ UNCHANGED <<machine, initialised, booted, entries, pic, pending, lost, panicked>>

SchedInit ==
  /\ Ready /\ \A v \in DOMAIN handlers : handlers[v].func # "sched"
  /\ \E a \in Allocate(SchedVector) : Fill(a, "sched")
  /\ UNCHANGED <<machine, initialised, booted, entries, pic, op, pending, lost, panicked>>

\* uacpi_kernel_install_interrupt_handler() and its counterpart.
Install(irq) ==
  /\ Ready
  /\ IF handlers[irq].func # None
     THEN panicked' = TRUE /\ UNCHANGED <<handlers, op>>
     ELSE /\ SetFunc(irq, "uacpi") /\ op' = [what |-> "unmask", vector |-> irq]
          /\ UNCHANGED panicked
  /\ UNCHANGED <<machine, initialised, booted, entries, pic, pending, lost>>

Uninstall(irq) ==
  /\ Ready /\ handlers[irq].func = "uacpi"
  /\ SetMask(irq, TRUE)
  /\ op' = [what |-> "reset", vector |-> irq]
  /\ UNCHANGED <<machine, initialised, booted, handlers, pending>>

Finish ==
  /\ ~panicked
  /\ \/ op.what = "unmask" /\ SetMask(op.vector, FALSE) /\ UNCHANGED handlers
     \/ op.what = "reset" /\ SetFunc(op.vector, None) /\ UNCHANGED <<entries, pic, lost, panicked>>
  /\ op' = Idle
  /\ UNCHANGED <<machine, initialised, booted, pending>>

\* The wiring: the device of legacy line irq is at the pin of the I/O APIC that
\* has its gsi.
WiredTo(irq) ==
  {ip \in RealPins(machine) : machine.ioapics[ip[1]].base + ip[2] = GsiOf(machine, irq)}
Raise(irq) ==
  /\ ~panicked
  /\ pending' = pending
       \cup ({entries[ip].vector : ip \in {q \in WiredTo(irq) : ~entries[q].masked}} \ {NoVector})
       \cup (IF irq \in pic THEN {irq} ELSE {})
  /\ pending' # pending
  /\ UNCHANGED <<machine, initialised, booted, entries, pic, handlers, op, lost, panicked>>

\* isr_handler(): an unused vector is acknowledged and forgotten.
Deliver(v) ==
  /\ v \in pending /\ ~panicked
  /\ pending' = pending \ {v}
  /\ UNCHANGED <<machine, initialised, booted, entries, pic, handlers, op, lost, panicked>>

Next ==
  \/ IoInit \/ Pit \/ SchedInit \/ Finish
  \/ \E irq \in SciLines : Install(irq) \/ Uninstall(irq)
  \/ \E irq \in Routed : Raise(irq)
  \/ \E v \in 0..NumInts - 1 : Deliver(v)
Spec == Init /\ [][Next]_vars

-----------------------------------------------------------------------------
(* Properties.                                                             *)

TypeOK ==
  /\ entries \in [RealPins(machine) -> [vector : 0..NumInts, masked : BOOLEAN]]
  /\ \A v \in DOMAIN handlers : handlers[v].func \in {None, "pit", "sched", "uacpi"}
  /\ pic \subseteq Legacy /\ pending \subseteq 0..NumInts - 1

\* A device whose handler is installed reaches that handler: its own line is let
\* through and turned into its own vector, through the overrides of the firmware
\* and on either controller.  And no line is let through to a vector that has no
\* handler, which isr_handler() would silently drop: not after the interrupt
\* sources are set up, and not while a handler is installed or removed.
\* Two machines are excepted: gsi2ioapic() takes the first gsi behind an I/O APIC
\* for one of its own, so a line there is lost to an entry that does not exist.
\* And a machine with I/O APICs whose MADT does not mention PICs: its lines are
\* unmasked, but were routed to no vector.
OneBehind(gsi, io) == gsi = io.base + io.redirs
LinesReachHandlers ==
  /\ TypeOK
  /\ lost => \E irq \in Legacy, i \in DOMAIN machine.ioapics : OneBehind(LineOf(irq), machine.ioapics[i])
  /\ op = Idle /\ ~panicked /\ ~lost /\ (initialised => machine.pics) =>
       \A v \in Legacy : handlers[v].func \in {"pit", "uacpi"} =>
         IF initialised
         THEN \E ip \in WiredTo(v) : entries[ip] = [vector |-> v, masked |-> FALSE]
         ELSE v \in pic
  /\ machine.pics => \A ip \in DOMAIN entries :
       ~entries[ip].masked => entries[ip].vector # NoVector /\ handlers[entries[ip].vector].func # None
  /\ \A v \in pic \ {Cascade} : handlers[v].func # None
=============================================================================
