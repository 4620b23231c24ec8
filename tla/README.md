# A TLA+ verification of the ilobilix kernel

ilobilix is a monolithic kernel for x86_64 (with a beginning of an aarch64
port) written in C++ modules. This directory holds TLA+ models of its core,
the TLC configurations that check them and TLAPS proofs of the results that
matter most. `src/kernel/...` paths below are relative to the repository.

Definitions keep the names of the source where TLA+ allows it; `PROJECT.json`
maps each one to the lines it models. Definitions called `Bug...` are mutations
used to test that a property can fail; no `Next` uses them.

## 1. Inventory of the system

| Part | State | Operations | Hard behaviour | What makes it correct |
|---|---|---|---|---|
| ticket spinlock, `lib/spinlock.cppm` | two ticket counters | lock, unlock, try_lock, try_lock_until, is_locked | every access is a separate atomic, counters wrap, unlock refuses silently | one holder, FIFO, nobody waits for ever |
| irq and preempt spinlocks, `lib/spinlock.cppm`, `lib/lock.cpp` | `_interrupts`, per-CPU irq depth, preemption count | lock, unlock | interrupts between two steps; `_interrupts` is written before the lock is held | interrupts are restored as they were; no deadlock with a handler |
| reader-writer lock, `lib/rwlock.cppm` | reader count, lock for it, global lock | read/write lock and unlock, upgrade, queries | the last reader releases the ticket another one drew | readers xor one writer, exact count |
| mutex and semaphore, `lib/mutex.cppm`, `lib/semaphore.cpp` | spinlock; signal count, list of waiting threads | lock, unlock, try_lock, try_lock_until; wait, test, wait_for, signal | test, sleep and queue are separate steps; wake-ups can be lost | exclusion, no lost wake-up, count and list agree |
| scheduler, `system/scheduler.cpp` | per-CPU run queue, sleep queue, running thread; per thread status, vruntime, sleep lock | spawn, sleep, yield, wake_up, sleeper, schedule, reaper; processes, groups, sessions | interrupts, two CPUs, timeouts racing wake-ups, signals from interrupt handlers, the reaper's own way to sleep | a thread is in one place, ready threads run, sleepers wake |
| physical memory, `system/memory/pmm.cpp` | buddy free lists of three zones, `struct page` per page, statistics | bootstrap alloc, init, alloc, free, reclaim | long sequences of splits and merges, exhaustion, a reclaim without lock | no page lost or given twice, panic only if exhausted |
| page tables, `system/memory/pagemap.cpp` | tables of several page sizes | map, unmap, protect, translate | partial failure, mixed sizes, memory maps whose entries overlap when rounded, slabs mapped at the same time | translate answers what was mapped |
| address spaces, `system/memory/vmm.cpp` | ordered tree of mappings, objects with pages | map, unmap, protect, is_mapped, find_free_region, page fault | splitting of mappings, rights kept twice, error after partial change | mappings disjoint, page table agrees with tree |
| boot graph, `lib/initgraph.cppm` | nodes, edges, counts, pending list, two engines | register node and edge, run | registration order is undefined, circular graphs, edges across engines | dependencies first, once; boot ends |
| virtual file system, `system/vfs.cpp`, `drivers/fs/*`, `system/syscall/vfs.cpp` | dentries, inodes, mounts, descriptor tables | resolve, mount, create, link, unlink, open, close, dup, read, write | symlink loops, concurrent lookups, descriptor reuse | tree stays a tree, descriptors are unique |
| processes, groups, sessions, `system/scheduler.cpp`, `system/syscall/proc.cpp` | maps by id, membership | create, change_group, change_session | lock order of old and new group | membership agrees with ids |
| ACPI work queues and events, `deps/uacpi.cpp` | two queues, two semaphores, event counters | schedule work, workers, wait for completion, wait for event | both workers share a semaphore, dropped signals, work scheduled in interrupt context | work is run once, waiters return |
| interrupts, `arch/x86_64/system/{idt,ioapic,pic,lapic}.cpp` | vector handlers, redirection entries of the I/O APICs, masks of the PIC, overrides of the firmware | install, remove, allocate a handler, mask, route, dispatch | an interrupt between two steps of an installation, overrides that move lines, several I/O APICs | a handler is reached by its own line, no line leads to a vector without handler |
| clocks and timers, `system/time.cpp`, `drivers/timers`, `arch/x86_64/drivers/timers` | registered clocks, main clock, offsets, wrap counters | register, calibrate, read | clocks change while time is read, counters differ per CPU, a rate is measured, a counter wraps between two reads | time does not go back; a wrap is counted once |
| processors, `system/cpu.cpp`, `arch/x86_64/system/mp.cpp`, `smp.S` | per-CPU data, one hand-over block, one temporary stack | start CPUs | the block is used again for the next CPU, waits that give up | every CPU starts once, with its own data |
| programs and kernel modules, `system/bin` | loaded modules, their pages and address range | load, relocate, protect, clean up | failure half way, several modules in one file | every page belongs to a loaded module or was returned |
| the rest: slab glue, PCI, initramfs, red-black tree, containers, console, log, panic, C library, network headers | | | | see the components in `PROJECT.json` for why they are left out |

How the parts interact: most shared structures are guarded by a spinlock,
`rwspinlock` or mutex (section 5 lists those that are not: the reclaim of boot
loader memory, kernel address space, the reaper's place in the sleep queue); a
mutex puts its caller to sleep through a semaphore, which calls `thread::wake_up`
of the scheduler; the scheduler's sleeper thread moves woken threads back to the
run queue; interrupts call `schedule()`. Address spaces take pages from the
physical memory manager and enter them in page tables. The boot graph starts all
of it: `kmain()` runs the first engine, the first kernel thread runs the second
one.

`lib::bug_on` is an assertion of debug builds; `lib::panic` stops every build.

## 2. Plan

Done, in this order: TicketLock (with FifoLock as its abstract specification),
RwLock, Mutex, Sched, Pmm, InitGraph, Vmspace; Vfs and Files, AcpiWork and
AcpiEvent, Pagemap, KernelModule, Smp, Irq, Clocks, WrapClock and Guards, which
Boot, Platform, FileSystem, Locks and MCMemory put together; and the proofs about
everything but the page tables (section 6).

Left, most important first:

1. Pmm: `PanicOnlyWhenExhausted`. The invariant of PmmProofs says that what is
   merged may be merged; this property needs the converse, that the chains of
   `next_paddr` lead to every buddy there is.
2. Pagemap: `NothingLeaked`; `WalkExact` needs an induction over the levels.
3. Vfs: `OperationsExact` and `PathnamesLeadBack`, which compare walks in two
   states, or from two places. `Vacancy` of FileSystemProofs, two walks side by
   side, is how a proof would begin.

The modules that a composite instantiates name their assumption on the constants
(`PagemapAssumption`, `GuardsAssumption`, ...) as a definition; the composite
assumes it for its instances.

## 3. Modules

### Locks and the scheduler

**FifoLock, TicketLock.** FifoLock says what a lock promises: a queue whose
head alone is granted the lock. TicketLock is `spinlock_base<none>`, one action
per atomic access: `Lock`, `DrawTicket` (the `fetch_add`), `Served` (the last
load of the loop), `Unlock` (its `is_locked()` test), `StoreServing`, and the
two loads of `try_lock` and `try_lock_until`. `TicketMod` is the modulus of the
counters. The memory orders of the code are sufficient for this reading: the
only relaxed accesses are the draw, whose atomicity alone matters, and the
holder's own read of the counter only it writes.

**Guards.** `spinlock_irq` and `spinlock_preempt` with `lib/lock.cpp`: the same
module for both kinds. Threads of a CPU preempt each other while interrupts are
on, a device handler takes the same irq lock, and `schedule()` takes the preempt
lock of its own run queue. The ticket lock inside is the FIFO queue that
TicketLock implements. The module shows exactly when the guards fail to guard:

* `irq_depth` is counted before `cli` (`lock.cpp:28`). A thread preempted in
  between lets a second thread of the CPU believe that interrupts are off
  already; it then holds the lock with interrupts on (history variable `raced`).
* `_interrupts` is a member of the lock, written before the lock is owned, so a
  CPU that waits overwrites what the holder saved (`overwritten`).
* `spinlock_preempt` draws its ticket before it calls `disable()`. A timer
  interrupt in that window makes `schedule()` wait for ever on its own queue
  lock (`scheduler.cpp:609`).

**RwLock.** `rwlock_base` over its two spinlocks. `readers`, released by who
took it, is a queue; `global`, released by whoever is last, is kept as two
ticket counters. The code says of itself "TODO: broken" (`rwlock.cppm:37`); what
the module finds broken is the assertion of `write_unlock()` (section 5).

**Mutex.** `lib::mutex` over `lib::semaphore`. The body of a semaphore method is
one step (it runs under a spinlock with interrupts off). `wake_up` is a step of
its own after it, as in the code.

**Sched.** Per-CPU queues and the steps of `schedule()`, `yield()`, `wake_up()`,
`sleeper()`, `reaper()` and `spawn()`. `schedule()` is cut in two where another CPU can
interfere: after it releases the `sleep_lock` (`Interrupt`) and before it tests
the status again (`Switch`). The loop of `sleeper()` over the sleep queue is the
recursive function of its states (`Swept`). vruntime is kept relative to the lowest
one that competes.

`semaphore::signal()` restores the interrupts before it calls `wake_up()`, so a
thread that signals can be preempted between the two (`Signal`, `EnterWakeUp`,
`WakeUp`). Signals also come from interrupt handlers, on the boot CPU, to which all
lines lead, with interrupts off throughout (`HandlerSignal`, `HandlerWakeUp`; the
handler of the power button is one, `acpi.cpp:151`). Such a handler may arrive in
`yield()` after line 413, while the thread it interrupts still holds its
`sleep_lock`; if it signals that very thread, `wake_up()` spins for ever on its own
CPU (`SelfDeadlock`).

Every CPU has a reaper. No thread ever dies in this version (nothing sets
`killed`), so it finds nothing and goes to sleep once and for all, but by a path
of its own: it sets its status at line 486 without `prepare_sleep()`, so that
interrupts are on until `yield()` has entered it in the sleep queue at line 410. A
timer before that leaves it in no queue (pc `dozing`); one inside the insertion
leaves the tree half linked, and what the sleeper then does is undefined: the
model stops there (`torn`). Once asleep, it stays in the sleep queue, without
timeout, behind or before the others.

### Boot

**InitGraph.** `lib::initgraph`. Constructors register in any order
(`RealiseNode`, `RealiseEdge`), then `Run("pre")`, its `Activate` rounds and
`Finish`, then the same for the second engine. An edge is registered once and
leads from one node to another.

**Smp.** `cpu::init()`, `boot_cores()`, the trampoline `smp.S` and
`core::entry()`, in the two builds: with the boot loader's help, and without. One
hand-over block and one temporary stack serve all processors in turn, so a slow
processor may still read them when the next one is prepared. Every wait gives up
with a panic; which try succeeds is left open. `ProcessorsApart` is what the
order "copy the block, set the flag, then jump" is for.

**KernelModule.** The loader of kernel modules, `system/bin/elf/module.cpp`: a
module file is checked, its segments get address space and pages, it is relocated and
protected, its modules are registered; every way out in the middle cleans up.
Module files are records of what the loader looks at. `alloc_vspace(max_size)` is
given bytes, `klookup` finds only symbols of the kernel, a name that is taken
panics, and all pages of a file go to its first module.

### Memory

**Pmm.** The buddy allocators, with pages as the unit. `alloc()` and `free()` run
under `pmm::lock` and are one action each. `reclaim_bootloader_memory()` and
`add_range()` take no lock (`pmm.cpp:508`) and are called by a thread while other
threads and CPUs run (`boot/kernel.cpp:17`): `ReclaimBegin` and `ReclaimEnd` are
two actions, and an `alloc()` or `free()` in between (`Overlap`) is a data race on
the free lists, after which the model says nothing (phase `raced`). `next_paddr`
is the chain of buddies a block was split from; lists are sequences, head first.
Each loop of the code is a step (`AddBlock`, `SplitOnce`, `MergeOnce`, `AddEntry`,
`PfndbAlloc`, `ReclaimEntry`) and the recursive function that takes it as often as
the loop does. `init()` is one action: `Initialised` is the state it leaves, or
says that the bootstrap allocator ran out, which `BootPanic` is about.

**Pagemap.** Tables of `Fanout` entries on `Levels` levels with the page sizes
of the code: `map` (with its choice of a size), `map_alloc`, `protect`, `unmap`,
`unmap_dealloc`, `translate`, the mappings `init()` makes, slabs, and the creation
and destruction of address spaces, which share the upper half. `Walk` is the
processor's own walk, the reference `WalkExact` compares with. `map`, `unmap`,
`protect` and `translate` hold the lock of their pagemap and are one step each.
`map_alloc` and `unmap_dealloc` hold it for one page at a time, and
`alloc_vspace()` reads and advances `vspace_base` without any lock
(`pagemap.cpp:391-396`): two mappers interleave (`VspaceRead`, `VspaceWrite`,
`MapPage`, `UnmapPage`), and when they meet there they get the same address
(`raced`).

`init()` rounds an entry of the memory map out to the pages it maps it with, and so
over its neighbours (`pagemap.cpp:323-341`). The run tries three memory maps: the
neighbour is not mapped; it is mapped later, with smaller pages, and the walk takes
the large page for a table (`getlvl()` does not look at the page bit, line 29;
`Undercut`, after which nothing is claimed); it was mapped before, and its table is
laid over by the large page and lost (`Overlaid`, `orphans`). Behaviour worth
knowing besides: the last page of `map_alloc` keeps an uninitialised `next`
(`pagemap.cpp:162-168`); bit 12 (`lpat`) lies inside `pa_mask`; `unmap_dealloc`
frees one page whatever the page size; no other CPU is told of a change.

**Vmspace.** The mapping tree of a process with the entries of its page table,
`mmap`, `munmap`, `mprotect` and the page fault handler. There is no `fork` or
`clone` and a process has one thread, so each call is one action. The tree is the
sequence of its elements; `Erase` takes out what lies between the lower and the
upper bound of a key, so every element with the same first page, as `erase(key)`
of a multiset does, and `Emplace` puts an element at the upper bound. A loop over
the mappings is the function of its states after each of them. An object page
stands for its frame; which page tables exist is state, since `protect()` depends
on it. `outcome` says how the kernel stopped, if it did: a fault that is not
handled, or is found "already mapped", ends in the panic of the exception handler.
`mmap()` hands the flags of its caller through (`memory.cpp:79`), so a process can
make mappings of its own untouchable (bit 0x40), as the stack is: `munmap` and
`mprotect` pass over them, and `map` is refused there. Lengths and offsets that
are not a multiple of the page size are refused by the code before they change
anything and are left out; so are pages above the stack, and the write-only and
executable rights.

### Files

**Vfs.** Dentries, inodes, mounts, `resolve`, `reduce`, `pathname_from`, and
`create`, `symlink`, `link`, `unlink`, `mount`. Calls are atomic: the unpacking of
the initramfs is one thread, and later there is one user thread. Walks are
recursive functions with `StackMax` and `WalkMax` as their limits. Behaviour worth
knowing: `..` from a directory in the root of a mount lands on the covered
directory; `create`, `symlink` and `link` do not test that the parent is a
directory; a hard link of a symbolic link leads nowhere; `link()` computes
`follow_links` and does not use it (`vfs.cpp:383`); a mount over "/" is not seen.

**Files.** The descriptor table and the calls on it (`openat`, `close`, `dup`,
`dup2`, `dup3`, `fcntl`, `read`, `write`, `pread`, `pwrite`, their vector forms,
`lseek`), open files, and tmpfs with the memory objects that hold the contents.
Numbers of type `size_t` wrap modulo `Width`. `O_DIRECTORY` with `O_RDONLY` is
always refused, a created file has no type bits, negative offsets of `pread`
and `pwrite` are not refused, and the length of a read that starts behind the end
wraps (`tmpfs.cpp:48`), which is why `ContentsSound` speaks of reads that start
inside. The module is the build without assertions. Stores through a `MAP_SHARED`
mapping of a file are not in it: `ContentsSound` is about descriptors.

### ACPI, interrupts and time

**AcpiWork.** Two queues and two workers that share the semaphore `added`, and
`uacpi_kernel_wait_for_work_completion()`. The first GPE may wake the notify
worker and lie there until the next signal; `completed.signal(true)` is dropped if
nobody sleeps yet; handlers run with the lock of the queue held. The properties
say that these are the only ways for work to be stranded and waiters to hang.
GPE work is also scheduled by the interrupt handler of the power button, on the
boot CPU (`IrqEnter`, `IrqQueue`, `IrqSignal`). The lock of the queue leaves
interrupts on, so the handler can arrive while a thread of its own CPU (`OnBsp`)
holds the lock or has drawn a ticket for it, and then spins for ever (`Stuck`);
`AwakeWorkerRuns` says that nothing else keeps an awake worker from its queue. In the
run the gpe worker and the waiter are on the boot CPU and the notify worker is not.
Threads that call `schedule_work()` themselves are taken to run on other CPUs.

**AcpiEvent.** The event with its compare-and-exchange and waits of 10 ms. Before
the scheduler runs, the wait is a stall whose argument is a `uacpi_u8`, so that
10 ms become 16 microseconds (`uacpi.cpp:331`): `GivesUpLate` leaves exactly that
case out.

**Irq.** Lines, I/O APICs with overrides, the PIC, `isr_handler`, and the three
that install handlers. An interrupt may come between any two steps. Flags of an
override (polarity, trigger) are dropped by the code (`ioapic.cpp:84`); an
override onto a legacy gsi other than 2 is overwritten by the line that comes
later; `allocate()` does not reserve the vector in the legacy range; an interrupt
pending after `reset()` is dropped. `gsi <= end` (`ioapic.cpp:115`) is one too
many: a gsi that is the first of the next I/O APIC goes to a missing pin of the
one before, and its interrupts are lost. A machine with I/O APICs whose MADT does
not say that there are PICs (`pics`) unmasks lines that were routed to no vector
(`NoVector`). `LinesReachHandlers` excepts these two machines and no other.

**Clocks, WrapClock.** The choice of the main clock, offsets on a change, and the
counters of each CPU; and the extension of a counter that wraps (hpet, acpipm). A
call overtaken between reading the counter and loading `last` puts the clock a
period ahead for ever (`hpet.cpp:56`, `acpipm.cpp:88`): `ExactUnlessOvertaken`
says it is the only way. The frequency of the tsc is measured with two `rdtsc`
that bracket the calibrator (`tsc.cpp:79-83`), so it comes out high or exact and
the tsc runs slow: in `Tick` real time advances and the tsc may lose the tick
(`lag`). What it loses between `init_cpu()` on a CPU and `finalise()` is by how
much that CPU's time goes back when it first reads the tsc. Besides, the tsc task
is not ordered after that of the hpet, and one order takes the boot CPU's time
back by the gap between the readings. `TimeNeverBack` allows these two (`Behind`),
once on each CPU, and nothing else. hpet and acpipm are registered even if the
machine lacks them: `supported()` is only logged (`hpet.cpp:149`,
`acpipm.cpp:144`); the module assumes that it has them. kvmclock does not test the
version again (`kvm.cpp:63`), which is the host's affair and left out.

### Composition

Parts that share state are in one module. **Boot** (boot graph, module loader,
ACPI work and events), **Platform** (interrupts, processors, clocks, guards),
**FileSystem** (Vfs and Files), **Locks** (RwLock and Mutex) and **MCMemory** (Pmm
and Pagemap) put together modules of one area that share no state; the proofs
extend all but the last as well: a behaviour belongs to one `part`, chosen at the
start, and the other parts rest. Every part is thus checked on all its own
behaviours, and nothing is lost, since a step of one cannot disturb the other. The
remaining `MC...` modules give constants their values.

## 4. Runs

| Run | Instance | What it shows |
|---|---|---|
| ticket_lock | 3 callers, counters modulo 4 | mutual exclusion, tickets accounted for across wraps, `unlock()` by the holder is never refused, FIFO, every ticket is served, refinement of FifoLock |
| rwlock | 3 threads, counters modulo 5 | readers exclude the writer, the count is exact, assertions of read_unlock and upgrade, the one case in which that of write_unlock fails, readers progress |
| mutex | 3 threads, at most 5 signals | exclusion, count and list agree, no lost wake-up, every `lock()` returns |
| sched_one_cpu | 1 CPU, sleeper, reaper, 2 workers, signals from workers and from a handler | no panic, one place per thread but an interrupted reaper, held sleep locks are on their way out; ready, signalled and timed-out threads run unless the CPU stops in one of the two ways that are named |
| sched_two_cpus_panic | 2 CPUs, 2 sleepers, 2 reapers, 2 workers | finding: a wake-up between line 656 and line 667 leads to a panic |
| boot | graph: 3 nodes, both engines, all graphs; loader: any subset of 7 module files | counts and queue exact, dependencies first, reasons for a panic, boot ends; every page of the loader is owned, with the protection of its segment, or returned |
| vmspace | 5 pages, 2 pages per table, one anonymous and one file object, lengths 0 to 3 | mappings disjoint, a region offered is free unless an empty mapping lies inside another, munmap, mprotect and map change exactly the pages asked for, mprotect panics only over untouched pages or makes them page 0, the page table follows the tree |
| vmspace_copy_on_write | same | finding: copy on write waits for a lock its caller holds |
| memory | allocator: 15 pages, orders 0 to 2; tables: 3 levels of 4 entries, 18 frames, 2 page sizes, 3 memory maps, 2 threads that map slabs | every page in one place and metadata true unless a call met the reclaim, panic only if exhausted; the processor sees exactly what was mapped and nothing is leaked, with the memory maps and the race in which this fails named exactly |
| file_system | names: 2 names, paths of 2 segments, 6 dentries, 2 mounts; table: 4 descriptors; contents: 8 values of `size_t` | dentries, inodes and link counts agree, an operation changes one name, path names lead back; an open descriptor keeps its file; holes are zero and cut bytes never return |
| acpi | 2 works of each kind, from threads and the interrupt handler, one waiter with one call; 2 event waiters, 2 signals, timeouts 0, 15 ms and none | when work is stranded and waiters hang; awake workers run their work unless the handler spins on its own CPU; a signal is consumed once, waiters give up late |
| platform | 5 processors, 4 usable; 5 lines on 6 machines; 5 clocks on 2 CPUs; a counter of period 4; 3 threads on 2 CPUs | processors get their own data, lines reach handlers, when and by how much time goes back, wraps are counted once, guards guard |

**Bounds.** The ticket modulus is the number of callers plus one (plus two for
RwLock), the least for which tickets stay distinct, so that wrapping happens
all the time. Three threads are a holder and two that compete, or two readers
and a writer. `MaxSignals` of Mutex bounds the signals a mutex piles up when it is
not contended: a method is entered only while all outstanding signals fit, so the
bound never cuts a call in the middle. In Sched `MaxLag` and `MaxRun` of one
unit suffice to distinguish equal, behind and far behind; `MaxSleep = 2` lets
two sleepers have different deadlines. Two workers are enough for a thread that is
preempted between `signal()` and `wake_up()` and the one it is to wake, with the
reaper and the handler beside them. Three nodes give all
circles of length two and three, and edges in both directions across engines.

In Pmm the map has a usable entry that begins at page 0, a boot loader entry in
the second zone, a kernel entry, and a usable entry of eight pages that starts
unaligned, so that add_range has to cut it; `MaxUsed` bounds `mem.used`, which
drifts upwards, and `MaxBootAllocs` the pages taken before `init()`, enough to
make it fail for want of `Reserve` pages. In Pagemap three levels give a leaf of a
larger size above a table, the direct map crosses a table, and slabs and processes
map across two tables; eight pages in two entries, cut at 3 or at 5, give the
three ways in which a rounded entry meets its neighbour, and two pages of kernel
address space are just enough for two slabs, or for a race. The module files fail
once at each way out, and their segments begin and end inside pages. In Vmspace
the lengths allow a mapping to be cut at either end and in the middle; two pages
per table put one table under two mappings. `MaxMappings` bounds the tree a call
starts from (the call may leave it larger), `MaxOffset` the offset into a file,
which is 0 in the run: the offsets that matter to the properties are those that
splitting makes; the interpreter and the stack take three of the `NumPages` pages.

In Vfs the links say `../b`, so that a link crosses directories and mounts and may
lead to itself; six dentries are enough for a mount in a directory with a link
beside it. In Files a `Width` of 8 lets a negative offset be a large position; the
process starts with descriptors 0 to 2 and `next_fd` at 2, and may close them, so
that `allocate_fd()` meets both a free `next_fd` and a search upward. In AcpiWork
two works of each kind let one be stranded while another arrives, and the handler
and a thread schedule in either order; the waiter calls once, since a second call
starts from the state in which the first one did. The event's timeouts are none,
one that is not a multiple of the interval, and the value for "for ever". Four
usable processors let the block be used three times. The wrapping counter runs
three periods.

The exact contracts of Vmspace (`UnmapExact`, `ProtectExact`, `MapExact`,
`EntriesFollowTree`) hold from every state that is `Tidy`. States that are not
tidy are reachable and are checked for types, disjointness and the region that is
offered: `map()` puts
an empty mapping behind a mapping it cuts at the end (line 211 tests `endp`
where `tailp` is meant), and `erase()` by key can then take the mapping that
begins on the same page with it, the stack included. `MapExact` also leaves out
the offset of what remains of a mapping that began inside the range: line 215
computes it from the length of the range. `FreeRegionFree` is not restricted to
tidy states: it holds unless such an empty mapping lies *inside* another mapping
(`Nested`). Then the subtraction at `vmm.cpp:442` wraps, every length fits into the
"gap", and `mmap()` may be given a region that is mapped, the stack included, which it
replaces or at which it fails. TLC reaches that state after a few calls.

**Deadlock** is checked except in mutex (callers may stop calling when the signals
are at the bound), the scheduler (a torn queue, a panic or a handler that spins on
its own CPU stops the machine), vmspace and the four composites (boot ends, a
panic stops the machine, and callers stop at the bounds). That nobody waits for
ever is stated as a property there where the code promises it.

**Fairness.** A CPU that spins, or holds a spinlock, keeps executing: weak
fairness of the steps inside methods, and of a holder's release. Callers need
not call again. `schedule()` arms the timer each time, so interrupts keep coming
(weak fairness of `Interrupt`, `Switch`). The sleeper may be preempted before it
starts its round but is scheduled again and again and a time slice is longer
than the way to `disable()`: strong fairness of `SleeperRound`. So is a thread
between `signal()` and `wake_up()`: strong fairness of `EnterWakeUp`. In `wake_up()`
and in a handler interrupts are off: weak fairness of `WakeUp` and `HandlerWakeUp`,
which are not enabled while the `sleep_lock` is held. The reaper is under no
obligation. The boot thread
runs and tasks return. The ACPI workers, once awake, are scheduled and their
handlers return (weak fairness of their steps in AcpiWork); while the interrupt
handler spins on the boot CPU the steps of the threads there are disabled, so
fairness asks nothing of them. The lock of a queue
is an `rwspinlock`, whose inner ticket lock serves in order, so taking it is not
put off for ever: strong fairness of `WorkerLock`, `ReadGpe` and `IrqQueue`. Nothing
makes new work arrive.

## 5. Findings and observations

Two findings are runs that fail:

* On two CPUs `schedule()` can insert a thread into the run queue that is still
  in the sleep queue (both use one tree hook), and later panics
  (`scheduler.cpp:656`).
* Copy on write calls `map()` with the lock of the tree held (`vmm.cpp:478`), and
  is entered by any user fault on a private mapping that was split, because
  `by_write` is taken from bit 2 of the error code, not bit 1 (`idt.cpp:115`).

Others appear as the exact exception a property makes, or were met on the way:

* `write_unlock()` asserts `is_write_locked()`, which demands `counter == 0`, but
  a reader increments `counter` before it waits for the writer
  (`rwlock.cppm:64`); `UnlockAssertion` says that this is the only case.
* `mprotect()` of pages whose page table does not exist yet panics
  (`vmm.cpp:357`). If the table exists, `pagemap::protect` sets the flags on an
  entry that is empty (`pagemap.cpp:186-197`), and the page nobody touched yet is
  then mapped to physical page 0 with the rights asked for; `ProtectExact` says that
  these are the only cases.
* `find_free_region()` may offer a mapped region once an empty mapping lies inside
  another one (`vmm.cpp:442`, an unsigned subtraction that wraps).
* The reaper sets its status to sleeping with interrupts on (`scheduler.cpp:486`);
  an interrupt before line 410 loses it, one inside the insertion tears the sleep
  queue. Nothing needs the reaper yet, but the queue is everybody's.
* An interrupt handler that signals the thread it interrupted in `yield()`, between
  lines 413 and the switch, spins for ever on that thread's `sleep_lock`.
* `uacpi_kernel_schedule_work()` in interrupt context takes a lock that leaves
  interrupts on (`uacpi.cpp:514-521`), and can spin on its own CPU for ever.
* `reclaim_bootloader_memory()` takes no lock (`pmm.cpp:508-523`): an allocation at
  the same time may lose a page or hand one out twice.
* `alloc_vspace()` takes no lock (`pagemap.cpp:391-396`): two callers may get the
  same addresses.
* An entry of the memory map that is rounded out to large pages over a mapped
  neighbour (`pagemap.cpp:323-341`): mapped after it, the neighbour is written into
  the page itself as if that were a table; mapped before it, its table is lost.
* The measured frequency of the tsc is high (`tsc.cpp:79-83`), so that time goes
  back on every CPU when the tsc takes over, by what it lost since `init_cpu()`.
* The comment about starvation at `scheduler.cpp:575` is not what line 578 does: a
  timed sleeper comes back ahead of all that waited.
* `symloop_max` (`vfs.cppm:11`) does not bound a walk: `resolve()` and `reduce()`
  call each other with fresh counters (`vfs.cpp:193`, `231`). A walk that does not
  end counts as a failed call in Vfs.
* `bug_on(!created->dentry || created->dentry->inode)` after a file was created
  (`syscall/vfs.cpp:200`) fires for every created file in a debug build.
* `F_DUPFD` duplicates the descriptor its argument names, not `fd`
  (`syscall/vfs.cpp:671`).
* The product at `lapic.cpp:144` has 32 bits, that at `tsc.cpp:83` has 64.
* `check` at `acpi.cpp:130` captures `ret` by value, so the panic at line 133 is
  never reached.

## 6. Proofs

TLAPS proves the theorems below for every value of the constants that satisfies
the named assumptions. Every safety invariant has the same shape: an inductive
invariant (`IInv`, `WorkInv`, `VmInv`, ...) that holds initially, is kept by each
action and implies the property. What the strengthening adds, and why:

**TicketLockProofs** (any finite set of callers, any modulus larger than their
number: `FewerThreadsThanTickets`; the code has 2^64). Type correctness,
`TicketsAccounted`, mutual exclusion, that the holder's `unlock()` is not
refused, and that the ticket lock implements FifoLock. Mutual exclusion alone is
not inductive: that nobody else is served after a release needs distinct tickets,
and that a fresh ticket is distinct after a wrap needs that the distance of the
counters is the number of outstanding tickets. `TypeOK /\ TicketsAccounted` is
inductive, with lemmas on the arithmetic of wrapping counters. For the refinement
the outstanding tickets have to be *without a gap*: by the pigeonhole principle
their distances are 0, 1, 2, ..., so that the abstract queue, which orders callers
by distance, grows at its end by a draw and loses its head by a release.

**LocksProofs**, reader-writer lock (any finite set of threads, a modulus with
room for one ticket a thread and one for the readers: `TicketModLarge`).
`RwLockSafe`: exclusion, the exact count and the assertions. The ticket the
readers hold together is released by another thread than the one that drew it, so
who holds `global` is told from the program counters alone (`SharesApart`), and
`GlobalBooks` ties its counters to the threads that wait.

**LocksProofs**, mutex (any finite set of threads, any bound on signals).
`MutexSafe` and that a `signal()` which finds a negative count finds a thread in
the list. The invariant tells each sleeper apart: in the list once, or the target
of one `wake_up` under way, never both (`SleepersKnown`); the length of the list
is the negative part of the count (`Listed`).

**PmmProofs** (any memory map whose entries are in order and apart, any largest
order, zone boundaries, sizes asked for and pages the pfndb takes:
`PmmAssumption`). `MemoryAccounted`. The property speaks of lists and of `struct
page`; the inductive invariant (`Inv`) of the *heads*, the first pages of blocks.
`Tiles` says that the blocks with these heads and the orders in `struct page` are
aligned, stay in one zone and fill the memory without overlap; `Chains`, that
`next_paddr` of a head is 0 or the page right behind its block, in the same zone;
`Lists`, that the free lists hold the heads that are not allocated, each once and
where its order and its zone put it. That makes the test in `coalesce_to()`
sufficient: the page behind a block can only be a head, so what its `struct page`
says is true, and a free one of the same order is on the list from which it is
removed. `Books` ties the blocks that are allocated to those handed out and to the
pfndb. `mem.used` counts the pages of allocations but is given back only what
callers name, so that it stays a natural number needs a count: it is at least the
number of pages in use and of those the boot loader still has. While the reclaim
is under way nothing else changes the allocators unless it races, which ends what
is claimed; the state a race leaves is not described, and `MemoryAccounted` says
so. One lemma for each step of a loop, and one for each loop.

**SchedProofs** (one CPU, any set of workers, any bounds). `SchedSafe`. The
hypothesis `Cpus = {c}` is needed: with two CPUs it is false, as the run
sched_two_cpus_panic shows. That a thread is in one place becomes inductive when
its status says which (`Placed`, `Known`): a sleeping thread is in the sleep queue
and yields, or is a reaper on its way there, which is in no queue. `OnCpu` says what
the CPU runs and what it holds in hand, `Waking` that a thread in `wake_up()` is the
one that runs and that who signals, thread or handler, has a worker as its target,
and `LockLeft` that whoever holds its `sleep_lock` is still on the CPU, not yet in
`schedule()`, and sleeps.

**BootProofs**. The graph (any finite set of nodes, any graph): type correctness,
`CountsExact`, `OutcomeTrue`, and the action property `DependenciesFirst`. The
invariant adds `Bookkeeping`, which ties `wanted` and `done` to the phase and says
that `done` is closed under predecessors: without it a node of the first engine
could be pending when the second starts, and circles could not be excluded.

The loader, `MemoryOwned` (any module files, any finite set of frames, any page
size: `KernelModuleAssumption`): the frames in use and the entries of the page
table are exactly those of one pool, the pages of the file being loaded and of the
modules, and no two of its members share an address or a frame (`LoaderBooks`).
Where the loader stands says whether the file has pages yet (`LoaderStages`),
which is what makes every way out clean up all or nothing. That the protection is
that of the segment has to be carried from `protect` to the registration and kept
while later files are laid out: `CurLaidOut` and `ModulesLaidOut` say that pages
lie in a row from the base of their module, and the page is entered with the
rights of the first segment that covers it.

ACPI (any waiters, works, timeouts and bounds; the workers are no waiters, event
waiters are finite). Events: `SignalsCounted` counts signals against winners,
`TimeAccounted` weighs what has been slept against what is left. Work: it is run
in order (`RunInOrder`), the semaphore `added` agrees with who waits
(`AddedExact`), every piece has a signal, a worker on its way or a wake-up that
went to the other worker (`WorkSignalled`), with the handler between queue and signal
as one more caller that owes one, and a waiter that sleeps knows of a
report to come, or missed it (`ReportsKnown`).

**VmspaceProofs** (address spaces of any size, any lengths, offsets and objects:
`Bounds`). `MappingsSound`, `ChangesExact` and the action property
`EntriesFollowTree`, with the exceptions named above (`Nested`, page 0, `Tidy`) in
their statements, and untouchable mappings of the process itself. `TypeOK /\
DisjointMappings` is inductive; `ProtectExact` needs in addition that an entry
lies in a table that exists (`TablesKnown`). On an ordered sequence `erase()`
removes the mappings with one key and `emplace()` adds one, so a round of a loop
replaces one mapping by pieces within it. Over the rounds, `Progress` says that
each mapping lies within one already treated or is one still to come, `Vacant`
that `map()` has emptied its range as far as it got, and `PageInv` gives for each
page what is behind it and its entry, its frame included. The contracts of the
three calls are read off `PageInv` after the last round.

**FileSystemProofs**. Open files (any width of `size_t` over 1, any process that
starts with descriptors 0 to 2: `FilesAssumption`): `ContentsSound` and the action
property `DescriptorsKept`. `FilesInv` types files and descriptors and says of
each inode that its memory behind the end is zero. That is what a write behind the
end relies on when it leaves a hole, and what truncation must restore. The search
of `allocate_fd()` ends at a free number because only finitely many are taken.

The name space, `TreeSound` (any names, link targets and bounds:
`VfsAssumption`). An operation works on the dentry a walk chose, so what a walk
may return has to be known first. `Space(t, top)` gives every dentry the root of the
tree it is in (`top`) and says that a mount covers a path of an *earlier* mount,
so that going up through mounts ends. A path is good if its dentry is in the tree
its mount shows. Under `Space`, one step of `resolve()` or `reduce()` keeps every
frame of the walk good (`WalkOK`); the frame at the bottom, that of the path asked
for, stands in a directory, and a walk that succeeds ends at an entry of that
directory or at what is mounted on it (`Bottom`, `Ended`). `create`, `symlink` and
`link` test that the path does *not* resolve, which is not the same as that the
name is free: `Vacancy` shows that it is, when the parent resolved to a directory,
by following the walk of the path and the walk of its parent in lock-step. The
link counts are never too small, and exact while all names are in directories
(`Linked`): `create()` in something that is no directory replaces a name
without taking a link away, so exactness is lost there, and no `unlink()`
finds such a name again.

**PlatformProofs**. The counter that wraps, `ExactUnlessOvertaken` (any period
over 2, any callers): `CounterRecent` says that no period passes between two
stored values, `CounterAhead` that what is kept is a whole number of periods
ahead, one for each overtaken call. The guards, `PreemptGuardsHold` and
`IrqGuardsHold` (any CPUs and threads): the queue of the lock agrees with who is
in it, the counts with who runs, and a CPU leaves behind only threads outside of
the guarded part until one of the named races has happened. The processors,
`ProcessorsApart` (any table in which usable processors have distinct ids):
`SmpOrder` says that those before the current one have taken their block and those
after it are untouched; that all are online at the end counts them. The clocks,
`TimeNeverBack` (any CPUs and starting values, only the tsc differs between CPUs,
and loses any number of ticks): `TimeAhead` bounds how far each clock is ahead, or
the tsc behind, and `TimeSeen` what a CPU was told. The lines,
`LinesReachHandlers` (any machine whose MADT overrides a source once and gives two
lines no common gsi): `LineRoutes` says whose a redirection entry is, `LineOpen`
that a line is let through exactly while its handler stands, but for the step
between the two.

**Induction over data.** The provers cannot use the induction theorems of the
library. Where a loop or a count needs one (`Swept`, the loops of Vmspace and
Files, the steps of a walk, ranks of tickets), it is proved by a least
counterexample: a nonempty set of naturals has a least element (`LeastNatural`,
from `WFMin` and `NatLessThanWellFounded`), and a recursive function exists and
satisfies its equations because the least index at which it would not cannot exist
(`LoopDefined`).

**Only model-checked.** All liveness (`EveryTicketServed`, `ReaderProgress`,
`EveryLockReturns`, `ReadyThreadRuns`, `SignalledThreadRuns`, `TimedSleepEnds`,
`BootEnds`, `AwakeWorkerRuns`), which is beyond the provers.
`PanicOnlyWhenExhausted`, which needs a stronger invariant than PmmProofs has (see
section 2). `WalkExact` and `NothingLeaked` of Pagemap, for want of an induction
over the levels of a table that the provers would follow. `OperationsExact` and
`PathnamesLeadBack` compare whole walks before and after an operation, or from two
places; TLC compares them for every path within the bounds. `SchedSafe` on two
CPUs is false, and `CopyOnWriteSucceeds` is the other run that fails.

## 7. Not modelled

* PCI enumeration, the console, devices, the real-time clock, timer calibration:
  register I/O in one thread.
* The initramfs, ELF programs, symbol tables and network headers: byte layouts.
  What the initramfs calls is in Vfs.
* Processes, groups and sessions: there is one user process (pid 1, a session
  leader), neither fork nor exit, and `setpgid` always fails. The lock order in
  `change_group()` cannot be put to the test.
* Slab pools: frigg, a library outside the repository. The glue that maps slabs is
  in Pagemap.
* The red-black tree (`lib/rbtree.cppm`), the repository's own code: sequential.
  Sched uses what it promises, an order and one place for a hook, and stops where
  an insertion is cut in two.
* Stores through `MAP_SHARED` mappings of files: Files has the calls on descriptors,
  Vmspace the frames behind a mapping, and nothing has both.
* Contents of the free lists after a race with the reclaim, of the sleep queue after
  an insertion was cut, of the tables after a page was taken for one: undefined, and
  the models stop there.
* `stat`, `getcwd`, `ioctl`, permissions, timestamps; two threads in one name
  space, which this version cannot have.
* Containers, log, panic, C library; the aarch64 port, which is incomplete.

`PROJECT.json` lists every component with its status and the reason.
