-------------------------------- MODULE Pmm ---------------------------------
(***************************************************************************)
(* The physical memory manager (system/memory/pmm.cpp): three buddy        *)
(* allocators for the zones sub1mib, sub4gib and normal, the bootstrap     *)
(* allocator that serves until they are set up, and the counters mem.used  *)
(* and mem.usable.                                                         *)
(*                                                                         *)
(* Addresses and sizes are in pages. The record pm holds what the          *)
(* allocators keep: the free lists (head first) and, for every page, the   *)
(* fields of struct page. next_paddr of the first page of a block is a     *)
(* chain: each split pushes the upper half onto it and each merge pops it, *)
(* so that its top is the buddy with which the block may be merged.        *)
(* alloc() and free() run under pmm::lock and are one action each; init()  *)
(* takes no lock but runs before there is anybody else.                    *)
(* reclaim_bootloader_memory() takes none either, and is called by a       *)
(* thread while others run: it is two actions, and an alloc() or free()    *)
(* between them is a data race on the free lists and on mem.used, after    *)
(* which nothing is known of them (phase "raced").  Memory map entries     *)
(* are whole pages, as the boot protocol has it.                           *)
(***************************************************************************)
EXTENDS Integers, FiniteSets, SequencesExt

CONSTANTS
    MaxOrder,      \* max_order (15 in the code)
    Sub1MiB,       \* the first page above sub1mib
    Sub4GiB,       \* the first page above sub4gib
    Top,           \* the first page above all memory
    MemMap,        \* the boot memory map: [base, length, type] in order
    PfndbPages,    \* pages pfndb_add allocates for one entry of the map
    Reserve,       \* pages pfndb_add leaves in the bootstrap entry (5 in the code)
    MaxBootAllocs, \* bound on bootstrap allocations before init()
    Sizes,         \* the npages callers ask for
    MaxUsed        \* bound on mem.used, which drifts upwards (see Free)

Types == {"usable", "bootloader", "kernel"}
Zones == {"sub1mib", "sub4gib", "normal"}
Pages == 0..(Top - 1)
Orders == 0..MaxOrder

ZoneStart(z) == CASE z = "sub1mib" -> 1 [] z = "sub4gib" -> Sub1MiB [] z = "normal" -> Sub4GiB
ZoneEnd(z) == CASE z = "sub1mib" -> Sub1MiB [] z = "sub4gib" -> Sub4GiB [] z = "normal" -> Top

PmmAssumption ==
    /\ {MaxOrder, Sub1MiB, Sub4GiB, Top, PfndbPages, Reserve, MaxBootAllocs, MaxUsed} \subseteq Nat
    /\ 1 < Sub1MiB /\ Sub1MiB < Sub4GiB /\ Sub4GiB < Top
    /\ MemMap \in Seq([base : Nat, length : Nat, type : Types])
    /\ \A i \in 1..Len(MemMap) : MemMap[i].base + MemMap[i].length <= Top
    /\ \A i, j \in 1..Len(MemMap) :
         i < j => MemMap[i].base + MemMap[i].length <= MemMap[j].base
    /\ \E i \in 1..Len(MemMap) : MemMap[i].type = "usable"
    /\ Sizes \subseteq Nat \ {0}

VARIABLES
    pm,         \* lists, next, order, allocated
    used,       \* mem.used
    usable,     \* mem.usable
    phase,      \* "boot" (initialised = false), "up", "panicked", "raced", or "failed" before it was up
    bootLen,    \* bootstrap_memmap.length
    reclaiming, \* a thread is in reclaim_bootloader_memory
    reclaimed,  \* it has returned
    live,       \* blocks handed out by the allocators: [page, npages]
    pfndb       \* pages init() took from the allocators for the pfndb

vars == <<pm, used, usable, phase, bootLen, reclaiming, reclaimed, live, pfndb>>

\* lib::pow2.
Pow2[k \in Nat] == IF k = 0 THEN 1 ELSE 2 * Pow2[k - 1]
Aligned(pg, order) == pg % Pow2[order] = 0

\* next_order_from and prev_order_from of a size in pages.
NextOrder(n) == CHOOSE k \in 0..n : Pow2[k] >= n /\ (k = 0 \/ Pow2[k - 1] < n)
PrevOrder(n) == CHOOSE k \in 0..n : Pow2[k] <= n /\ Pow2[k + 1] > n

-----------------------------------------------------------------------------
(* Mutations: plausible bugs in the definitions below.                     *)

\* split_to() forgets the chain of the block it splits.
BugSplitNext(p, pg, buddy) == [p.next EXCEPT ![buddy] = 0, ![pg] = buddy]

\* coalesce_to() does not test that the buddy is free.
BugMergeable(p, order, curr) ==
    LET buddy == p.next[curr]
    IN  buddy # 0 /\ Aligned(curr, order + 1) /\ p.order[buddy] = order

-----------------------------------------------------------------------------
(* Free lists. *)
Put(p, z, order, pg) == [p EXCEPT !.lists[z][order] = <<pg>> \o @]
Rem(p, z, order) == [p EXCEPT !.lists[z][order] = Tail(@)]
HasPages(p, z, order) == p.lists[z][order] # <<>>

\* allocator::add_range: cut the range into the largest aligned blocks, one after
\* the other.
BlockOrder(base, size) == Max({k \in Orders : Aligned(base, k) /\ k <= PrevOrder(size)})
AddBlock(st, z, end) ==
    LET order == BlockOrder(st.base, end - st.base)
    IN  IF st.base = end THEN st
        ELSE [pm |-> Put([st.pm EXCEPT !.order[st.base] = order], z, order, st.base),
              base |-> st.base + Pow2[order]]
AddBlocks(p, z, base, end) ==
    LET run[i \in 0..(end - base)] ==
            IF i = 0 THEN [pm |-> p, base |-> base] ELSE AddBlock(run[i - 1], z, end)
    IN  run[end - base].pm

\* The part of the range base..end-1 that lies in zone z.
Larger(a, b) == IF a > b THEN a ELSE b
Smaller(a, b) == IF a < b THEN a ELSE b
AddToZone(p, z, base, end) ==
    LET s == Larger(base, ZoneStart(z))
        e == Smaller(end, ZoneEnd(z))
    IN  IF s < e THEN AddBlocks(p, z, s, e) ELSE p

AddToZones(p, base, end) ==
    AddToZone(AddToZone(AddToZone(p, "sub1mib", base, end), "sub4gib", base, end),
              "normal", base, end)

-----------------------------------------------------------------------------
(* split_to(target): take the smallest larger block apart, upper half first. *)
SplitNext(p, pg, buddy) == [p.next EXCEPT ![buddy] = p.next[pg], ![pg] = buddy]

SplitOnce(p, z, current) ==
    LET pg == Head(p.lists[z][current])
        half == current - 1
        buddy == pg + Pow2[half]
        q == [Rem(p, z, current) EXCEPT
                !.order = [p.order EXCEPT ![pg] = half, ![buddy] = half],
                !.next = SplitNext(p, pg, buddy)]
    IN  Put(Put(q, z, half, pg), z, half, buddy)
SplitDown(p, z, top, target) ==
    LET run[i \in 0..(top - target)] ==
            IF i = 0 THEN p ELSE SplitOnce(run[i - 1], z, top - i + 1)
    IN  run[top - target]
SplitTo(p, z, target) ==
    LET larger == {k \in Orders : k > target /\ HasPages(p, z, k)}
    IN  IF larger = {} THEN p ELSE SplitDown(p, z, Min(larger), target)

-----------------------------------------------------------------------------
(* coalesce_to(target): merge pairs of free buddies, from order 0 up.      *)
Mergeable(p, order, curr) ==
    LET buddy == p.next[curr]
    IN  /\ buddy # 0 /\ Aligned(curr, order + 1)
        /\ ~p.allocated[buddy] /\ p.order[buddy] = order

\* The inner loop starts again at the head of the list after every merge, of
\* which there are fewer than blocks.
MergeOnce(p, z, order) ==
    LET list == p.lists[z][order]
        pairs == {i \in 1..Len(list) : Mergeable(p, order, list[i])}
        curr == list[Min(pairs)]
        buddy == p.next[curr]
        q == [p EXCEPT !.lists[z][order] = RemoveFirst(RemoveFirst(@, curr), buddy),
                       !.order[curr] = order + 1,
                       !.next[curr] = p.next[buddy]]
    IN  IF pairs = {} THEN p ELSE Put(q, z, order + 1, curr)
CoalesceOrder(p, z, order) ==
    LET run[i \in 0..Len(p.lists[z][order])] ==
            IF i = 0 THEN p ELSE MergeOnce(run[i - 1], z, order)
    IN  run[Len(p.lists[z][order])]
CoalesceTo(p, z, target) ==
    LET run[k \in 0..target] == IF k = 0 THEN p ELSE CoalesceOrder(run[k - 1], z, k - 1)
    IN  run[target]

-----------------------------------------------------------------------------
\* allocator::alloc: the allocator afterwards and the block, 0 for nullptr.
TakeBlock(p, z, order) ==
    LET ret == Head(p.lists[z][order])
    IN  IF HasPages(p, z, order)
        THEN [pm |-> [Rem(p, z, order) EXCEPT !.allocated[ret] = TRUE], ret |-> ret]
        ELSE [pm |-> p, ret |-> 0]
AllocIn(p, z, order) ==
    LET split == IF order = MaxOrder THEN p ELSE SplitTo(p, z, order)
        q == IF HasPages(p, z, order) THEN p
             ELSE IF HasPages(split, z, order) THEN split
             ELSE CoalesceTo(split, z, order)
    IN  IF order > MaxOrder THEN [pm |-> p, ret |-> 0] ELSE TakeBlock(q, z, order)

\* pmm::alloc of type tp once initialised: the zone, then its fallback.
AllocType(p, tp, order) ==
    LET first == AllocIn(p, tp, order)
    IN  IF first.ret = 0 /\ tp = "normal" THEN AllocIn(first.pm, "sub4gib", order)
        ELSE first

\* allocator::free: the order it computes from npages and what it reports.
FreeOrder(npages) == NextOrder(npages)
FreedSize(npages) == npages

-----------------------------------------------------------------------------
\* pmm::add_range on the state st = [pm, used, usable].
AddRange(st, base, size, freeing) ==
    LET counted == IF freeing THEN st ELSE [st EXCEPT !.usable = @ + size]
        first == IF base = 0 THEN 1 ELSE base
        left == IF base = 0 THEN size - 1 ELSE size
    IN  IF size = 0 THEN st
        ELSE IF base = 0 /\ size < 2 THEN counted
        ELSE [counted EXCEPT
                !.pm = AddToZones(@, first, first + left),
                !.used = IF freeing THEN @ - left ELSE @ + (size - left)]

\* bootstrap_alloc takes the largest usable entry, from its end down.
Usable == {i \in 1..Len(MemMap) : MemMap[i].type = "usable"}
Bootstrap ==
    CHOOSE i \in Usable : \A j \in Usable :
        \/ MemMap[i].length > MemMap[j].length
        \/ MemMap[i].length = MemMap[j].length /\ i <= j

\* init(), second loop: usable entries to the allocators, the rest is counted.
AddEntry(st, i) ==
    LET e == MemMap[i]
    IN  CASE i = Bootstrap -> st
          [] i # Bootstrap /\ e.type = "usable" -> AddRange(st, e.base, e.length, FALSE)
          [] OTHER -> [st EXCEPT !.used = @ + e.length, !.usable = @ + e.length]

\* bootstrap_alloc has a page to give, when len pages of its entry are left.
BootBase == MemMap[Bootstrap].base
Serves(len) == len > 0 /\ BootBase + len - 1 >= Sub1MiB

\* init(): alloc() for the pfndb of the bootstrap entry, from normal if it has
\* pages and from the bootstrap allocator otherwise.
PfndbTake(st, r) ==
    IF ~st.ok \/ st.len < Reserve \/ (r.ret = 0 /\ ~Serves(st.len)) THEN [st EXCEPT !.ok = FALSE]
    ELSE IF r.ret = 0 THEN [st EXCEPT !.pm = r.pm, !.used = @ + 1, !.len = @ - 1]
    ELSE [st EXCEPT !.pm = r.pm, !.used = @ + 1, !.pfndb = @ \union {r.ret}]
PfndbAlloc(st) == PfndbTake(st, AllocIn(st.pm, "normal", 0))

\* init(): the pfndb of all entries but one, these entries, the pfndb of the
\* bootstrap entry, and what is left of it.  ok says that no allocation failed.
WithEntries(st) ==
    LET run[i \in 0..Len(MemMap)] == IF i = 0 THEN st ELSE AddEntry(run[i - 1], i)
    IN  run[Len(MemMap)]
WithPfndb(st) ==
    LET run[n \in 0..PfndbPages] == IF n = 0 THEN st ELSE PfndbAlloc(run[n - 1])
    IN  run[PfndbPages]
WithBootstrap(st) == IF st.ok THEN AddRange(st, BootBase, st.len, FALSE) ELSE st
Initialised(st) ==
    LET backed == {i \in 1..Len(MemMap) :
                     i # Bootstrap /\ MemMap[i].type \in {"usable", "bootloader"}}
        pages == PfndbPages * Cardinality(backed)
        start == [st EXCEPT !.used = @ + pages, !.len = @ - pages,
                            !.ok = pages > 0 => Serves(st.len - pages + 1)]
    IN  WithBootstrap(WithPfndb(WithEntries(start)))

EmptyPm ==
    [lists |-> [z \in Zones |-> [k \in Orders |-> <<>>]],
     next |-> [p \in Pages |-> 0],
     order |-> [p \in Pages |-> 0],
     allocated |-> [p \in Pages |-> FALSE]]

Init ==
    /\ pm = EmptyPm
    /\ used = 0
    /\ usable = 0
    /\ phase = "boot"
    /\ bootLen = MemMap[Bootstrap].length
    /\ reclaiming = FALSE
    /\ reclaimed = FALSE
    /\ live = {}
    /\ pfndb = {}

State == [pm |-> pm, used |-> used, usable |-> usable, len |-> bootLen, pfndb |-> pfndb, ok |-> TRUE]

\* alloc() while initialised is false.
BootstrapAlloc ==
    /\ phase = "boot"
    /\ MemMap[Bootstrap].length - bootLen < MaxBootAllocs
    /\ Serves(bootLen)
    /\ bootLen' = bootLen - 1
    /\ used' = used + 1
    /\ UNCHANGED <<pm, usable, phase, reclaiming, reclaimed, live, pfndb>>

InitPmm ==
    LET done == Initialised(State)
    IN  /\ phase = "boot" /\ done.ok
        /\ pm' = done.pm
        /\ used' = done.used
        /\ usable' = done.usable
        /\ bootLen' = done.len
        /\ pfndb' = done.pfndb
        /\ phase' = "up"
        /\ UNCHANGED <<reclaiming, reclaimed, live>>

\* The bootstrap allocator is out of memory.
BootPanic ==
    /\ phase = "boot"
    /\ ~Serves(bootLen) \/ ~Initialised(State).ok
    /\ phase' = "failed"
    /\ UNCHANGED <<pm, used, usable, bootLen, reclaiming, reclaimed, live, pfndb>>

\* alloc(): panics when the zone and its fallback are exhausted.
Alloc(n, tp) ==
    LET order == NextOrder(n)
        r == AllocType(pm, tp, order)
    IN  /\ phase = "up" /\ ~reclaiming
        /\ used + Pow2[order] <= MaxUsed
        /\ pm' = r.pm
        /\ IF r.ret = 0
              THEN phase' = "panicked" /\ UNCHANGED <<used, live>>
              ELSE /\ used' = used + Pow2[order]
                   /\ live' = live \union {[page |-> r.ret, npages |-> n]}
                   /\ UNCHANGED phase
        /\ UNCHANGED <<usable, bootLen, reclaiming, reclaimed, pfndb>>

ZoneOf(pg) == CHOOSE z \in Zones : ZoneStart(z) <= pg /\ pg < ZoneEnd(z)

Free(b) ==
    /\ phase = "up" /\ ~reclaiming
    /\ b \in live
    /\ pm' = Put([pm EXCEPT !.allocated[b.page] = FALSE],
                 ZoneOf(b.page), FreeOrder(b.npages), b.page)
    /\ used' = used - FreedSize(b.npages)
    /\ live' = live \ {b}
    /\ UNCHANGED <<usable, phase, bootLen, reclaiming, reclaimed, pfndb>>

\* reclaim_bootloader_memory(), called once when boot is over: what it makes of
\* the allocators when it is left alone.
ReclaimEntry(st, i) ==
    IF MemMap[i].type = "bootloader"
    THEN AddRange(st, MemMap[i].base, MemMap[i].length, TRUE) ELSE st
Reclaimed(st) ==
    LET run[i \in 0..Len(MemMap)] == IF i = 0 THEN st ELSE ReclaimEntry(run[i - 1], i)
    IN  run[Len(MemMap)]
ReclaimBegin ==
    /\ phase = "up" /\ ~reclaimed /\ ~reclaiming
    /\ reclaiming' = TRUE
    /\ UNCHANGED <<pm, used, usable, phase, bootLen, reclaimed, live, pfndb>>
ReclaimEnd ==
    LET done == Reclaimed(State)
    IN  /\ phase = "up" /\ reclaiming
        /\ pm' = done.pm
        /\ used' = done.used
        /\ usable' = done.usable
        /\ reclaiming' = FALSE
        /\ reclaimed' = TRUE
        /\ UNCHANGED <<phase, bootLen, live, pfndb>>

\* alloc() or free() while another thread is in add_range: pmm::lock keeps only
\* its callers apart, and both write the same lists.
Overlap ==
    /\ phase = "up" /\ reclaiming
    /\ phase' = "raced"
    /\ UNCHANGED <<pm, used, usable, bootLen, reclaiming, reclaimed, live, pfndb>>

Next ==
    \/ BootstrapAlloc
    \/ InitPmm
    \/ BootPanic
    \/ \E n \in Sizes, tp \in Zones : Alloc(n, tp)
    \/ \E b \in live : Free(b)
    \/ ReclaimBegin \/ ReclaimEnd
    \/ Overlap

Spec == Init /\ [][Next]_vars

-----------------------------------------------------------------------------
TypeOK ==
    /\ \A z \in Zones, k \in Orders : Range(pm.lists[z][k]) \subseteq Pages
    /\ pm.next \in [Pages -> Pages]
    /\ pm.order \in [Pages -> Orders]
    /\ pm.allocated \in [Pages -> BOOLEAN]
    /\ used \in Nat /\ usable \in Nat
    /\ phase \in {"boot", "up", "panicked", "failed", "raced"}
    /\ bootLen \in 0..MemMap[Bootstrap].length
    /\ reclaiming \in BOOLEAN /\ reclaimed \in BOOLEAN
    /\ live \subseteq [page : Pages, npages : Sizes]
    /\ pfndb \subseteq Pages

Block(pg, order) == pg..(pg + Pow2[order] - 1)
FreeBlocks(p) ==
    UNION {{<<pg, zk[1], zk[2]>> : pg \in Range(p.lists[zk[1]][zk[2]])} :
              zk \in Zones \X Orders}
FreePages == UNION {Block(b[1], b[3]) : b \in FreeBlocks(pm)}

\* What the allocators were given.
Entry(i) == MemMap[i].base..(MemMap[i].base + MemMap[i].length - 1)
Covered(entries) == UNION {Entry(i) : i \in entries}
Managed ==
    LET given == {j \in 1..Len(MemMap) : \/ j \in Usable \ {Bootstrap}
                                         \/ MemMap[j].type = "bootloader" /\ reclaimed}
    IN  (Covered(given) \union BootBase..(BootBase + bootLen - 1)) \ {0}

(***************************************************************************)
(* Every page the allocators were given is in exactly one place: in one    *)
(* block of one free list, in one block that was handed out, or in the     *)
(* pfndb. No page is lost, and none is handed out twice.                   *)
(***************************************************************************)
AllBlocks ==
    FreeBlocks(pm) \union {<<b.page, "live", NextOrder(b.npages)>> : b \in live}
                   \union {<<pg, "pfndb", 0>> : pg \in pfndb}
EveryPageOnce ==
    phase \in {"up", "panicked"} =>
        /\ UNION {Block(b[1], b[3]) : b \in AllBlocks} = Managed
        /\ \A b, c \in AllBlocks : b # c => Block(b[1], b[3]) \cap Block(c[1], c[3]) = {}
        /\ \A z \in Zones, k \in Orders : IsInjective(pm.lists[z][k])
        /\ \A b, c \in live : b # c => b.page # c.page

(***************************************************************************)
(* struct page tells the truth about the first page of every block, which  *)
(* is what the assertions of split_to, coalesce_to, alloc and free demand  *)
(* ("lib::bug_on(pg->allocated == 0)", "lib::bug_on(pg->order != order)"). *)
(***************************************************************************)
MetadataTrue ==
    /\ \A b \in FreeBlocks(pm) :
         /\ ~pm.allocated[b[1]] /\ pm.order[b[1]] = b[3]
         /\ Aligned(b[1], b[3])
    /\ \A b \in live : pm.allocated[b.page] /\ pm.order[b.page] = NextOrder(b.npages)

(***************************************************************************)
(* No page is lost or handed out twice, and struct page tells the truth,   *)
(* through every split, merge, boot allocation and reclaim, unless an      *)
(* alloc() or free() met reclaim_bootloader_memory() on its way: that      *)
(* function takes no lock (pmm.cpp:508), and then a page may be lost or be *)
(* handed out twice.                                                       *)
(***************************************************************************)
MemoryAccounted == phase = "raced" \/ (TypeOK /\ EveryPageOnce /\ MetadataTrue)

\* The blocks as add_range cut them; buddies are merged only within one.
Given(p, i) ==
    LET added(length) == AddRange([pm |-> p, used |-> 0, usable |-> 0], MemMap[i].base, length, FALSE).pm
    IN  CASE i = Bootstrap -> added(bootLen)
          [] i # Bootstrap /\ (i \in Usable \/ (MemMap[i].type = "bootloader" /\ reclaimed)) ->
               added(MemMap[i].length)
          [] OTHER -> p
Origins ==
    LET run[i \in 0..Len(MemMap)] == IF i = 0 THEN EmptyPm ELSE Given(run[i - 1], i)
    IN  FreeBlocks(run[Len(MemMap)])

\* A run of free pages that would do for a block of this order in zone z.
Suitable(z, order) ==
    \E b \in Origins, pg \in Pages :
        /\ b[2] = z /\ order <= b[3]
        /\ Aligned(pg, order)
        /\ Block(pg, order) \subseteq Block(b[1], b[3])
        /\ Block(pg, order) \subseteq FreePages

(***************************************************************************)
(* alloc() panics only when it must: no zone it may use has an aligned run *)
(* of free pages of that order within one block that add_range put in. So  *)
(* splitting and lazy coalescing never miss memory that is there, however  *)
(* allocations and frees came before.                                      *)
(***************************************************************************)
PanicOnlyWhenExhausted ==
    [][phase' = "panicked" =>
         \A n \in Sizes, tp \in Zones :
            Alloc(n, tp) =>
                \A z \in {tp} \union (IF tp = "normal" THEN {"sub4gib"} ELSE {}) :
                    ~Suitable(z, NextOrder(n))]_vars
=============================================================================
