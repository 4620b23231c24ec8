------------------------------ MODULE Pagemap ------------------------------
(***************************************************************************)
(* Page tables: class pagemap and the kernel's use of it                   *)
(* (kernel/source/system/memory/pagemap.cpp, slab.cpp and                  *)
(* arch/x86_64/system/pagemap.cpp).                                        *)
(*                                                                         *)
(* An address is the number of a small page.  The upper half of every      *)
(* pagemap is the kernel's: a pagemap of a process starts with a copy of   *)
(* the upper entries of the kernel's root.  map(), unmap(), protect() and  *)
(* translate() hold the lock of their pagemap and are one step each.       *)
(* map_alloc() and unmap_dealloc() hold it for a page at a time only, and  *)
(* alloc_vspace() reads and advances vspace_base with no lock at all, so   *)
(* that two slabs mapped at once interleave.  Caching attributes and the   *)
(* TLB are left out.  `seen` is what each pagemap was asked to map last.   *)
(*                                                                         *)
(* init() rounds an entry of the memory map out to the pages it maps it    *)
(* with, and so over its neighbours.  Every memory map of Memmaps is       *)
(* tried.                                                                  *)
(***************************************************************************)
EXTENDS Integers, FiniteSetsExt, SequencesExt

CONSTANTS
  Fanout,       \* 512: entries of a table; even
  Levels,       \* 4
  LargePages,   \* does the processor have pages of the third size
  Memmaps,      \* memory maps a boot loader may give: sequences of [base, length, mapped]
  Segments,     \* PT_LOAD segments of the kernel: [vaddr, paddr, size]
  Frames,       \* pages the physical allocator has to give
  Mappers,      \* threads that map memory for the slab allocator
  UserPages,    \* bound: addresses a process maps, small pages
  VspaceStart,  \* first kernel address handed out, above the mapped memory
  VspaceEnd     \* bound: end of the kernel addresses handed out

PagemapAssumption ==
  /\ Fanout \in Nat /\ Fanout % 2 = 0 /\ Fanout > 0
  /\ Levels \in Nat /\ Levels > 2
  /\ LargePages \in BOOLEAN

VARIABLES
  root,         \* pagemap -> its first table, 0 while there is none
  tables,       \* table -> index -> [addr, flags]
  data,         \* pages that hold data (map_alloc)
  vspace_base,  \* next kernel address to hand out
  raced,        \* two threads met in alloc_vspace()
  slab,         \* mapper -> [pc, base, length, done]: its slab and how far it is
  seen,         \* pagemap -> address -> [addr, flags] or None
  memmap,       \* the memory map of this boot
  orphans,      \* tables below no root when boot is over
  broken        \* has a walk gone into a page that is no table

vars == <<root, tables, data, vspace_base, raced, slab, seen, memmap, orphans, broken>>

Pagemaps == {"kernel", "process"}
Power(n) == LET p[k \in 0..n] == IF k = 0 THEN 1 ELSE Fanout * p[k - 1] IN p[n]
Vpages == 0..(Power(Levels) - 1)
Hhdm == Power(Levels) \div 2
None == [addr |-> 0, flags |-> {}]
EmptyTable == [i \in 0..(Fanout - 1) |-> None]
Space(pm, v) == IF v >= Hhdm THEN "kernel" ELSE pm

\* fixpsize(), from_page_size(), max_page_size(); 0 is page_size::small.
FixPsize(psize) == IF psize = 2 /\ ~LargePages THEN 1 ELSE psize
FromPageSize(psize) == Power(psize)
MaxPageSize(size) == IF size > Power(2) THEN 2 ELSE IF size > Power(1) THEN 1 ELSE 0

\* to_arch(): "large" is the bit that makes an entry above the last level a page.
ToArch(flags, psize) ==
  {f \in {"present", "write", "large"} : \/ f = "present" /\ "read" \in flags
                                         \/ f = "write" /\ "write" \in flags
                                         \/ f = "large" /\ psize # 0}

-----------------------------------------------------------------------------
(* getlvl(), getpte(): a walk over w = [tables, data, broken, at].  The    *)
(* physical allocator gives any page: the lowest to the kernel and the     *)
(* highest to a process, so that fewer states differ by the numbers only.  *)

Unused(w) == Frames \ (DOMAIN w.tables \cup w.data)
NewPage(w, pm) == IF pm = "kernel" THEN Min(Unused(w)) ELSE Max(Unused(w))
SetEntry(w, t, x, e) == [w EXCEPT !.tables[t][x] = e]

\* A present entry leads to a table, whatever it is: the large page of another
\* mapping is taken for one, and entries are then written into that memory
\* (broken; nothing is known from there on).  `at` is 0 when there is no table.
GetLvl(w, pm, x, allocate) ==
  LET e == w.tables[w.at][x]
      new == NewPage(w, pm)
  IN  IF "present" \in e.flags
      THEN LET page == "large" \in e.flags \/ e.addr \notin DOMAIN w.tables
           IN  [w EXCEPT !.at = IF page THEN 0 ELSE e.addr, !.broken = @ \/ page]
      ELSE IF ~allocate THEN [w EXCEPT !.at = 0]
      ELSE [SetEntry([w EXCEPT !.tables = (new :> EmptyTable) @@ @], w.at, x,
                     [addr |-> new, flags |-> {"present", "write"}]) EXCEPT !.at = new]

Index(v, level) == (v \div Power(Levels - 1 - level)) % Fanout
GetPte(w, pm, v, psize, allocate) ==
  LET walk[i \in 0..(Levels - psize - 1)] ==
        IF i = 0 THEN [w EXCEPT !.at = root[pm]]
        ELSE IF walk[i - 1].at = 0 THEN walk[i - 1]
        ELSE GetLvl(walk[i - 1], pm, Index(v, i - 1), allocate)
  IN  walk[Levels - psize - 1]

\* The entries of length pages from v are changed one after the other; a hole
\* ends the loop or is passed over.
EachPte(w, pm, v, length, psize, allocate, Change(_, _)) ==
  LET size == FromPageSize(psize)
      n == (length + size - 1) \div size
      done[i \in 0..n] ==
        IF i = 0 THEN w
        ELSE LET o == done[i - 1]
                 u == GetPte(o, pm, v + (i - 1) * size, psize, allocate)
                 x == Index(v + (i - 1) * size, Levels - psize - 1)
             IN  IF u.at = 0 THEN u ELSE SetEntry(u, u.at, x, Change(u.tables[u.at][x], (i - 1) * size))
  IN  done[n]

State == [tables |-> tables, data |-> data, broken |-> broken, at |-> 0]
Become(w) == tables' = w.tables /\ data' = w.data /\ broken' = w.broken

\* map(), unmap(), protect() on a state.
Mapped(w, pm, v, p, length, flags, psize) ==
  EachPte(w, pm, v, length, psize, TRUE,
          LAMBDA e, i : [addr |-> p + i, flags |-> ToArch(flags, psize)])
Unmapped(w, pm, v, length, psize) ==
  EachPte(w, pm, v, length, psize, FALSE, LAMBDA e, i : None)
Protected(w, pm, v, length, flags, psize) ==
  EachPte(w, pm, v, length, psize, FALSE, LAMBDA e, i : [e EXCEPT !.flags = ToArch(flags, psize)])

\* What the caller of map() expects to see from then on.
Saw(sn, pm, v, length, New(_)) ==
  [sn EXCEPT ![Space(pm, v)] = [u \in Vpages |-> IF u \in v..(v + length - 1) THEN New(u) ELSE @[u]]]

-----------------------------------------------------------------------------
(* The kernel's pagemap: pagemap(), init(), init_vspaces().                *)

\* The whole upper half of the root gets its tables at once, so that they are
\* shared by every pagemap made later.
HigherHalf == (Fanout \div 2)..(Fanout - 1)

\* A mutation: the tables of the upper half are left for later.
BugKernel(r) == [tables |-> (r :> EmptyTable), data |-> {}, broken |-> FALSE, at |-> 0]

Kernel(r) ==
  LET w0 == [tables |-> (r :> EmptyTable), data |-> {}, broken |-> FALSE, at |-> r]
  IN  FoldSet(LAMBDA x, w : [GetLvl(w, "kernel", x, TRUE) EXCEPT !.at = r], w0, HigherHalf)

\* An entry of the memory map is mapped with the largest page that it exceeds,
\* rounded out to it; then the segments of the kernel, with small pages.
EntryOf(m) ==
  LET size == FromPageSize(MaxPageSize(m.length))
      base == (m.base \div size) * size
      end == ((m.base + m.length + size - 1) \div size) * size
  IN  [v |-> base + Hhdm, p |-> base, length |-> end - base, psize |-> FixPsize(MaxPageSize(m.length))]
BootMaps(mm) ==
  LET entries == SelectSeq(mm, LAMBDA m : m.mapped /\ m.length > 0)
  IN  [i \in DOMAIN entries |-> EntryOf(entries[i])] \o Segments

\* The tables under entries `indices` of table r, and r itself.
TablesBelow(ts, r, indices) ==
  LET next(t, xs) == {ts[t][x].addr : x \in {y \in xs : "present" \in ts[t][y].flags}}
      at[i \in 0..(Levels - 1)] ==
        IF i = 0 THEN {r}
        ELSE UNION {next(t, IF i = 1 THEN indices ELSE 0..(Fanout - 1)) : t \in at[i - 1] \cap DOMAIN ts}
  IN  UNION {at[i] : i \in 0..(Levels - 1)} \cap DOMAIN ts

\* What is below root r for the processor, to which a large page is no table.
Reachable(ts, r) ==
  LET links == [t \in DOMAIN ts |-> [x \in DOMAIN ts[t] |-> IF "large" \in ts[t][x].flags THEN None ELSE ts[t][x]]]
  IN  TablesBelow(links, r, 0..(Fanout - 1))

Booted(maps) ==
  FoldLeft(LAMBDA w, b : Mapped(w, "kernel", b.v, b.p, b.length, {"read", "write"}, b.psize),
           Kernel(Min(Frames)), maps)
Idle == [pc |-> "idle", base |-> 0, length |-> 0, done |-> 0]

Init ==
  /\ memmap \in Memmaps
  /\ root = [pm \in Pagemaps |-> IF pm = "kernel" THEN Min(Frames) ELSE 0]
  /\ \E boot \in {Booted(BootMaps(memmap))} :
       /\ tables = boot.tables /\ data = boot.data /\ broken = boot.broken
       /\ orphans = DOMAIN boot.tables \ Reachable(boot.tables, Min(Frames))
  /\ seen = FoldLeft(LAMBDA sn, b : Saw(sn, "kernel", b.v, b.length,
                                        LAMBDA u : [addr |-> b.p + (u - b.v), flags |-> {"present", "write"}]),
                     [pm \in Pagemaps |-> [v \in Vpages |-> None]], BootMaps(memmap))
  /\ vspace_base = VspaceStart
  /\ raced = FALSE
  /\ slab = [u \in Mappers |-> Idle]

-----------------------------------------------------------------------------
(* The slab allocator's memory: alloc_vspace() and map_alloc(), then       *)
(* unmap_dealloc() of the same range.                                      *)

\* alloc_vspace(): the base is read, and then advanced from the value read or
\* from the one in memory, as the compiler likes.
VspaceRead(u, length) ==
  /\ slab[u].pc = "idle"
  /\ vspace_base + length <= VspaceEnd /\ ~raced     \* bound: no slab after that
  /\ Cardinality(Unused(State)) > Cardinality(Mappers) * (length + Levels)
  /\ slab' = [slab EXCEPT ![u] = [pc |-> "claim", base |-> vspace_base, length |-> length, done |-> 0]]
  /\ UNCHANGED <<root, tables, data, vspace_base, raced, seen, memmap, orphans, broken>>
VspaceWrite(u) ==
  /\ slab[u].pc = "claim"
  /\ vspace_base' \in {slab[u].base + slab[u].length, vspace_base + slab[u].length}
  /\ raced' = (raced \/ vspace_base # slab[u].base)
  /\ slab' = [slab EXCEPT ![u].pc = "map"]
  /\ UNCHANGED <<root, tables, data, seen, memmap, orphans, broken>>

\* One page more, or less; after the last one the slab is mapped, or gone.
Advance(sl, last) == IF sl.done + 1 < sl.length THEN [sl EXCEPT !.done = @ + 1] ELSE last

\* map_alloc(): a page and its entry at a time.
MapPage(u) ==
  LET p == NewPage(State, "kernel")
      v == slab[u].base + slab[u].done
  IN  /\ slab[u].pc = "map"
      /\ Become(Mapped([State EXCEPT !.data = @ \cup {p}], "kernel", v, p, 1, {"read", "write"}, 0))
      /\ seen' = Saw(seen, "kernel", v, 1, LAMBDA w : [addr |-> p, flags |-> {"present", "write"}])
      /\ slab' = [slab EXCEPT ![u] = Advance(@, [@ EXCEPT !.pc = "held", !.done = 0])]
      /\ UNCHANGED <<root, vspace_base, raced, memmap, orphans>>

\* translate() gives what the entry holds, whether it is present or not.
Translate(w, pm, v, psize) ==
  LET u == GetPte(w, pm, v, psize, FALSE)
  IN  IF u.at = 0 THEN 0 ELSE u.tables[u.at][Index(v, Levels - psize - 1)].addr

\* A mutation: the page is looked up after it was unmapped.
BugDealloc(w, v) == [Unmapped(w, "kernel", v, 1, 0) EXCEPT !.data = @ \ {Translate(Unmapped(w, "kernel", v, 1, 0), "kernel", v, 0)}]

Dealloc(w, v) == [Unmapped(w, "kernel", v, 1, 0) EXCEPT !.data = @ \ {Translate(w, "kernel", v, 0)}]

\* unmap_dealloc(): translate(), unmap() and pmm::free() of a page at a time.
UnmapPage(u) ==
  LET v == slab[u].base + slab[u].done
  IN  /\ slab[u].pc \in {"held", "unmap"}
      /\ Become(Dealloc(State, v))
      /\ seen' = Saw(seen, "kernel", v, 1, LAMBDA w : None)
      /\ slab' = [slab EXCEPT ![u] = Advance([@ EXCEPT !.pc = "unmap"], Idle)]
      /\ UNCHANGED <<root, vspace_base, raced, memmap, orphans>>

-----------------------------------------------------------------------------
(* The pagemap of a process.                                               *)

Create ==
  LET r == NewPage(State, "process")
  IN  /\ root["process"] = 0
      /\ Cardinality(Unused(State)) > Levels
      /\ root' = [root EXCEPT !["process"] = r]
      /\ tables' = (r :> [x \in 0..(Fanout - 1) |->
                            IF x \in HigherHalf THEN tables[root["kernel"]][x] ELSE None]) @@ tables
      /\ UNCHANGED <<data, vspace_base, raced, slab, seen, memmap, orphans, broken>>

Alive == root["process"] # 0
Map(v, p, length, flags) ==
  /\ Alive
  /\ Cardinality(Unused(State)) > length * Levels
  /\ Become(Mapped(State, "process", v, p, length, flags, 0))
  /\ seen' = Saw(seen, "process", v, length, LAMBDA u : [addr |-> p + (u - v), flags |-> ToArch(flags, 0)])
  /\ UNCHANGED <<root, vspace_base, raced, slab, memmap, orphans>>

\* An address with a table and no page is an entry that holds nothing.
Protect(v, length, flags) ==
  /\ Alive
  /\ \A u \in v..(v + length - 1) : GetPte(State, "process", u, 0, FALSE).at # 0
  /\ Become(Protected(State, "process", v, length, flags, 0))
  /\ seen' = Saw(seen, "process", v, length, LAMBDA u : [seen["process"][u] EXCEPT !.flags = ToArch(flags, 0)])
  /\ UNCHANGED <<root, vspace_base, raced, slab, memmap, orphans>>

Unmap(v, length) ==
  /\ Alive
  /\ Become(Unmapped(State, "process", v, length, 0))
  /\ seen' = Saw(seen, "process", v, length, LAMBDA u : None)
  /\ UNCHANGED <<root, vspace_base, raced, slab, memmap, orphans>>

\* ~pagemap(): the tables under the lower half, level by level, and the root.
LowerHalf == 0..((Fanout \div 2) - 1)
Destroy ==
  /\ Alive
  /\ tables' = [t \in DOMAIN tables \ TablesBelow(tables, root["process"], LowerHalf) |-> tables[t]]
  /\ root' = [root EXCEPT !["process"] = 0]
  /\ seen' = [seen EXCEPT !["process"] = [v \in Vpages |-> None]]
  /\ UNCHANGED <<data, vspace_base, raced, slab, memmap, orphans, broken>>

SlabNext(u) ==
  \/ \E length \in 1..2 : VspaceRead(u, length)
  \/ VspaceWrite(u)
  \/ MapPage(u)
  \/ UnmapPage(u)
Next ==
  /\ ~broken
  /\ \/ \E u \in Mappers : SlabNext(u)
     \/ Create \/ Destroy
     \/ \E v \in UserPages, length \in 1..2 :
          /\ v + length - 1 \in UserPages
          /\ \/ \E flags \in {{"read", "write"}, {}} : Map(v, 0, length, flags) \/ Protect(v, length, flags)
             \/ Unmap(v, length)

Spec == Init /\ [][Next]_vars

-----------------------------------------------------------------------------
(* Properties.                                                             *)

TypeOK ==
  /\ \A pm \in Pagemaps : root[pm] \in DOMAIN tables \cup {0}
  /\ DOMAIN tables \subseteq Frames /\ data \subseteq Frames
  /\ DOMAIN tables \cap data = {}
  /\ vspace_base \in Nat

\* The processor's walk from a root: down to the first entry that is a page.
Walk(pm, v) ==
  LET at[i \in 0..Levels] ==
        IF i = 0 THEN [addr |-> root[pm], flags |-> {"present", "write"}, page |-> FALSE]
        ELSE LET up == at[i - 1]
                 e == tables[up.addr][Index(v, i - 1)]
             IN  IF up.page \/ "present" \notin up.flags \/ up.addr \notin DOMAIN tables THEN [up EXCEPT !.page = TRUE]
                 ELSE [addr |-> IF "large" \in e.flags THEN e.addr + (v % Power(Levels - i)) ELSE e.addr,
                       flags |-> e.flags \ {"large"},
                       page |-> i = Levels \/ "large" \in e.flags]
  IN  at[Levels]

\* Two entries of the memory map, one mapped before the other, whose rounded
\* ranges meet: with larger pages first, or with smaller pages first.
Meet(a, b) == a.v < b.v + b.length /\ b.v < a.v + a.length
Undercut == LET m == BootMaps(memmap) IN \E i, j \in DOMAIN m : i < j /\ m[i].psize > m[j].psize /\ Meet(m[i], m[j])
Overlaid == LET m == BootMaps(memmap) IN \E i, j \in DOMAIN m : i < j /\ m[i].psize < m[j].psize /\ Meet(m[i], m[j])

\* The processor sees exactly what was mapped last, in every pagemap: a mapping
\* of the kernel made at any time is seen by every process, whatever was mapped
\* and destroyed before, and however the pages of two slabs interleave.  A walk
\* takes a page for a table exactly when an entry of the memory map that was
\* rounded out to larger pages is followed by one mapped with smaller pages in
\* what it was rounded out to (getlvl() does not look at the page bit,
\* pagemap.cpp:29); of that boot nothing more is claimed.
WalkExact ==
  /\ TypeOK
  /\ broken <=> Undercut
  /\ ~broken => \A pm \in Pagemaps, v \in Vpages : root[pm] # 0 =>
       LET w == Walk(pm, v)
           e == seen[Space(pm, v)][v]
       IN  IF "present" \in e.flags THEN w.addr = e.addr /\ w.flags = e.flags
           ELSE "present" \notin w.flags

\* The addresses whose pages mapper u has.
Owned(u) ==
  LET s == slab[u]
  IN  CASE s.pc = "map" -> s.base..(s.base + s.done - 1)
        [] s.pc \in {"held", "unmap"} -> (s.base + s.done)..(s.base + s.length - 1)
        [] OTHER -> {}

\* Every page the physical allocator gave is still needed: a table is below a
\* root, a page of data belongs to a slab; so destroying a pagemap and
\* unmapping a slab give back all they took, and nothing of anybody else.  Two
\* exceptions: a table that boot laid a larger page over (an entry of the
\* memory map rounded out over an earlier one with smaller pages) stays lost,
\* and no other; and pages may be lost once two threads met in alloc_vspace()
\* (pagemap.cpp:393) and map their slabs at the same address.
NothingLeaked ==
  ~broken =>
    /\ DOMAIN tables = orphans \cup UNION {Reachable(tables, root[pm]) : pm \in {q \in Pagemaps : root[q] # 0}}
    /\ orphans # {} <=> Overlaid
    /\ raced \/ data = {seen["kernel"][v].addr : v \in UNION {Owned(u) : u \in Mappers}}
=============================================================================
