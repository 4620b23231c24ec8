--------------------------- MODULE KernelModule ---------------------------
(***************************************************************************)
(* The loader of kernel modules                                            *)
(* (kernel/source/system/bin/elf/module.cpp): the modules inside the       *)
(* kernel, then every .ko file of the module directories, one after the    *)
(* other in no particular order.                                           *)
(*                                                                         *)
(* A file is a record: does it read and pass the header tests (valid), has *)
(* it a complete dynamic section (dynamic), its PT_LOAD segments           *)
(* [vaddr, memsz, align, flags], its relocations ("ok", or "bad" for an    *)
(* unknown type or symbol) and the modules declared in its section.        *)
(* Addresses count units of which Page make a page.                        *)
(***************************************************************************)
EXTENDS Integers, FiniteSetsExt, SequencesExt

CONSTANTS
  Page,         \* pmm::page_size
  Internal,     \* modules inside the kernel, in order
  Files,        \* the files that may be there
  Frames        \* bound: pages the physical allocator has to give

\* Files are well formed so far as the loader trusts them: it divides by the
\* alignment of a segment.
Segments == [vaddr : Nat, memsz : Nat, align : Nat \ {0}, flags : SUBSET {"r", "w", "x"}]
KernelModuleAssumption ==
  /\ Page \in Nat \ {0}
  /\ IsFiniteSet(Frames) /\ Frames \subseteq Nat \ {0}
  /\ \A f \in Files : f.segments \in Seq(Segments)

VARIABLES
  stage,        \* where the task is
  todo,         \* files not loaded yet
  cur,          \* the file being loaded
  loaded_at,    \* its address
  at,           \* next relocation, next header
  memory,       \* {<<virtual page, frame>>} of this file
  pages,        \* does load() still have them to give to an entry
  vspace_base,  \* vmm::alloc_vspace
  ptes,         \* virtual page -> [frame, flags] in the kernel's pagemap
  used,         \* frames in use
  modules,      \* name -> [file, pages]
  failed        \* files that were refused

vars == <<stage, todo, cur, loaded_at, at, memory, pages, vspace_base, ptes, used, modules, failed>>

NoFile == [valid |-> FALSE, dynamic |-> FALSE, segments |-> <<>>, rela |-> <<>>, modules |-> <<>>]
RoundUp(n, a) == ((n - 1) \div a + 1) * a

Init ==
  /\ stage = "internal"
  /\ todo \in SUBSET Files
  /\ cur = NoFile /\ loaded_at = 0 /\ at = 1 /\ memory = {} /\ pages = FALSE
  /\ vspace_base = 0
  /\ ptes = <<>> /\ used = {} /\ modules = <<>> /\ failed = {}

-----------------------------------------------------------------------------
(* load(): the entries.                                                    *)

\* One declared module; the first of a file gets its pages.
Declare(name, file, given) ==
  [n \in DOMAIN modules \cup {name} |->
     IF n = name THEN [file |-> file, pages |-> given] ELSE modules[n]]

LoadInternal ==
  /\ stage = "internal"
  /\ IF at > Len(Internal) THEN stage' = "pick" /\ at' = 1 /\ UNCHANGED modules
     ELSE IF Internal[at] \in DOMAIN modules THEN stage' = "panic" /\ UNCHANGED <<at, modules>>
     ELSE stage' = stage /\ at' = at + 1 /\ modules' = Declare(Internal[at], NoFile, {})
  /\ UNCHANGED <<todo, cur, loaded_at, memory, pages, vspace_base, ptes, used, failed>>

Drop(f) == failed' = failed \cup {f} /\ todo' = todo \ {f}

\* The file does not read, or its header is not that of a shared object.
Reject(f) ==
  /\ stage = "pick" /\ f \in todo
  /\ ~f.valid
  /\ Drop(f)
  /\ UNCHANGED <<stage, cur, loaded_at, at, memory, pages, vspace_base, ptes, used, modules>>

\* Addresses for the file, counted in bytes where alloc_vspace() takes pages; a
\* frame for each page, writable; then the segments are copied.
MaxSize(f) ==
  Max({0} \cup {RoundUp(f.segments[i].vaddr + f.segments[i].memsz, f.segments[i].align) : i \in DOMAIN f.segments})
MapMemory(f) ==
  LET n == RoundUp(MaxSize(f), Page) \div Page
      free(i) == CHOOSE x \in Frames \ used : Cardinality({y \in Frames \ used : y <= x}) = i
      new == vspace_base..(vspace_base + n - 1)
      frame(v) == free(v - vspace_base + 1)
  IN  /\ stage = "pick" /\ f \in todo
      /\ f.valid
      /\ n <= Cardinality(Frames \ used)
      /\ cur' = f
      /\ todo' = todo \ {f}
      /\ loaded_at' = vspace_base * Page
      /\ vspace_base' = vspace_base + MaxSize(f)
      /\ memory' = {<<v, frame(v)>> : v \in new}
      /\ pages' = TRUE
      /\ used' = used \cup {frame(v) : v \in new}
      /\ ptes' = [v \in DOMAIN ptes \cup new |->
                    IF v \in new THEN [frame |-> frame(v), flags |-> {"r", "w"}] ELSE ptes[v]]
      /\ stage' = IF f.dynamic THEN "reloc" ELSE "panic"
      /\ at' = 1
      /\ UNCHANGED <<modules, failed>>

\* A mutation: the pages are freed but not unmapped.
BugUnmapAll == /\ UNCHANGED ptes
               /\ used' = used \ {m[2] : m \in memory}
               /\ memory' = {}

\* unmap_all().
UnmapAll ==
  /\ ptes' = [v \in DOMAIN ptes \ {m[1] : m \in memory} |-> ptes[v]]
  /\ used' = used \ {m[2] : m \in memory}
  /\ memory' = {}

Reloc ==
  /\ stage = "reloc"
  /\ IF at > Len(cur.rela) THEN stage' = "protect" /\ at' = 1
     ELSE cur.rela[at] = "ok" /\ at' = at + 1 /\ stage' = stage
  /\ UNCHANGED <<todo, cur, loaded_at, memory, pages, vspace_base, ptes, used, modules, failed>>

RelocFailed ==
  /\ stage = "reloc"
  /\ at <= Len(cur.rela)
  /\ cur.rela[at] # "ok"
  /\ UnmapAll
  /\ Drop(cur)
  /\ stage' = "pick"
  /\ UNCHANGED <<cur, loaded_at, at, pages, vspace_base, modules>>

\* Segments from the last to the first, so the first decides on a shared page.
SegmentPages(s) ==
  LET aligned == (s.vaddr \div Page) * Page
      size == RoundUp(s.memsz + (s.vaddr - aligned), Page)
  IN  (aligned \div Page)..((aligned + size) \div Page - 1)

Protect ==
  LET base == loaded_at \div Page
      covering(v) == {i \in DOMAIN cur.segments : v - base \in SegmentPages(cur.segments[i])}
  IN  /\ stage = "protect"
      /\ ptes' = [v \in DOMAIN ptes |->
                    IF covering(v) = {} THEN ptes[v]
                    ELSE [ptes[v] EXCEPT !.flags = cur.segments[Min(covering(v))].flags]]
      /\ stage' = "declare"
      /\ UNCHANGED <<todo, cur, loaded_at, at, memory, pages, vspace_base, used, modules, failed>>

DeclareNext ==
  /\ stage = "declare"
  /\ at <= Len(cur.modules)
  /\ IF cur.modules[at] \in DOMAIN modules
     THEN stage' = "panic" /\ UNCHANGED <<at, memory, pages, modules>>
     ELSE /\ modules' = Declare(cur.modules[at], cur, IF pages THEN memory ELSE {})
          /\ memory' = {} /\ pages' = FALSE
          /\ at' = at + 1 /\ stage' = stage
  /\ UNCHANGED <<todo, cur, loaded_at, vspace_base, ptes, used, failed>>

\* No module was found: the memory was never moved, and is given back.
DeclareEnd ==
  /\ stage = "declare"
  /\ at > Len(cur.modules)
  /\ IF at = 1 THEN UnmapAll /\ Drop(cur) ELSE UNCHANGED <<ptes, used, memory, failed, todo>>
  /\ stage' = "pick"
  /\ UNCHANGED <<cur, loaded_at, at, pages, vspace_base, modules>>

Done == stage = "pick" /\ todo = {} /\ stage' = "done" /\ UNCHANGED <<todo, cur, loaded_at, at, memory, pages, vspace_base, ptes, used, modules, failed>>

Next ==
  \/ LoadInternal \/ Reloc \/ RelocFailed \/ Protect \/ DeclareNext \/ DeclareEnd \/ Done
  \/ \E f \in todo : Reject(f) \/ MapMemory(f)

Spec == Init /\ [][Next]_vars

-----------------------------------------------------------------------------
(* Properties.                                                             *)

TypeOK ==
  /\ stage \in {"internal", "pick", "reloc", "protect", "declare", "done", "panic"}
  /\ todo \subseteq Files /\ failed \subseteq Files
  /\ used \subseteq Frames
  /\ at \in Nat /\ vspace_base \in Nat

Owners == {modules[n].pages : n \in DOMAIN modules}
\* Whatever failed in between, every frame and every mapping the loader made
\* belongs to one module or to the file being loaded; a file that was refused
\* leaves nothing behind, and no two modules share a page.
PagesOwned ==
  LET owned == memory \cup UNION Owners
  IN  /\ TypeOK
      /\ used = {m[2] : m \in owned}
      /\ DOMAIN ptes = {m[1] : m \in owned}
      /\ \A m \in owned : ptes[m[1]].frame = m[2]
      /\ \A m1, m2 \in owned : m1 # m2 => m1[1] # m2[1] /\ m1[2] # m2[2]

\* A segment lies within the memory of its file, and once a module is declared
\* each of its pages that no other segment shares has the access of its segment:
\* code is not writable, data not executable.
SegmentsProtected ==
  \A n \in DOMAIN modules : modules[n].pages # {} =>
    LET f == modules[n].file
        base == Min({m[1] : m \in modules[n].pages})
        page(i) == (f.segments[i].vaddr \div Page)..((f.segments[i].vaddr + f.segments[i].memsz - 1) \div Page)
    IN  \A i \in DOMAIN f.segments : \A v \in page(i) :
          /\ base + v \in DOMAIN ptes
          /\ (\A j \in DOMAIN f.segments : v \in page(j) => j = i) => ptes[base + v].flags = f.segments[i].flags

\* The loader's memory is all accounted for and protected as the file asks,
\* whatever failed in between.
MemoryOwned == PagesOwned /\ SegmentsProtected
=============================================================================
