------------------------------ MODULE MCMemory ------------------------------
(***************************************************************************)
(* The page allocator and the page tables (with slabs).  A behaviour is    *)
(* one of one of them, the other rests: the tables are checked with an     *)
(* allocator of their own, that only has to give and take back pages.      *)
(*                                                                         *)
(* Allocator: sub1mib has page 1; sub4gib pages 2-3 (boot loader,          *)
(* reclaimed later) and 4 (kernel); normal pages 7 and up, of which the    *)
(* bootstrap allocator takes a few.                                        *)
(*                                                                         *)
(* Page tables: sixty-four addresses, half of them the kernel's; the       *)
(* direct map of eight pages with pages of the second size, whose          *)
(* neighbour is not mapped, is mapped after it with small pages, or was    *)
(* mapped before it with small pages; one page of kernel image, two pages  *)
(* for slabs, mapped by two threads at once, in a part of the upper half   *)
(* that is empty when the first process starts.  Slabs and processes map   *)
(* across two tables.                                                      *)
(***************************************************************************)
EXTENDS Pmm

VARIABLES
  part,         \* the part whose behaviour this is
  root, tables, data, vspace_base, raced, slab, seen, memmap, orphans, broken

SmallMap ==
  << [base |-> 0, length |-> 2, type |-> "usable"],
     [base |-> 2, length |-> 2, type |-> "bootloader"],
     [base |-> 4, length |-> 1, type |-> "kernel"],
     [base |-> 7, length |-> 8, type |-> "usable"] >>

\* Eight pages in two entries, of which the larger is rounded out to all eight.
BootMap(first, second) ==
  << [base |-> 0, length |-> first, mapped |-> TRUE],
     [base |-> first, length |-> 8 - first, mapped |-> second] >>

Tables ==
  INSTANCE Pagemap
    WITH Fanout <- 4, Levels <- 3, LargePages <- FALSE,
         Memmaps <- {BootMap(5, FALSE), BootMap(5, TRUE), BootMap(3, TRUE)},
         Segments <- << [v |-> 44, p |-> 3, length |-> 1, psize |-> 0] >>,
         Frames <- 1..18, Mappers <- {"a", "b"}, UserPages <- {3, 4}, VspaceStart <- 51, VspaceEnd <- 53

ASSUME MemoryAssumption == PmmAssumption /\ Tables!PagemapAssumption

tableVars == <<root, tables, data, vspace_base, raced, slab, seen, memmap, orphans, broken>>
memoryVars == <<part, vars, tableVars>>

MemoryInit ==
  /\ part \in {"allocator", "tables"}
  /\ Init /\ Tables!Init
  /\ part = "allocator" => memmap = BootMap(5, FALSE)
MemoryNext ==
  \/ part = "allocator" /\ Next /\ UNCHANGED <<part, tableVars>>
  \/ part = "tables" /\ Tables!Next /\ UNCHANGED <<part, vars>>
MemorySpec == MemoryInit /\ [][MemoryNext]_memoryVars

-----------------------------------------------------------------------------
(* Properties; MemoryAccounted and PanicOnlyWhenExhausted are Pmm's own.   *)

\* The processor sees in every pagemap exactly what was mapped last; a walk of
\* the code takes a page for a table only when boot mapped a neighbour of a
\* rounded-out entry after it.
WalkExact == part = "tables" => Tables!WalkExact

\* Destroying a pagemap and unmapping a slab give back every page they took,
\* unless two slabs were given one address; only tables that boot laid a
\* larger page over are lost.
NothingLeaked == part = "tables" => Tables!NothingLeaked
=============================================================================
