------------------------------ MODULE Vmspace -------------------------------
(***************************************************************************)
(* The address space of a process (system/memory/vmm.cpp): the tree of     *)
(* mappings, the page table behind it, mmap(), munmap() and mprotect()     *)
(* (system/syscall/memory.cpp) and the page fault handler.                 *)
(*                                                                         *)
(* A process has one thread, so its system calls and faults come one after *)
(* the other and each is one action. Addresses and lengths are in pages.   *)
(* tree is a btree multiset ordered by startp, here the sequence of its    *)
(* elements: emplace() puts an element behind those with the same key, and *)
(* erase(), which is given a key, takes out all that have it. A loop over  *)
(* the mappings is the function of its states after each one. A frame is   *)
(* the page idx of an object, <<object, idx>>: get_page() has exactly one  *)
(* for each. An object lives as long as a mapping or a file refers to it.  *)
(***************************************************************************)
EXTENDS Integers, Sequences, FiniteSets, SequencesExt

CONSTANTS
    NumPages,    \* the user pages are 0..NumPages-1, the last is the stack
    Anon,        \* identities for memobjects
    StackObj,    \* the memobject of the stack
    ImageObj,    \* the memobject of the interpreter
    Files,       \* objects of files, which the file refers to as well
    Prots,       \* protections callers ask for, a subset of {"none", "r", "rw"}
    Lengths,     \* lengths callers ask for
    MaxOffset,   \* bound on the offset into a file
    TableSpan,   \* pages covered by one page table (512 in the code)
    MaxMappings, \* bound on the size of the tree
    Nothing,     \* no frame
    PageZero     \* the frame at physical address 0

ASSUME Bounds ==
    /\ NumPages \in Nat /\ NumPages > 2 /\ Lengths \subseteq Nat
    /\ MaxOffset \in Nat /\ TableSpan \in Nat \ {0} /\ MaxMappings \in Nat
    /\ Prots \subseteq {"none", "r", "rw"}

Pages == 0..(NumPages - 1)
Objects == Anon \union Files \union {StackObj, ImageObj}

VARIABLES
    tree,     \* vmspace::tree
    pt,       \* the page table entries of pmap: frame and protection
    tables,   \* the page tables that exist
    outcome   \* "running", or how the kernel stopped

vars == <<tree, pt, tables, outcome>>

Absent == [frame |-> Nothing, prot |-> "none"]
TableOf(p) == p \div TableSpan

Stack ==
    [startp |-> NumPages - 1, endp |-> NumPages, obj |-> StackObj, offsetp |-> 0,
     prot |-> "rw", private |-> TRUE, untouchable |-> TRUE]

\* A segment of the interpreter, which load_file() maps from address 0.
Image ==
    [startp |-> 0, endp |-> 2, obj |-> ImageObj, offsetp |-> 0,
     prot |-> "r", private |-> TRUE, untouchable |-> FALSE]

\* load() has mapped the program (elsewhere, in pages left out here), its
\* interpreter if it has one, and the stack of the only thread.
Init ==
    /\ tree \in {<<Stack>>, <<Image, Stack>>}
    /\ pt = [p \in Pages |-> Absent]
    /\ tables = {}
    /\ outcome = "running"

Larger(a, b) == IF a > b THEN a ELSE b
Smaller(a, b) == IF a < b THEN a ELSE b

-----------------------------------------------------------------------------
(* Mutations: plausible bugs in the definitions below.                     *)

\* unmap() and protect() give the rest of a mapping its old offset.
BugTail(e, tailp) == [e EXCEPT !.startp = e.endp - tailp]

\* a mapping is put in anew without erasing the old one.
BugErase(t, e) == t

\* handle_pfault() enters the page with all rights.
BugFaultEntry(m, p) == [frame |-> <<m.obj, m.offsetp + (p - m.startp)>>, prot |-> "rw"]

-----------------------------------------------------------------------------
(* The multiset. *)
LowerBound(t, key) == Cardinality({i \in 1..Len(t) : t[i].startp < key})
UpperBound(t, key) == Cardinality({i \in 1..Len(t) : t[i].startp <= key})
Erase(t, e) ==
    SubSeq(t, 1, LowerBound(t, e.startp)) \o SubSeq(t, UpperBound(t, e.startp) + 1, Len(t))
Emplace(t, m) == InsertAt(t, UpperBound(t, m.startp) + 1, m)
EmplaceIf(cond, t, m) == IF cond THEN Emplace(t, m) ELSE t

Overlaps(m, a, b) == a < m.endp /\ m.startp < b

(* The page table: pagemap::unmap(), which skips holes, and what protect()  *)
(* writes into an entry: the address that is there stays, 0 in an empty one. *)
Clear(table, a, b) == [p \in Pages |-> IF a <= p /\ p < b THEN Absent ELSE table[p]]
ProtectPt(table, a, b, prot) ==
    [p \in Pages |->
        IF a <= p /\ p < b
           THEN [frame |-> IF table[p].frame = Nothing THEN PageZero ELSE table[p].frame,
                 prot |-> prot]
           ELSE table[p]]

\* How much of a mapping lies before a, and how much from b on.
HeadPages(e, a) == IF a > e.startp THEN a - e.startp ELSE 0
TailPages(e, b) == IF b < e.endp THEN e.endp - b ELSE 0
Covered(e, a, b) == a <= e.startp /\ e.endp <= b
From(e, a) == Larger(a, e.startp)
To(e, b) == Smaller(b, e.endp)

\* The first headp pages of a mapping, and the last tailp pages.
HeadOf(e, headp) == [e EXCEPT !.endp = e.startp + headp]
TailOf(e, tailp) ==
    [e EXCEPT !.startp = e.endp - tailp,
              !.offsetp = e.offsetp + (e.endp - e.startp) - tailp]

\* What map() leaves of a mapping behind b, and what protect() puts between a
\* and b.
RestOf(e, a, b) ==
    [e EXCEPT !.startp = e.endp - TailPages(e, b),
              !.offsetp = e.offsetp + HeadPages(e, a) + (b - a)]
MiddleOf(e, a, b, prot) ==
    [e EXCEPT !.startp = From(e, a), !.endp = To(e, b),
              !.offsetp = e.offsetp + HeadPages(e, a), !.prot = prot]

-----------------------------------------------------------------------------
\* vmspace::map() of pages a..b-1 on st = [tree, pt, failed]. The rest of a
\* mapping behind b gets an offset that is right only if the mapping began at
\* or before a, and it is put in even when it is empty.
MapOver(st, e, a, b) ==
    LET headp == HeadPages(e, a)
        erased == Erase(st.tree, e)
    IN  IF st.failed \/ e.untouchable THEN [st EXCEPT !.failed = TRUE]
        ELSE [st EXCEPT
                !.pt = Clear(@, From(e, a), To(e, b)),
                !.tree = IF Covered(e, a, b) THEN erased
                         ELSE Emplace(EmplaceIf(headp # 0, erased, HeadOf(e, headp)),
                                      RestOf(e, a, b))]

Map(st, a, b, new) ==
    LET over[i \in 0..Len(st.tree)] ==
            IF i = 0 THEN st
            ELSE IF Overlaps(st.tree[i], a, b) THEN MapOver(over[i - 1], st.tree[i], a, b)
            ELSE over[i - 1]
        done == over[Len(st.tree)]
    IN  IF done.failed THEN done ELSE [done EXCEPT !.tree = Emplace(@, new)]

\* vmspace::unmap() of pages a..b-1.
UnmapOver(st, e, a, b) ==
    LET headp == HeadPages(e, a)
        tailp == TailPages(e, b)
        erased == Erase(st.tree, e)
    IN  [st EXCEPT
           !.pt = Clear(@, From(e, a), To(e, b)),
           !.tree = IF Covered(e, a, b) THEN erased
                    ELSE EmplaceIf(tailp # 0,
                                   EmplaceIf(headp # 0, erased, HeadOf(e, headp)),
                                   TailOf(e, tailp))]

Affected(m, a, b) == Overlaps(m, a, b) /\ ~m.untouchable

Unmap(st, a, b) ==
    LET over[i \in 0..Len(st.tree)] ==
            IF i = 0 THEN st
            ELSE IF Affected(st.tree[i], a, b) THEN UnmapOver(over[i - 1], st.tree[i], a, b)
            ELSE over[i - 1]
    IN  over[Len(st.tree)]

\* vmspace::protect() of pages a..b-1; failed stands for its panic, when there
\* is no page table for a page of the range.
ProtectOver(st, e, a, b, prot) ==
    LET headp == HeadPages(e, a)
        tailp == TailPages(e, b)
        erased == Erase(st.tree, e)
        range == {p \in Pages : From(e, a) <= p /\ p < To(e, b)}
    IN  IF st.failed THEN st
        ELSE [st EXCEPT
                !.tree = IF Covered(e, a, b) THEN Emplace(erased, [e EXCEPT !.prot = prot])
                         ELSE Emplace(EmplaceIf(tailp # 0,
                                                EmplaceIf(headp # 0, erased, HeadOf(e, headp)),
                                                TailOf(e, tailp)),
                                      MiddleOf(e, a, b, prot)),
                !.pt = ProtectPt(@, From(e, a), To(e, b), prot),
                !.failed = \E p \in range : TableOf(p) \notin tables]

Protect(st, a, b, prot) ==
    LET over[i \in 0..Len(st.tree)] ==
            IF i = 0 THEN st
            ELSE IF Affected(st.tree[i], a, b)
                 THEN ProtectOver(over[i - 1], st.tree[i], a, b, prot)
            ELSE over[i - 1]
    IN  over[Len(st.tree)]

\* vmspace::is_mapped() of n > 0 pages from a: covered starts at 0.
IsMapped(t, a, n) ==
    LET step(st, m) ==
            IF st.no \/ m.endp < st.covered THEN st
            ELSE IF m.startp > st.covered THEN [st EXCEPT !.no = TRUE]
            ELSE [st EXCEPT !.covered = Larger(@, Smaller(a + n, m.endp))]
        seen[i \in 0..Len(t)] ==
            IF i = 0 THEN [covered |-> 0, no |-> FALSE]
            ELSE IF Overlaps(t[i], a, a + n) THEN step(seen[i - 1], t[i])
            ELSE seen[i - 1]
        done == seen[Len(t)]
    IN  n # 0 /\ ~done.no /\ done.covered >= a + n

\* vmspace::find_free_region(): the subtraction is unsigned, so a mapping that
\* begins before the end of the last one looks like a large gap.
Huge == NumPages + 1
Gap(startp, last) == IF startp >= last THEN startp - last ELSE Huge
FindFreeRegion(t, n) ==
    LET step(st, m) ==
            IF st.found THEN st
            ELSE IF Gap(m.startp, st.last) >= n THEN [st EXCEPT !.found = TRUE]
            ELSE [st EXCEPT !.last = m.endp]
        seen[i \in 0..Len(t)] ==
            IF i = 0 THEN [last |-> 0, found |-> FALSE] ELSE step(seen[i - 1], t[i])
    IN  seen[Len(t)].last

-----------------------------------------------------------------------------
Running == outcome = "running" /\ Len(tree) < MaxMappings
State == [tree |-> tree, pt |-> pt, failed |-> FALSE]
Unused(o) == \A m \in Range(tree) : m.obj # o

\* mmap(): what is mapped, as the flags and the file descriptor say. A private
\* mapping of a file gets a copy in an object of its own.  The flags are passed
\* on as they are, and bit 0x40 of them makes a mapping untouchable.
NewMapping(a, n, o, off, prot, private, untouchable) ==
    [startp |-> a, endp |-> a + n, obj |-> o, offsetp |-> off, prot |-> prot,
     private |-> private, untouchable |-> untouchable]
Mappable(o, off, private) ==
    \/ o \in Anon /\ Unused(o) /\ (private \/ off = 0)
    \/ o \in Files /\ ~private

MmapAt(a, n, o, off, prot, private, untouchable, first) ==
    LET st == Map(first, a, a + n, NewMapping(a, n, o, off, prot, private, untouchable))
    IN  /\ a # 0 /\ n # 0 /\ a + n <= NumPages
        /\ Mappable(o, off, private)
        /\ tree' = st.tree
        /\ pt' = st.pt
        /\ UNCHANGED <<tables, outcome>>

\* mmap() with MAP_FIXED unmaps a range that is_mapped(); it may find only then
\* that there is no such file, or no way to map it.
Vacated(a, n) == IF IsMapped(tree, a, n) THEN Unmap(State, a, a + n) ELSE State

MmapFixed(a, n, o, off, prot, private, untouchable) ==
    /\ Running
    /\ MmapAt(a, n, o, off, prot, private, untouchable, Vacated(a, n))

MmapFixedRefused(a, n) ==
    /\ Running
    /\ a # 0 /\ n # 0
    /\ tree' = Vacated(a, n).tree
    /\ pt' = Vacated(a, n).pt
    /\ UNCHANGED <<tables, outcome>>

\* mmap() that leaves the address to the kernel.
MmapAnywhere(n, o, off, prot, private, untouchable) ==
    /\ Running
    /\ MmapAt(FindFreeRegion(tree, n), n, o, off, prot, private, untouchable, State)

Munmap(a, n) ==
    LET st == Unmap(State, a, a + n)
    IN  /\ Running
        /\ tree' = st.tree
        /\ pt' = st.pt
        /\ UNCHANGED <<tables, outcome>>

Mprotect(a, n, prot) ==
    LET st == Protect(State, a, a + n, prot)
    IN  /\ Running
        /\ tree' = st.tree
        /\ pt' = st.pt
        /\ outcome' = IF st.failed THEN "protect panic" ELSE "running"
        /\ UNCHANGED tables

-----------------------------------------------------------------------------
(* The page fault handler. *)
Allows(prot) == CASE prot = "none" -> {} [] prot = "r" -> {"read"} [] prot = "rw" -> {"read", "write"}
Covers(m, p) == m.startp <= p /\ p < m.endp
Covering(t, p) == {m \in Range(t) : Covers(m, p)}

\* find_if(): the first mapping that covers p.
FirstCovering(t, p) == t[Min({i \in 1..Len(t) : Covers(t[i], p)})]

\* obj.use_count(): one for each mapping, and one in the inode of a file.
UseCount(o) ==
    Cardinality({i \in 1..Len(tree) : tree[i].obj = o}) + (IF o \in Files THEN 1 ELSE 0)

FaultEntry(m, p) == [frame |-> <<m.obj, m.offsetp + (p - m.startp)>>, prot |-> m.prot]

\* An access to page p that the page table does not allow, from user mode or
\* from a system call. What isr_handler() passes as on_write is the bit for
\* user mode. Copy on write calls map(), which waits for the lock of the tree
\* that the handler itself holds.
Fault(p, access, mode) ==
    LET m == FirstCovering(tree, p)
        entry == FaultEntry(m, p)
    IN  /\ outcome = "running"
        /\ access \notin Allows(pt[p].prot)
        /\ \/ /\ Covering(tree, p) = {}
              /\ outcome' = "exception"
              /\ UNCHANGED <<pt, tables>>
           \/ /\ Covering(tree, p) # {}
              /\ mode = "user" /\ m.private /\ UseCount(m.obj) > 1
              /\ outcome' = "copy-on-write hang"
              /\ UNCHANGED <<pt, tables>>
           \/ /\ Covering(tree, p) # {}
              /\ ~(mode = "user" /\ m.private /\ UseCount(m.obj) > 1)
              /\ \/ /\ pt[p].frame = entry.frame
                    /\ outcome' = "already mapped"
                    /\ UNCHANGED <<pt, tables>>
                 \/ /\ pt[p].frame # entry.frame
                    /\ pt' = [pt EXCEPT ![p] = entry]
                    /\ tables' = tables \union {TableOf(p)}
                    /\ UNCHANGED outcome
        /\ UNCHANGED tree

Next ==
    \/ \E n \in Lengths, o \in Objects, off \in 0..MaxOffset, prot \in Prots, priv, unt \in BOOLEAN :
         \/ MmapAnywhere(n, o, off, prot, priv, unt)
         \/ \E a \in Pages : MmapFixed(a, n, o, off, prot, priv, unt)
    \/ \E a \in Pages, n \in Lengths : Munmap(a, n) \/ MmapFixedRefused(a, n)
    \/ \E a \in Pages, n \in Lengths, prot \in Prots : Mprotect(a, n, prot)
    \/ \E p \in Pages, access \in {"read", "write"}, mode \in {"user", "kernel"} :
         Fault(p, access, mode)

Spec == Init /\ [][Next]_vars

-----------------------------------------------------------------------------
Frames == {Nothing, PageZero} \union (Objects \X Nat)
Entries == [frame : Frames, prot : {"none", "r", "rw"}]
Mappings ==
    {m \in [startp : 0..NumPages, endp : 0..NumPages, obj : Objects, offsetp : Nat,
            prot : {"none", "r", "rw"}, private : BOOLEAN, untouchable : BOOLEAN] :
        m.startp <= m.endp}

TypeOK ==
    /\ tree \in Seq(Mappings)
    /\ pt \in [Pages -> Entries]
    /\ tables \subseteq {TableOf(p) : p \in Pages}
    /\ outcome \in {"running", "exception", "protect panic", "copy-on-write hang",
                    "already mapped"}

(***************************************************************************)
(* The tree stays ordered and a page is never covered by two mappings,     *)
(* through every splitting and replacing of mappings: handle_pfault()      *)
(* takes the first one that covers the page.                               *)
(***************************************************************************)
DisjointMappings ==
    \A i, j \in 1..Len(tree) : i < j =>
        /\ tree[i].startp <= tree[j].startp
        /\ \/ tree[i].endp <= tree[j].startp
           \/ tree[j].startp = tree[j].endp

\* The kernel runs, no mapping is empty and no entry is left of a page that is not mapped. The
\* exact contracts below are stated for such states: map() may put in an empty
\* mapping, with which erase() by key can take out the one that begins on the
\* same page and leave its entries.
Tidy ==
    /\ outcome = "running"
    /\ \A m \in Range(tree) : m.startp < m.endp
    /\ \A p \in Pages : Covering(tree, p) = {} => pt[p] = Absent

\* What the tree says of a page: the page of the object behind it, and how.
Backing(t, p) ==
    {[obj |-> m.obj, idx |-> m.offsetp + (p - m.startp), prot |-> m.prot,
      private |-> m.private] : m \in Covering(t, p)}
Untouchable(p) == \E m \in Covering(tree, p) : m.untouchable

(***************************************************************************)
(* In a tidy state munmap() takes away the pages of the range, in the tree *)
(* and in the page table; the untouchable ones, as the stack is, and every *)
(* other page keep the object page, the rights and the entry they had,     *)
(* whatever mappings had to be split.                                      *)
(***************************************************************************)
UnmapExact ==
    Tidy => \A a \in Pages, n \in Lengths :
        LET st == Unmap(State, a, a + n)
        IN  \A p \in Pages :
                IF a <= p /\ p < a + n /\ ~Untouchable(p)
                THEN Backing(st.tree, p) = {} /\ (Backing(tree, p) # {} => st.pt[p] = Absent)
                ELSE Backing(st.tree, p) = Backing(tree, p) /\ st.pt[p] = pt[p]

(***************************************************************************)
(* In a tidy state mprotect() panics only if a mapped page of the range    *)
(* has no entry yet.  Otherwise every mapped page of the range has the new *)
(* rights, in the tree and in its page table entry, and the same object    *)
(* page behind it in the tree.  The entry of a page that was touched keeps *)
(* its frame; that of a page nobody touched yet now grants these rights to *)
(* physical page 0 (pagemap::protect sets flags on the empty entry).  No   *)
(* other page and no untouchable one changes.                              *)
(***************************************************************************)
ProtectExact ==
    Tidy => \A a \in Pages, n \in Lengths, prot \in Prots :
        LET st == Protect(State, a, a + n, prot)
            range == {p \in Pages : a <= p /\ p < a + n /\ ~Untouchable(p)}
        IN  IF st.failed THEN \E p \in range : Backing(tree, p) # {} /\ pt[p] = Absent
            ELSE \A p \in Pages :
                IF p \in range /\ Backing(tree, p) # {}
                THEN /\ Backing(st.tree, p) = {[b EXCEPT !.prot = prot] : b \in Backing(tree, p)}
                     /\ st.pt[p].prot = prot
                     /\ st.pt[p].frame = IF pt[p].frame = Nothing THEN PageZero ELSE pt[p].frame
                ELSE Backing(st.tree, p) = Backing(tree, p) /\ st.pt[p] = pt[p]

(***************************************************************************)
(* In a tidy state, when map() succeeds, the new object is behind every    *)
(* page of the range and no entry of what was there before is left; every  *)
(* other page keeps its entry and its object, and the page of the object   *)
(* unless its mapping began inside the range and goes on behind it.        *)
(***************************************************************************)
MapExact ==
    Tidy => \A a \in Pages \ {0}, n \in Lengths \ {0}, o \in Anon, untouchable \in BOOLEAN :
        LET new == NewMapping(a, n, o, 0, "rw", TRUE, untouchable)
            st == Map(State, a, a + n, new)
        IN  a + n <= NumPages /\ ~st.failed => \A p \in Pages :
                IF a <= p /\ p < a + n
                THEN Backing(st.tree, p) = Backing(<<new>>, p) /\ st.pt[p] = Absent
                ELSE /\ st.pt[p] = pt[p]
                     /\ {b.obj : b \in Backing(st.tree, p)} = {b.obj : b \in Backing(tree, p)}
                     /\ (\A m \in Covering(tree, p) : m.startp <= a \/ m.startp >= a + n)
                          => Backing(st.tree, p) = Backing(tree, p)

(***************************************************************************)
(* From a tidy state munmap(), mprotect() and map() change exactly the     *)
(* pages they are asked to change, whatever mappings have to be split for  *)
(* it; mprotect() also puts physical page 0 behind entries that were empty. *)
(***************************************************************************)
ChangesExact == UnmapExact /\ ProtectExact /\ MapExact

\* Every entry is of a mapped page, with the rights of the mapping, and has a
\* frame of its object in it, or page 0.
EntriesMatch ==
    \A p \in Pages : pt[p] # Absent =>
        \E m \in Covering(tree, p) :
            /\ pt[p].prot = m.prot
            /\ pt[p].frame \in {PageZero} \union ({m.obj} \X Nat)

(***************************************************************************)
(* Once the page table agrees with the tree, no system call and no fault   *)
(* makes it grant a right that the mapping does not give or reach into an  *)
(* object that is no longer there, not even an mmap() that gives up half   *)
(* way because the stack is in the range.                                  *)
(***************************************************************************)
EntriesFollowTree ==
    [][Tidy /\ EntriesMatch /\ outcome' = "running" => EntriesMatch']_vars

\* A mapping begins inside an earlier one; by DisjointMappings it is an empty
\* one, which map() put in.
Nested == \E i, j \in 1..Len(tree) : i < j /\ tree[j].startp < tree[i].endp

(***************************************************************************)
(* The region that find_free_region() offers is free, so that mmap() does  *)
(* not replace a mapping nobody asked it to replace, unless an empty       *)
(* mapping lies inside another one.  That is the only exception, and it is *)
(* reached: the unsigned subtraction at vmm.cpp:442 then wraps, any length *)
(* fits into the "gap", and a region that is mapped, even the stack, may   *)
(* be offered.                                                             *)
(***************************************************************************)
FreeRegionFree ==
    \/ Nested
    \/ \A n \in Lengths \ {0} :
         LET a == FindFreeRegion(tree, n)
         IN  a # 0 /\ a + n <= NumPages => \A m \in Range(tree) : ~Overlaps(m, a, a + n)

(***************************************************************************)
(* No page is covered twice, and the region that mmap() picks by itself is *)
(* free unless an empty mapping lies inside another one.                   *)
(***************************************************************************)
MappingsSound == TypeOK /\ DisjointMappings /\ FreeRegionFree

(***************************************************************************)
(* What lib::panic_if(..., "vmm: could not perform copy-on-write") in      *)
(* handle_pfault says: the map() of copy on write succeeds.                *)
(***************************************************************************)
CopyOnWriteSucceeds == outcome # "copy-on-write hang"
=============================================================================
