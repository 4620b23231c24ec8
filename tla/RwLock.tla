------------------------------- MODULE RwLock -------------------------------
(***************************************************************************)
(* lib::rwlock_base (lib/rwlock.cppm), the lock inside every               *)
(* lib::locker<..., rwspinlock>: a counter of readers and two spinlocks.   *)
(* `readers` protects the counter; `global` is held by one writer, or by   *)
(* the readers as a group: the first reader in locks it and the last one   *)
(* out unlocks it, on whatever thread that is.                             *)
(*                                                                         *)
(* `readers` is always unlocked by the thread that locked it, so it is the *)
(* queue of the threads that drew a ticket, which is what a spinlock is to *)
(* its callers (module TicketLock). `global` is not: unlock() knows no     *)
(* owner, which is what lets the last reader release the ticket the first  *)
(* one drew, so its two ticket counters are kept as they are.              *)
(*                                                                         *)
(* The program counter of a thread stands before the next access:          *)
(*   r_lock, r_count, r_global, r_done   read_lock()                       *)
(*   reading                             between read_lock and read_unlock *)
(*   ru_check, ru_lock, ru_count, ru_done   read_unlock()                  *)
(*   w_global, writing, wu_check         write_lock() .. write_unlock()    *)
(*   up_lock, up_count, up_done, up_last, up_draw   upgrade()              *)
(***************************************************************************)
EXTENDS Naturals, Sequences, FiniteSets

CONSTANTS
    Threads,
    TicketMod    \* modulus of global's ticket counters

ASSUME ThreadsFinite == IsFiniteSet(Threads)
\* One outstanding ticket per thread and one for the readers as a group.
ASSUME TicketModLarge ==
    TicketMod \in Nat /\ Cardinality(Threads) + 1 < TicketMod

VARIABLES
    counter,   \* std::size_t counter
    readers,   \* spinlock guarding counter, as the queue of its tickets
    global,    \* spinlock_base<Type>: its two ticket counters
    ticket,    \* the ticket of global a thread in lock() waits for, else 0
    pc

vars == <<counter, readers, global, ticket, pc>>

PC == {"idle",
       "r_lock", "r_count", "r_global", "r_done", "reading",
       "ru_check", "ru_lock", "ru_count", "ru_done",
       "w_global", "writing", "wu_check",
       "up_lock", "up_count", "up_done", "up_last", "up_draw"}

TypeOK ==
    /\ counter \in 0..Cardinality(Threads)
    /\ readers \in Seq(Threads)
    /\ global \in [next : 0..(TicketMod - 1), serving : 0..(TicketMod - 1)]
    /\ ticket \in [Threads -> 0..(TicketMod - 1)]
    /\ pc \in [Threads -> PC]

Init ==
    /\ counter = 0
    /\ readers = <<>>
    /\ global = [next |-> 0, serving |-> 0]
    /\ ticket = [t \in Threads |-> 0]
    /\ pc = [t \in Threads |-> "idle"]

Goto(t, l) == pc' = [pc EXCEPT ![t] = l]
From(t, l, m) == pc[t] = l /\ Goto(t, m)

\* The spinlock `readers`: draw a ticket, be served, retire it.
Served(t) == readers # <<>> /\ Head(readers) = t
ReadersUnlock == readers' = Tail(readers)

\* The spinlock `global`: is_locked(); lock() in two steps; unlock().
GlobalIsLocked == global.next # global.serving
GlobalDraw(t) ==
    /\ ticket' = [ticket EXCEPT ![t] = global.next]
    /\ global' = [global EXCEPT !.next = (@ + 1) % TicketMod]
GlobalServed(t) ==
    /\ ticket[t] = global.serving
    /\ ticket' = [ticket EXCEPT ![t] = 0]
    /\ UNCHANGED global
GlobalUnlock ==
    /\ global' = IF GlobalIsLocked
                    THEN [global EXCEPT !.serving = (@ + 1) % TicketMod]
                    ELSE global
    /\ UNCHANGED ticket
GlobalUnchanged == UNCHANGED <<global, ticket>>

-----------------------------------------------------------------------------
(* Mutations: plausible bugs in the methods below. Next does not use them. *)

\* read_lock() does not take global for the first reader.
BugReaderSkipsGlobal(t) ==
    /\ Served(t)
    /\ counter' = counter + 1
    /\ From(t, "r_count", "r_done")
    /\ UNCHANGED <<readers, global, ticket>>

\* read_unlock() forgets to release global when the last reader leaves.
BugLastReaderKeeps(t) ==
    /\ Served(t)
    /\ counter' = counter - 1
    /\ From(t, "ru_count", "ru_done")
    /\ UNCHANGED <<readers, global, ticket>>

-----------------------------------------------------------------------------
(* read_lock() *)
ReadLock(t) ==
    /\ From(t, "idle", "r_lock")
    /\ UNCHANGED <<counter, readers, global, ticket>>

ReadDraw(t) ==
    /\ From(t, "r_lock", "r_count")
    /\ readers' = Append(readers, t)
    /\ UNCHANGED <<counter, global, ticket>>

\* ++counter, and global.lock() draws its ticket when it became 1.
ReadCount(t) ==
    /\ Served(t)
    /\ counter' = counter + 1
    /\ From(t, "r_count", IF counter + 1 = 1 THEN "r_global" ELSE "r_done")
    /\ IF counter + 1 = 1 THEN GlobalDraw(t) ELSE GlobalUnchanged
    /\ UNCHANGED readers

ReadGlobal(t) ==
    /\ GlobalServed(t)
    /\ From(t, "r_global", "r_done")
    /\ UNCHANGED <<counter, readers>>

ReadDone(t) ==
    /\ From(t, "r_done", "reading")
    /\ ReadersUnlock
    /\ UNCHANGED <<counter, global, ticket>>

-----------------------------------------------------------------------------
(* read_unlock(); CounterExact says its bug_on does not fire. *)
ReadUnlock(t) ==
    /\ From(t, "reading", "ru_check")
    /\ UNCHANGED <<counter, readers, global, ticket>>

ReadUnlockChecked(t) ==
    /\ From(t, "ru_check", "ru_lock")
    /\ UNCHANGED <<counter, readers, global, ticket>>

ReadUnlockDraw(t) ==
    /\ From(t, "ru_lock", "ru_count")
    /\ readers' = Append(readers, t)
    /\ UNCHANGED <<counter, global, ticket>>

ReadUnlockCount(t) ==
    /\ Served(t)
    /\ counter' = counter - 1
    /\ IF counter - 1 = 0 THEN GlobalUnlock ELSE GlobalUnchanged
    /\ From(t, "ru_count", "ru_done")
    /\ UNCHANGED readers

ReadUnlockDone(t) ==
    /\ From(t, "ru_done", "idle")
    /\ ReadersUnlock
    /\ UNCHANGED <<counter, global, ticket>>

-----------------------------------------------------------------------------
(* write_lock(), write_unlock(); see UnlockAssertion for its bug_on.       *)
WriteLock(t) ==
    /\ From(t, "idle", "w_global")
    /\ GlobalDraw(t)
    /\ UNCHANGED <<counter, readers>>

WriteLocked(t) ==
    /\ GlobalServed(t)
    /\ From(t, "w_global", "writing")
    /\ UNCHANGED <<counter, readers>>

WriteUnlock(t) ==
    /\ From(t, "writing", "wu_check")
    /\ UNCHANGED <<counter, readers, global, ticket>>

WriteUnlockChecked(t) ==
    /\ From(t, "wu_check", "idle")
    /\ GlobalUnlock
    /\ UNCHANGED <<counter, readers>>

-----------------------------------------------------------------------------
(* upgrade(): give up the read share; the last reader keeps global, any    *)
(* other one queues for it.                                                *)
Upgrade(t) ==
    /\ From(t, "reading", "up_lock")
    /\ UNCHANGED <<counter, readers, global, ticket>>

UpgradeDraw(t) ==
    /\ From(t, "up_lock", "up_count")
    /\ readers' = Append(readers, t)
    /\ UNCHANGED <<counter, global, ticket>>

UpgradeCount(t) ==
    /\ Served(t)
    /\ counter' = counter - 1
    /\ From(t, "up_count", IF counter - 1 = 0 THEN "up_last" ELSE "up_done")
    /\ UNCHANGED <<readers, global, ticket>>

UpgradeDone(t) ==
    /\ From(t, "up_last", "writing") \/ From(t, "up_done", "up_draw")
    /\ ReadersUnlock
    /\ UNCHANGED <<counter, global, ticket>>

UpgradeGlobal(t) ==
    /\ From(t, "up_draw", "w_global")
    /\ GlobalDraw(t)
    /\ UNCHANGED <<counter, readers>>

Progress(t) ==
    \/ ReadDraw(t) \/ ReadCount(t) \/ ReadGlobal(t) \/ ReadDone(t)
    \/ ReadUnlock(t) \/ ReadUnlockChecked(t) \/ ReadUnlockDraw(t)
    \/ ReadUnlockCount(t) \/ ReadUnlockDone(t)
    \/ WriteLocked(t) \/ WriteUnlock(t) \/ WriteUnlockChecked(t)
    \/ UpgradeDraw(t) \/ UpgradeCount(t) \/ UpgradeDone(t) \/ UpgradeGlobal(t)

Call(t) == ReadLock(t) \/ WriteLock(t) \/ Upgrade(t)

Next == \E t \in Threads : Call(t) \/ Progress(t)

Spec == Init /\ [][Next]_vars

\* A thread inside a method keeps executing and critical sections end;
\* whether and when a thread calls is up to the caller.
Fairness == \A t \in Threads : WF_vars(Progress(t))

FairSpec == Spec /\ Fairness

-----------------------------------------------------------------------------
Readers == {t \in Threads : pc[t] \in {"reading", "ru_check", "ru_lock", "up_lock"}}
Writers == {t \in Threads : pc[t] \in {"writing", "wu_check"}}

\* Threads counted in `counter`: from ++counter to --counter.
Counted ==
    {t \in Threads : pc[t] \in {"r_global", "r_done", "reading", "ru_check",
                                "ru_lock", "ru_count", "up_lock", "up_count"}}

(***************************************************************************)
(* A writer excludes readers and other writers, also when readers leave    *)
(* one by one, release global for each other, or upgrade.                  *)
(***************************************************************************)
ReadersWriterExclusion ==
    /\ \A t, u \in Writers : t = u
    /\ Writers # {} => Readers = {}

(***************************************************************************)
(* counter is the number of threads between ++counter and --counter, and   *)
(* a positive counter keeps a ticket of global outstanding. As a reader is *)
(* one of them, bug_on(!is_read_locked()) of read_unlock and upgrade never *)
(* fires.                                                                  *)
(***************************************************************************)
CounterExact ==
    /\ counter = Cardinality(Counted)
    /\ counter > 0 => GlobalIsLocked

(***************************************************************************)
(* bug_on(!is_write_locked()) of write_unlock wants global locked and      *)
(* counter 0.  It can fail, and only for one reason: the first reader has  *)
(* counted itself and waits for global, which the writer is about to       *)
(* release. (Every other thread that wants to read waits for readers.)     *)
(***************************************************************************)
UnlockAssertion ==
    \A t \in Threads : pc[t] = "wu_check" =>
        /\ GlobalIsLocked
        /\ counter # 0 => \E u \in Threads : Counted = {u} /\ pc[u] = "r_global"

(***************************************************************************)
(* Everything the lock promises about one state: nobody reads while        *)
(* somebody writes, the books on readers are exact, and the assertion of   *)
(* write_unlock fails only in the case that is known.                      *)
(***************************************************************************)
RwLockSafe == TypeOK /\ ReadersWriterExclusion /\ CounterExact /\ UnlockAssertion

(***************************************************************************)
(* A thread that calls read_lock gets its share, whatever the writers do.  *)
(* (A writer has no such guarantee: readers that overlap keep global.)     *)
(***************************************************************************)
ReaderProgress == \A t \in Threads : pc[t] = "r_lock" ~> pc[t] = "reading"
=============================================================================
