----------------------------- MODULE TicketLock -----------------------------
(***************************************************************************)
(* lib::spinlock_base<lock_type::none> (lib/spinlock.cppm): the ticket     *)
(* lock under every other lock of the kernel.                              *)
(*                                                                         *)
(* _next_ticket and _serving_ticket are unsigned counters that wrap;       *)
(* TicketMod is their modulus (2^64 in the code, a few units in a model so *)
(* that wrapping happens). A thread's program counter says between which   *)
(* two atomic accesses of the class's methods it stands:                   *)
(*   idle      not in a method and not holding the lock                    *)
(*   until     in try_lock_until's polling loop                            *)
(*   polled    in is_locked() of try_lock, _serving_ticket loaded          *)
(*   drawing   in lock(), about to draw a ticket                           *)
(*   spin      in lock(), ticket drawn, waiting to be served               *)
(*   held      returned from lock() or a successful try_lock()             *)
(*   release   in unlock(), past the is_locked() test                      *)
(***************************************************************************)
EXTENDS Naturals, FiniteSets

CONSTANTS
    Threads,     \* the callers: a thread on some CPU, or an interrupt handler
    TicketMod    \* modulus of std::atomic_size_t

ASSUME ThreadsFinite == IsFiniteSet(Threads)
ASSUME TicketModNat == TicketMod \in Nat
\* Fewer callers than ticket values: 2^64 in the code.
ASSUME FewerThreadsThanTickets == Cardinality(Threads) < TicketMod

VARIABLES
    nextTicket,      \* _next_ticket
    servingTicket,   \* _serving_ticket
    ticket,          \* the local `ticket` of lock(), per thread, 0 when dead
    seen,            \* the local `current` of is_locked(), likewise
    pc

vars == <<nextTicket, servingTicket, ticket, seen, pc>>

Ticket == 0..(TicketMod - 1)
PC == {"idle", "until", "polled", "drawing", "spin", "held", "release"}

TypeOK ==
    /\ nextTicket \in Ticket
    /\ servingTicket \in Ticket
    /\ ticket \in [Threads -> Ticket]
    /\ seen \in [Threads -> Ticket]
    /\ pc \in [Threads -> PC]

\* Unsigned increment.
Inc(n) == IF n + 1 = TicketMod THEN 0 ELSE n + 1

Init ==
    /\ nextTicket = 0
    /\ servingTicket = 0
    /\ ticket = [t \in Threads |-> 0]
    /\ seen = [t \in Threads |-> 0]
    /\ pc = [t \in Threads |-> "idle"]

Goto(t, l) == pc' = [pc EXCEPT ![t] = l]

-----------------------------------------------------------------------------
(* Mutations: plausible bugs in the methods below. Next does not use them; *)
(* each replaces one action when the properties are tested.                *)

\* lock() reads and bumps _next_ticket in two accesses, so the bump is lost.
BugLostBump(t) ==
    /\ pc[t] = "drawing"
    /\ ticket' = [ticket EXCEPT ![t] = nextTicket]
    /\ nextTicket' \in {nextTicket, Inc(nextTicket)}
    /\ Goto(t, "spin")
    /\ UNCHANGED <<servingTicket, seen>>

\* lock() leaves its loop without waiting to be served.
BugNoWait(t) ==
    /\ pc[t] = "spin"
    /\ Goto(t, "held")
    /\ UNCHANGED <<nextTicket, servingTicket, ticket, seen>>

\* unlock() stores the next ticket instead of advancing by one.
BugServeLast(t) ==
    /\ pc[t] = "release"
    /\ servingTicket' = nextTicket
    /\ ticket' = [ticket EXCEPT ![t] = 0]
    /\ Goto(t, "idle")
    /\ UNCHANGED <<nextTicket, seen>>

-----------------------------------------------------------------------------
\* lock(): entry, the fetch_add, and the load that ends the spin loop.
Lock(t) ==
    /\ pc[t] = "idle"
    /\ Goto(t, "drawing")
    /\ UNCHANGED <<nextTicket, servingTicket, ticket, seen>>

DrawTicket(t) ==
    /\ pc[t] = "drawing"
    /\ ticket' = [ticket EXCEPT ![t] = nextTicket]
    /\ nextTicket' = Inc(nextTicket)
    /\ Goto(t, "spin")
    /\ UNCHANGED <<servingTicket, seen>>

Served(t) ==
    /\ pc[t] = "spin"
    /\ servingTicket = ticket[t]
    /\ Goto(t, "held")
    /\ UNCHANGED <<nextTicket, servingTicket, ticket, seen>>

\* unlock(): the is_locked() test, then the load and store of
\* _serving_ticket. Only the holder stores to _serving_ticket, so the two
\* loads of is_locked() are one test at the moment _next_ticket is loaded.
Unlock(t) ==
    /\ pc[t] = "held"
    /\ Goto(t, IF servingTicket # nextTicket THEN "release" ELSE "idle")
    /\ UNCHANGED <<nextTicket, servingTicket, ticket, seen>>

StoreServing(t) ==
    /\ pc[t] = "release"
    /\ servingTicket' = Inc(servingTicket)
    /\ ticket' = [ticket EXCEPT ![t] = 0]
    /\ Goto(t, "idle")
    /\ UNCHANGED <<nextTicket, seen>>

\* try_lock(): is_locked() loads _serving_ticket and then _next_ticket; other
\* threads may run between the loads, and between the test and lock().
TryLock(t) ==
    /\ pc[t] \in {"idle", "until"}
    /\ seen' = [seen EXCEPT ![t] = servingTicket]
    /\ Goto(t, "polled")
    /\ UNCHANGED <<nextTicket, servingTicket, ticket>>

TryLockTest(t) ==
    /\ pc[t] = "polled"
    /\ seen' = [seen EXCEPT ![t] = 0]
    /\ Goto(t, IF seen[t] # nextTicket THEN "idle" ELSE "drawing")
    /\ UNCHANGED <<nextTicket, servingTicket, ticket>>

\* try_lock_until(ns): polls until the lock looks free or the clock passes the
\* target, then calls try_lock() (TryLock above leaves the loop). When the
\* clock passes is not modelled: the loop may end at any poll.
TryLockUntil(t) ==
    /\ pc[t] = "idle"
    /\ Goto(t, "until")
    /\ UNCHANGED <<nextTicket, servingTicket, ticket, seen>>

Step(t) ==
    \/ Lock(t)
    \/ DrawTicket(t)
    \/ Served(t)
    \/ Unlock(t)
    \/ StoreServing(t)
    \/ TryLock(t)
    \/ TryLockTest(t)
    \/ TryLockUntil(t)

Next == \E t \in Threads : Step(t)

Spec == Init /\ [][Next]_vars

(***************************************************************************)
(* Fairness: a thread inside a method keeps executing (the CPUs do not     *)
(* stop) and a critical section ends. A thread is free never to call.      *)
(***************************************************************************)
Fairness ==
    \A t \in Threads :
        /\ WF_vars(DrawTicket(t))
        /\ WF_vars(Served(t))
        /\ WF_vars(Unlock(t))
        /\ WF_vars(StoreServing(t))
        /\ WF_vars(TryLockTest(t))

FairSpec == Spec /\ Fairness

-----------------------------------------------------------------------------
\* How far a ticket is behind the one being served, modulo TicketMod.
Behind(n) ==
    IF n >= servingTicket THEN n - servingTicket
                          ELSE n + TicketMod - servingTicket

\* Threads that drew a ticket that has not been retired yet.
Owners == {t \in Threads : pc[t] \in {"held", "release"}}
Waiters == {t \in Threads : pc[t] = "spin"}
Drawn == Owners \union Waiters

(***************************************************************************)
(* Two threads never hold the spinlock at once, however the accesses of    *)
(* lock, unlock, try_lock and try_lock_until interleave and the counters   *)
(* wrap.                                                                   *)
(***************************************************************************)
MutualExclusion == \A t, u \in Owners : t = u

(***************************************************************************)
(* The counters account for exactly the outstanding tickets: there are as  *)
(* many threads between fetch_add and the retiring store as the distance   *)
(* between the counters, each with a ticket of its own in that range.      *)
(***************************************************************************)
TicketsAccounted ==
    /\ Behind(nextTicket) = Cardinality(Drawn)
    /\ \A t \in Drawn : Behind(ticket[t]) < Behind(nextTicket)
    /\ \A t, u \in Drawn : ticket[t] = ticket[u] => t = u
    /\ \A t \in Owners : ticket[t] = servingTicket

(***************************************************************************)
(* unlock() by the holder never takes its early return (is_locked() cannot *)
(* report a held lock as free), so a release is never lost.                *)
(***************************************************************************)
UnlockNeverRefused ==
    [][\A t \in Threads : pc[t] = "held" => pc'[t] \in {"held", "release"}]_vars

(***************************************************************************)
(* Every thread that drew a ticket gets the lock. This includes a thread   *)
(* in try_lock, which after its is_locked() test waits like any other.     *)
(***************************************************************************)
EveryTicketServed == \A t \in Threads : pc[t] = "spin" ~> pc[t] = "held"

-----------------------------------------------------------------------------
\* The abstract queue: the threads with an outstanding ticket, by age.
QueueOf ==
    [i \in 1..Cardinality(Drawn) |->
        CHOOSE t \in Drawn :
            Cardinality({u \in Drawn : Behind(ticket[u]) < Behind(ticket[t])}) = i - 1]

Abstract == INSTANCE FifoLock WITH queue <- QueueOf, granted <- Owners # {}

(***************************************************************************)
(* The ticket lock implements the FIFO lock of module FifoLock: a thread   *)
(* that is spinning is never overtaken by one that drew its ticket later.  *)
(***************************************************************************)
ImplementsFifoLock == Abstract!Spec

=============================================================================
