------------------------------- MODULE Mutex --------------------------------
(***************************************************************************)
(* lib::mutex (lib/mutex.cppm) over lib::semaphore (lib/semaphore.cpp): a  *)
(* spinlock that threads queue for, and a semaphore on which a thread that *)
(* finds the spinlock taken sleeps first. The two are not tied together:   *)
(* lock() tests the spinlock, waits on the semaphore and then queues for   *)
(* the spinlock in three separate steps, and unlock() releases one before  *)
(* it signals the other.                                                   *)
(*                                                                         *)
(* _lock is its queue of tickets (module TicketLock shows that a spinlock  *)
(* is one to its callers). The body of a semaphore method runs under       *)
(* semaphore::lock with interrupts off, so it is one step; putting the     *)
(* caller to sleep and waking it is module Sched's subject, here a thread  *)
(* at "asleep" stays there until a wake_up.                                *)
(***************************************************************************)
EXTENDS Integers, Sequences, FiniteSets

CONSTANTS
    Threads,
    MaxSignals    \* bound on the signals that pile up, to keep TLC finite

MutexAssumption == IsFiniteSet(Threads) /\ MaxSignals \in Nat

VARIABLES
    lockq,     \* _lock: the threads with a ticket, the first one served
    signals,   \* semaphore::signals
    waiters,   \* semaphore::threads
    target,    \* the local `thread` of signal(), a set of at most one
    pc

vars == <<lockq, signals, waiters, target, pc>>

PC == {"idle", "wait", "asleep", "draw", "spin", "held", "tested",
       "signal", "wake", "try", "poll"}

TypeOK ==
    /\ lockq \in Seq(Threads)
    /\ signals \in -Cardinality(Threads)..MaxSignals
    /\ waiters \in Seq(Threads)
    /\ target \in [Threads -> SUBSET Threads]
    /\ pc \in [Threads -> PC]

Init ==
    /\ lockq = <<>>
    /\ signals = 0
    /\ waiters = <<>>
    /\ target = [t \in Threads |-> {}]
    /\ pc = [t \in Threads |-> "idle"]

Goto(t, l) == pc' = [pc EXCEPT ![t] = l]
From(t, l, m) == pc[t] = l /\ Goto(t, m)
IsLocked == lockq # <<>>

\* The bound: a method is only called while the signals of all calls under way
\* fit. (Every unlock leaves a signal, also one that nobody waited for.)
Room == signals + Cardinality({t \in Threads : pc[t] # "idle"}) < MaxSignals

-----------------------------------------------------------------------------
(* Mutations: plausible bugs in the methods below. Next does not use them. *)

\* unlock() releases the spinlock and returns without signalling.
BugForgetSignal(t) ==
    /\ pc[t] = "tested"
    /\ lockq' = Tail(lockq)
    /\ Goto(t, "idle")
    /\ UNCHANGED <<signals, waiters, target>>

\* lock() does not queue for the spinlock again once it has been woken.
BugWokenOwns(t) ==
    /\ pc[t] = "draw"
    /\ lockq' = Append(lockq, t)
    /\ Goto(t, "held")
    /\ UNCHANGED <<signals, waiters, target>>

-----------------------------------------------------------------------------
(* lock() *)
Lock(t) ==
    /\ From(t, "idle", IF IsLocked THEN "wait" ELSE "draw")
    /\ UNCHANGED <<lockq, signals, waiters, target>>

\* semaphore::wait(): returns at once when a signal is left over.
Wait(t) ==
    /\ pc[t] = "wait"
    /\ signals' = signals - 1
    /\ waiters' = IF signals' < 0 THEN Append(waiters, t) ELSE waiters
    /\ Goto(t, IF signals' < 0 THEN "asleep" ELSE "draw")
    /\ UNCHANGED <<lockq, target>>

Draw(t) ==
    /\ From(t, "draw", "spin")
    /\ lockq' = Append(lockq, t)
    /\ UNCHANGED <<signals, waiters, target>>

Served(t) ==
    /\ From(t, "spin", "held")
    /\ Head(lockq) = t
    /\ UNCHANGED <<lockq, signals, waiters, target>>

-----------------------------------------------------------------------------
(* unlock(): test, release, signal, wake. *)
Unlock(t) ==
    /\ From(t, "held", IF IsLocked THEN "tested" ELSE "idle")
    /\ UNCHANGED <<lockq, signals, waiters, target>>

Release(t) ==
    /\ From(t, "tested", "signal")
    /\ lockq' = Tail(lockq)
    /\ UNCHANGED <<signals, waiters, target>>

\* semaphore::signal(false): hand the signal to the oldest waiter, if any.
Signal(t) ==
    /\ pc[t] = "signal"
    /\ signals' = signals + 1
    /\ IF signals' <= 0 /\ waiters # <<>>
          THEN /\ target' = [target EXCEPT ![t] = {Head(waiters)}]
               /\ waiters' = Tail(waiters)
               /\ Goto(t, "wake")
          ELSE Goto(t, "idle") /\ UNCHANGED <<waiters, target>>
    /\ UNCHANGED lockq

\* thread::wake_up(0), after semaphore::lock is released.
WakeUp(t) ==
    /\ pc[t] = "wake"
    /\ pc' = [u \in Threads |->
                CASE u = t -> "idle"
                  [] u \in target[t] /\ pc[u] = "asleep" -> "draw"
                  [] OTHER -> pc[u]]
    /\ target' = [target EXCEPT ![t] = {}]
    /\ UNCHANGED <<lockq, signals, waiters>>

-----------------------------------------------------------------------------
\* try_lock(): spinlock::try_lock tests and then queues.
TryLock(t) ==
    /\ pc[t] \in {"idle", "try"}
    /\ Goto(t, IF IsLocked THEN "idle" ELSE "draw")
    /\ UNCHANGED <<lockq, signals, waiters, target>>

\* try_lock_until(): semaphore::wait_for polls test() with sleeps in between
\* until it takes a signal or the time is over, whenever that is.
TryLockUntil(t) ==
    /\ From(t, "idle", IF IsLocked THEN "poll" ELSE "try")
    /\ UNCHANGED <<lockq, signals, waiters, target>>

PollTest(t) ==
    /\ From(t, "poll", "try")
    /\ signals > 0
    /\ signals' = signals - 1
    /\ UNCHANGED <<lockq, waiters, target>>

PollTimeout(t) ==
    /\ From(t, "poll", "try")
    /\ signals <= 0
    /\ UNCHANGED <<lockq, signals, waiters, target>>

\* What the scheduler keeps running; calling a method is up to the caller.
Progress(t) ==
    \/ Wait(t) \/ Draw(t) \/ Served(t)
    \/ Unlock(t) \/ Release(t) \/ Signal(t) \/ WakeUp(t)
    \/ PollTest(t) \/ PollTimeout(t)
    \/ pc[t] = "try" /\ TryLock(t)

Call(t) == Room /\ pc[t] = "idle" /\ (Lock(t) \/ TryLock(t) \/ TryLockUntil(t))

Next == \E t \in Threads : Progress(t) \/ Call(t)

Spec == Init /\ [][Next]_vars

\* Threads inside a method are scheduled again and again, and whoever holds
\* the mutex unlocks it.
Fairness == \A t \in Threads : WF_vars(Progress(t))

FairSpec == Spec /\ Fairness

-----------------------------------------------------------------------------
Holders == {t \in Threads : pc[t] \in {"held", "tested"}}
Asleep == {t \in Threads : pc[t] = "asleep"}

(***************************************************************************)
(* At most one thread holds the mutex, woken sleepers and threads that     *)
(* never slept included.                                                   *)
(***************************************************************************)
MutualExclusion == \A t, u \in Holders : t = u

(***************************************************************************)
(* The semaphore's books balance: a negative count is the number of        *)
(* threads in the list, a listed thread is asleep, and every sleeper is    *)
(* listed or is the target of exactly one wake_up under way. Hence         *)
(* bug_on(threads.size() == 0) in signal() never fires.                    *)
(***************************************************************************)
SemaphoreExact ==
    /\ Len(waiters) = IF signals < 0 THEN -signals ELSE 0
    /\ \A i \in 1..Len(waiters) : waiters[i] \in Asleep
    /\ \A t \in Asleep :
         Cardinality({i \in 1..Len(waiters) : waiters[i] = t})
           + Cardinality({u \in Threads : t \in target[u]}) = 1

(***************************************************************************)
(* One holder, and a semaphore whose count, list and sleepers agree, so that *)
(* no thread sleeps that no signal can reach.                              *)
(***************************************************************************)
MutexSafe == TypeOK /\ MutualExclusion /\ SemaphoreExact

(***************************************************************************)
(* Every call of lock() returns with the mutex held: no wake-up is lost    *)
(* between the test of the spinlock and the sleep, or to a poller.         *)
(***************************************************************************)
EveryLockReturns == \A t \in Threads : pc[t] \in {"wait", "draw"} ~> pc[t] = "held"
=============================================================================
