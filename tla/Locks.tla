------------------------------- MODULE Locks --------------------------------
(***************************************************************************)
(* The two locks that are built on spinlocks: the reader-writer lock       *)
(* (RwLock, which is extended) and the mutex with its semaphore.  They     *)
(* share no state; a behaviour is one of one of them, the other rests.     *)
(***************************************************************************)
EXTENDS RwLock

CONSTANTS
    Parts,        \* bound: the parts that are looked at
    MaxSignals    \* of Mutex

VARIABLES
    part,         \* the part whose behaviour this is
    lockq, signals, waiters, target, mutexPc

Mtx == INSTANCE Mutex WITH pc <- mutexPc

ASSUME LocksAssumption == Mtx!MutexAssumption

mutexVars == <<lockq, signals, waiters, target, mutexPc>>
lockVars == <<part, vars, mutexVars>>

LocksInit ==
    /\ part \in Parts \cap {"rwlock", "mutex"}
    /\ Init /\ Mtx!Init
LocksNext ==
    \/ part = "rwlock" /\ Next /\ UNCHANGED <<part, mutexVars>>
    \/ part = "mutex" /\ Mtx!Next /\ UNCHANGED <<part, vars>>
LocksSpec ==
    /\ LocksInit /\ [][LocksNext]_lockVars
    /\ part = "rwlock" => Fairness
    /\ part = "mutex" => Mtx!Fairness

-----------------------------------------------------------------------------
(* Properties; RwLockSafe and ReaderProgress are those of RwLock.          *)

\* One thread holds the mutex, and the count, the list and the sleepers of its
\* semaphore agree, so that no thread sleeps that no signal can reach.
MutexSafe == Mtx!MutexSafe

\* Every call of lock() returns with the mutex held: no wake-up is lost
\* between the test of the spinlock and the sleep, or to a poller.
EveryLockReturns == part = "mutex" => Mtx!EveryLockReturns
=============================================================================
