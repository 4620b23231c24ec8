------------------------------ MODULE FifoLock ------------------------------
(***************************************************************************)
(* What a spinlock promises its callers: threads queue up in the order in  *)
(* which they asked, the head of the queue and nobody else may be granted  *)
(* the lock, and only the thread that was granted it leaves the queue.     *)
(* lib::spinlock (module TicketLock) is shown to implement this.           *)
(***************************************************************************)
EXTENDS Naturals, Sequences

CONSTANT Threads

VARIABLES
    queue,    \* the threads that asked for the lock, the oldest first
    granted   \* TRUE when the head of the queue has been told it owns it

lockVars == <<queue, granted>>

Queued == {queue[i] : i \in 1..Len(queue)}

Init ==
    /\ queue = <<>>
    /\ granted = FALSE

Request(t) ==
    /\ t \notin Queued
    /\ queue' = Append(queue, t)
    /\ UNCHANGED granted

Grant ==
    /\ queue # <<>>
    /\ ~granted
    /\ granted' = TRUE
    /\ UNCHANGED queue

Release ==
    /\ granted
    /\ granted' = FALSE
    /\ queue' = Tail(queue)

Next ==
    \/ \E t \in Threads : Request(t)
    \/ Grant
    \/ Release

Spec == Init /\ [][Next]_lockVars
=============================================================================
