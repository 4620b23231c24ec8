------------------------------ MODULE MCLocks -------------------------------
EXTENDS Locks
=============================================================================
