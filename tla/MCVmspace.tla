----------------------------- MODULE MCVmspace ------------------------------
EXTENDS Vmspace
=============================================================================
