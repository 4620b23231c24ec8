---------------------------- MODULE MCTicketLock ----------------------------
EXTENDS TicketLock
=============================================================================
