SPECIFICATION FairSpec
CONSTANTS
    Threads = {t1, t2, t3}
    TicketMod = 4
INVARIANTS
    MutualExclusion
    TicketsAccounted
PROPERTIES
    EveryTicketServed
    ImplementsFifoLock
CHECK_DEADLOCK TRUE
