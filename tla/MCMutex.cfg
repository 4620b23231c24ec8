SPECIFICATION LocksSpec
CONSTANTS
    Parts = {"mutex"}
    Threads = {t1, t2, t3}
    TicketMod = 5
    MaxSignals = 5
INVARIANT MutexSafe
PROPERTY EveryLockReturns
CHECK_DEADLOCK FALSE
