SPECIFICATION LocksSpec
CONSTANTS
    Parts = {"rwlock"}
    Threads = {t1, t2, t3}
    TicketMod = 5
    MaxSignals = 5
INVARIANT RwLockSafe
PROPERTY ReaderProgress
