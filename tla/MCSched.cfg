SPECIFICATION FairSpec
CONSTANTS
    c1 = c1
    c2 = c2
    s1 = s1
    s2 = s2
    r1 = r1
    r2 = r2
    Cpus = {c1}
    Bsp = c1
    Workers = {w1, w2}
    Sleeper <- OneSleeper
    Reaper <- OneReaper
    Idle = Idle
    MaxLag = 1
    MaxRun = 1
    MaxSleep = 2
INVARIANT SchedSafe
PROPERTIES
    ReadyThreadRuns
    SignalledThreadRuns
    TimedSleepEnds
CHECK_DEADLOCK FALSE
