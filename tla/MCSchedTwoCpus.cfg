SPECIFICATION Spec
CONSTANTS
    c1 = c1
    c2 = c2
    s1 = s1
    s2 = s2
    r1 = r1
    r2 = r2
    Cpus = {c1, c2}
    Bsp = c1
    Workers = {w1, w2}
    Sleeper <- TwoSleepers
    Reaper <- TwoReapers
    Idle = Idle
    MaxLag = 1
    MaxRun = 1
    MaxSleep = 1
INVARIANT NoSchedulerPanic
CHECK_DEADLOCK FALSE
