SPECIFICATION BootSpec
CONSTANTS
  Parts = {"graph", "loader"}
  Nodes = {n1, n2, n3}
  Page = 2
  Internal <- McInternal
  Files <- McFiles
  Frames <- McFrames
  Waiters = {w1}
  OnBsp = {"gpe", w1}
  MaxWork = 2
  MaxCalls = 2
  EventWaiters = {w1, w2}
  Timeouts = {0, 15, 65535}
  MaxSignals = 3
INVARIANTS CountsExact OutcomeTrue MemoryOwned
PROPERTIES DependenciesFirst EnginesEnd
CHECK_DEADLOCK FALSE
