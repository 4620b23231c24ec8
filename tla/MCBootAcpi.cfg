SPECIFICATION BootSpec
CONSTANTS
  Parts = {"work", "event"}
  Nodes = {n1, n2, n3}
  Page = 2
  Internal <- McInternal
  Files <- McFiles
  Frames <- McFrames
  Waiters = {w1}
  OnBsp = {"gpe", w1}
  MaxWork = 2
  MaxCalls = 1
  EventWaiters = {w1, w2}
  Timeouts = {0, 15, 65535}
  MaxSignals = 2
INVARIANTS StrandedOnlyByOther HangsOnlyAfterReport ConsumedOnce GivesUpLate
PROPERTY AwakeWorkerRuns
CHECK_DEADLOCK FALSE
