CONSTANTS
  Entries <- McEntries
  BspAid = 11
  Builds = {TRUE, FALSE}
  Machines <- McMachines
  Legacy <- McLegacy
  NumInts = 9
  SchedVector = 8
  SciLines = {3, 4}
  Cpus = {"c1", "c2"}
  Bsp = "c1"
  Started <- McStarted
  MaxTime = 3
  Callers = {"r1", "r2"}
  Period = 4
  MaxTicks = 12
  MaxJumps = 2
  Threads = {"t1", "t2", "t3"}
  Home <- McHome
  QueueCpu = "c1"
SPECIFICATION Spec
INVARIANTS ProcessorsApart LinesReachHandlers ExactUnlessOvertaken IrqGuardsHold PreemptGuardsHold
PROPERTY TimeNeverBack
CHECK_DEADLOCK FALSE
