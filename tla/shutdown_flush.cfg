SPECIFICATION ServerSpec
CONSTANTS
  p1 = p1
  p2 = p2
  Projects = {p1, p2}
  NoProject = NoProject
  ProjectOf <- TwoProjects
  Worker = w
  MaxClock = 0
  MaxLost = 0
  Documents = {1, 2}
  LastRecord = 2
  MaxPollRecords = 2
  BatchSize = 2
  MaxMessage = 9
  Closers = {t1}
  MaxHanded = 2
  MaxTrouble = 2
  MaxFaults = 2
CHECK_DEADLOCK FALSE
INVARIANTS ShutdownFlushes
