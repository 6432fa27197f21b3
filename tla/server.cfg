SPECIFICATION FairServerSpec
CONSTANTS
  p1 = p1
  p2 = p2
  Projects = {p1, p2}
  NoProject = NoProject
  ProjectOf <- TwoProjects
  Worker = w
  MaxClock = 0
  MaxLost = 0
  Documents = {1, 2, 3}
  LastRecord = 3
  MaxPollRecords = 3
  BatchSize = 2
  MaxMessage = 2
  Closers = {t1, t2}
  MaxHanded = 6
  MaxTrouble = 1
  MaxFaults = 1
CHECK_DEADLOCK FALSE
INVARIANTS NoRecordSkipped OwnProjectUntilFailure FlushesAlone
PROPERTIES ReachesEnd
