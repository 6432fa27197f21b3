SPECIFICATION FairSpec
CONSTANTS
  d1 = d1
  d2 = d2
  p1 = p1
  p2 = p2
  Documents = {d1}
  Projects = {p1}
  NoProject = NoProject
  ProjectOf <- OneProject
  BatchSize = 2
  MaxMessage = 2
  Worker = w
  Closers = {t1}
  MaxHanded = 3
  MaxFaults = 2
  MaxClock = 1
  MaxLost = 1
CHECK_DEADLOCK FALSE
INVARIANTS NothingVanishes PublishedInOrder DigestFollowsItsBatch NoReplayAfterDigest
PROPERTIES RetriesSettle
