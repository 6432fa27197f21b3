SPECIFICATION FairSpec
CONSTANTS
  Pods = {c1, c2}
  Partitions = {p1}
  End = 2
  MaxPollRecords = 2
  MaxFaults = 2
  NoPod = NoPod
INVARIANTS PositionsBacked OneAttemptPerAssignment
PROPERTIES NeverReplaysCommitted ImplementsHandoff EveryRecordHandled
