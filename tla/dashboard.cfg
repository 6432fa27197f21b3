SPECIFICATION DashboardSpec
CONSTANTS
  Targets <- MCTargets
  Contents <- MCContents
  Analyses <- MCAnalyses
  PlatformMeta <- MCPlatformMeta
  MinPrevious = 2
  Period = 1
  Quarter = 2
  Year = 3
  Month = 2
  TopRows = 1
  KeywordsPerProject = 1
  MaxRows = 2
  MaxChanges = 2
  Horizon = 6
CHECK_DEADLOCK FALSE
INVARIANTS AnswersAgree FlushHidesOnlyItsRows
PROPERTIES WindowsAdjacent
