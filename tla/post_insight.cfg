SPECIFICATION FairSpec
CONSTANTS
  Pods = {p1, p2}
  Leftovers = {1, 2, 3}
  MaxId = 7
  MaxFaults = 2
INVARIANTS OwnRowStays
PROPERTIES CopiesDrain
