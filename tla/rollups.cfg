SPECIFICATION FairSpec
CONSTANTS
  Pods = {pod1, pod2}
  Projects = {x1, x2}
  Concurrency = 1
  MaxVersion = 2
  MaxFaults = 1
PROPERTIES NeverBack KeptWarm
CHECK_DEADLOCK FALSE
