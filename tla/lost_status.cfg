CONSTANTS
  n1 = n1  n2 = n2
  Absent = Absent  NoCm = NoCm  NoMetric = NoMetric
  Nodes <- TwoNodes
  PodStates <- UpOrDown
  UseAllNodes = TRUE
  MaxWrites = 2
  MaxPods = 0
  MaxOthers = 0
SPECIFICATION FairSpec
PROPERTIES StatusConverges
CHECK_DEADLOCK FALSE
