CONSTANTS
  n1 = n1  n2 = n2
  Absent = Absent  NoCm = NoCm  NoMetric = NoMetric
  Nodes <- TwoNodes
  PodStates <- UpOrDown
  UseAllNodes = TRUE
  MaxWrites = 2
  MaxPods = 1
  MaxOthers = 1
SPECIFICATION FairSpec
PROPERTIES NoLostUpdate PhasesConverge StatusKept MetricConverges StatusIsAtomic
CHECK_DEADLOCK FALSE
