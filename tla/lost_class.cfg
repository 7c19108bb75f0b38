CONSTANTS
  d1 = d1  d2 = d2  d3 = d3  v1 = v1  v2 = v2  a = a  b = b
  NoCm = NoCm  NoData = NoData  NoClass = NoClass
  Disks <- MCDisks
  VGs <- MCVGs
  ClassNames <- MCClassNames
  NodeSpecs <- PairAndB
  InitNodes <- ThirdUsed
  InitCms <- NoConfigMap
  MaxEdits = 0
  MaxFaults = 0
  MaxWipes = 1
  MaxUnplugs = 1
  MaxEvents = 2
SPECIFICATION StorageSpec
INVARIANTS CreatedIsServed
