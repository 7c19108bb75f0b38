CONSTANTS
  d1 = d1  d2 = d2  d3 = d3  v1 = v1  v2 = v2  a = a  b = b
  NoCm = NoCm  NoData = NoData  NoClass = NoClass
  Disks <- MCDisks
  VGs <- MCVGs
  ClassNames <- MCClassNames
  NodeSpecs <- FixedSpecs
  InitNodes <- AllNodes
  InitCms <- NoConfigMap
  MaxEdits = 2
  MaxFaults = 2
  MaxWipes = 1
  MaxUnplugs = 1
  MaxEvents = 2
  MaxPending = 1
SPECIFICATION FairRetries
INVARIANTS StatusMatchesLvmd LvmdWellFormed ServedExists CreatedIsServed
PROPERTIES GroupsAreOurs KeepsInUse StatusComplete LossesExplained EventuallyServed
