CONSTANTS
  d1 = d1  d2 = d2  d3 = d3  v1 = v1  v2 = v2  a = a  b = b
  NoCm = NoCm  NoData = NoData  NoClass = NoClass
  Disks <- MCPair
  VGs <- MCOneVG
  ClassNames <- MCOneName
  NodeSpecs <- PairGrows
  InitNodes <- OnlyBlank
  InitCms <- NoConfigMap
  MaxEdits = 1
  MaxFaults = 1
  MaxWipes = 0
  MaxUnplugs = 1
  MaxEvents = 3
SPECIFICATION FairStorageSpec
PROPERTIES KeysKept DevicesPublished StatesShown
