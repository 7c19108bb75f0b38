CONSTANTS
  x = x  y = y  u = u
  AutoDisks <- MCAutoDisks
  UserDisks <- MCUserDisks
  UserLoop <- MCUserLoop
  Vg = vg
  Loops <- MCLoops
  Files <- MCFiles
  NoFile = NoFile  NoDev = NoDev  NoRecord = NoRecord
  Specs <- MCSpecs
  MaxBusy = 1
  MaxEdits = 1
  MaxFaults = 1
  MaxReboots = 1
SPECIFICATION FairSpec
INVARIANTS RecordsTrue OneDevice NoLeakedLoop
PROPERTIES UsedClassKept LoopsRestored RetryEnds
CHECK_DEADLOCK FALSE
