SPECIFICATION FairSpec
CONSTANTS
  Names = {a}
  Storages = {1, 2, 3}
  InvalidStorages = {2}
  UseLoop = TRUE
  MayRevert = FALSE
  NoCluster = NoCluster
  NoName = NoName
  NoStorage = NoStorage
  MaxCreates = 2
  MaxEdits = 1
  MaxFaults = 1
  MaxCrashes = 1
  MaxDevices = 1
  MaxLate = 1
  MaxEvents = 3
CHECK_DEADLOCK FALSE
INVARIANT OneChecker
PROPERTIES StorageApplied DeletionCompletes CleanedUp LoopsDiscovered
