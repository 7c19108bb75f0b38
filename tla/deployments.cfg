SPECIFICATION FairSpec
CONSTANTS
  N = 2
  NoImage = NoImage
  Unlisted = Unlisted
  MaxEdits = 1
  MaxWrites = 2
  MaxTouches = 1
  MaxFaults = 2
  MaxCrashes = 1
CHECK_DEADLOCK FALSE
PROPERTIES DeploymentsCreated LvmdReloaded UpdateCompletes FailureRepaired
