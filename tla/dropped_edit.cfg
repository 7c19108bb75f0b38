CONSTANTS
  Callers = {c1}
  NoJob = NoJob
  MaxEdits = 2
  MaxRequests = 0
  MaxErrors = 0
  MaxFails = 0
  MayTimeOut = FALSE
SPECIFICATION FairSpec
PROPERTIES EditsApplied
CHECK_DEADLOCK FALSE
