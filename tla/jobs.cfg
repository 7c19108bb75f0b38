CONSTANTS
  Callers = {c1, c2, c3}
  NoJob = NoJob
  MaxEdits = 2
  MaxRequests = 1
  MaxErrors = 1
  MaxFails = 1
  MayTimeOut = TRUE
SPECIFICATION FairSpec
PROPERTIES CallServed CallsReturn RunsInOrder
CHECK_DEADLOCK FALSE
