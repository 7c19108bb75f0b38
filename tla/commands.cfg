CONSTANTS
  Capacity = 1
  MaxLines = 2
SPECIFICATION FairSpec
INVARIANT SuccessIsComplete
PROPERTIES CallsReturn
CHECK_DEADLOCK FALSE
