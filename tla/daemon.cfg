CONSTANTS
  Devices = {d1}
  Members = {d1}
  ProbeInterval = 2
  Period = 1
  MaxLines = 2
  MaxChanges = 2
  MaxFaults = 3
SPECIFICATION FairSpec
INVARIANT EventOnItsWay
PROPERTIES ListSettles StateSettles
