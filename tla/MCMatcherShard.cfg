CONSTANTS
  TickSize = 1
  BasisPoints = 4
  None = None
  Worker = {w1}
  Order = {o1}
  Stop = {}
  Price = {3}
  Limit = {2, 3}
  Trail <- MCTrail
  MaxVersion = 3
  FaultKinds = {"command", "send", "fill", "read", "lease", "crash"}
  MaxFaults = 2
SPECIFICATION FairSpec
INVARIANT RestsAsStored
PROPERTIES NewsStays InStep CrossedIsFilled
CHECK_DEADLOCK FALSE
