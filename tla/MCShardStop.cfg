CONSTANTS
  TickSize = 1
  BasisPoints = 4
  None = None
  Worker = {w1}
  Order = {}
  Stop = {s1}
  Price = {2, 3}
  Limit = {}
  Trail <- MCTrail
  MaxVersion = 2
  FaultKinds = {}
  MaxFaults = 0
SPECIFICATION Spec
INVARIANT EngineTriggersToo
CHECK_DEADLOCK FALSE
