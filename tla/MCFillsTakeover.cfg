SPECIFICATION FairSpec
CONSTANTS
  c1 = c1  c2 = c2  f1 = f1  f2 = f2  u1 = u1  None = None
  Consumer = {c1, c2}
  Leavers = {c1}
  Fill = {f1, f2}
  UserOf <- OneUser
  Malformed = {}
  Poison = {f1}
  PageSize = 1
  MaxPages = 1
  MaxDeliveries = 2
  LateClose = FALSE
  FaultKinds = {"read", "claim", "count", "fill", "dead", "ack", "cleanup", "crash", "redis"}
  MaxFaults <- MCMaxFaults
INVARIANT NoneLost
PROPERTIES EveryFillSettled CloseEnds
CHECK_DEADLOCK FALSE
