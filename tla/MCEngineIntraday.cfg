CONSTANTS
  TickSize = 2
  BasisPoints = 4
  None = None
  OrderId <- MCOrderId
  OpeningBalance = 20
  Circuit = {4, 6, 8}
  Price = {4, 8}
  Drafts <- IntradayDrafts
  Changes <- NoChange
  StopParams <- IntradayStops
  StopPrices = {}
  HeldQty = 0
  HeldCost = 0
  Cap = 2
  AlwaysOpen = FALSE
  MinTrail = 1
  MaxTrail = 2
  Replay = 1
  MaxOrders = 2
  MaxStops = 2
  MaxClock = 2
SPECIFICATION Spec
INVARIANTS MoneyAddsUp StopsFollowPositions StopsEndWithOrders
CHECK_DEADLOCK FALSE
