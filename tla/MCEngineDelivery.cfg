CONSTANTS
  TickSize = 2
  BasisPoints = 4
  None = None
  OrderId <- MCOrderId
  OpeningBalance = 12
  Circuit = {4, 6, 8, 12}
  Price = {4, 8}
  Drafts <- DeliveryDrafts
  Changes <- DeliveryChanges
  StopParams <- DeliveryStops
  StopPrices = {2}
  HeldQty = 2
  HeldCost = 11
  Cap = 2
  AlwaysOpen = FALSE
  MinTrail = 1
  MaxTrail = 2
  Replay = 1
  MaxOrders = 2
  MaxStops = 1
  MaxClock = 3
SPECIFICATION Spec
INVARIANTS TypeOK BlocksCoverBuys SharesAddUp SellsAreCovered OnlyDebitBreaks NothingOvernight
CHECK_DEADLOCK FALSE
