CONSTANTS
  Procs = {"api", "other"}
  Acts = {"a1", "b1"}
  Keyed = {"b1"}
  Reads = {"r1"}
  Fills = {"f1"}
  Syncs = {"s1"}
  Events = {"e1"}
  ClientOrderId <- MCClientOrderId
  Home <- MCHome
  OrderOf <- MCOrderOf
  Tickers = {}
  Serial = TRUE
  FaultKinds = {"commit", "load", "audit", "crash"}
  MaxFaults = 1
  FillRetries = 1
SPECIFICATION Spec
INVARIANT AckedFillIsStored
PROPERTIES KeepsPromise
CHECK_DEADLOCK FALSE
