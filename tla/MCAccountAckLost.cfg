CONSTANTS
  Procs = {"api", "other"}
  Acts = {"a1", "a2", "b1"}
  Keyed = {}
  Reads = {}
  Fills = {}
  Syncs = {}
  Events = {}
  ClientOrderId <- MCClientOrderId
  Home <- MCHome
  OrderOf <- MCOrderOf
  Tickers = {}
  Serial = FALSE
  FaultKinds = {}
  MaxFaults = 0
  FillRetries = 1
SPECIFICATION Spec
INVARIANT AckedIsStored
CHECK_DEADLOCK FALSE
