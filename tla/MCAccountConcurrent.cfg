CONSTANTS
  Procs = {"api", "other"}
  Acts = {"a1", "b1"}
  Keyed = {"a1", "b1"}
  Reads = {}
  Fills = {"f1"}
  Syncs = {}
  Events = {"e1"}
  ClientOrderId <- MCClientOrderId
  Home <- MCHome
  OrderOf <- MCOrderOf
  Tickers = {"api"}
  Serial = FALSE
  FaultKinds = {"commit", "load", "reload", "audit", "crash"}
  MaxFaults = 1
  FillRetries = 1
SPECIFICATION FairSpec
INVARIANTS NoLostUpdate AnnouncedAtCommit IdleEngineIsStored KeyedOnce
PROPERTIES EveryRequestAnswered FillsAcked
CHECK_DEADLOCK FALSE
