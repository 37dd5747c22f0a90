CONSTANTS
  None = None
  Api = {p1}
  Matcher = {m1}
  Alert = {a1}
  Above = {a1}
  Level <- MCLevel
  Price = {1, 2}
  MaxActive = 1
  Kept = 1
  FaultKinds = {"store", "command", "load", "publish", "lease", "crash"}
  MaxFaults = 2
SPECIFICATION FairSpec
INVARIANT NotedOnce
PROPERTIES OnlyEndedLeave EveryNotePublished BooksForgetEnded CrossedFires
CHECK_DEADLOCK FALSE
