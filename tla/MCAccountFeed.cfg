CONSTANTS
  o1 = o1  None = None
  Order = {o1}
  LoadedAt = 1
  MaxCommits = 3
  MaxSockets = 2
  MaxSignIns = 1
  FaultKinds = {"publish", "check", "revocation", "drop", "load"}
  MaxFaults = 2
SPECIFICATION FairSpec
INVARIANTS KeepsWhatItGot WatchedIsSubscribed RevokedAreClosed
PROPERTY ComingBackCatchesUp
CHECK_DEADLOCK FALSE
