CONSTANTS
  Holder = {h1, h2}
  TTL = 3
  Renew = 1
  MaxFaults = 4
  None = None
SPECIFICATION FairSpec
INVARIANTS OneWriter HeldIsOwned
PROPERTIES HolderKeepsLease Takeover
CHECK_DEADLOCK FALSE
