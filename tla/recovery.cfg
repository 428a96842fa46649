SPECIFICATION FairSpec
CONSTANTS
  Jobs = {j1}
  Procs = {p1, p2}
  PermitSets <- NoPermits
  Ids = {1, 2, 3, 4, 5, 6, 7, 8, 9}
  LeaseTimeout = 1
  MaxAge = 3
  MaxAttempts = 1
  BackoffCap = 0
  MaxRevision = 2
  MaxFence = 1
  Ops = {"enqueue", "claim", "expire", "crash"}
  Delays = {0}
  Expiries <- NoExpiry
  MaxTime = 1
  MaxInDoubt = 1
  StaleReads = FALSE
PROPERTIES LeasesEnd CallsReturn
CHECK_DEADLOCK FALSE
