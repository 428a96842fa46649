SPECIFICATION Spec
CONSTANTS
  Jobs = {j1}
  Procs = {p1, p2}
  PermitSets <- NoPermits
  Ids = {1, 2, 3, 4, 5, 6, 7, 8, 9}
  LeaseTimeout = 1
  MaxAge = 3
  MaxAttempts = 2
  BackoffCap = 0
  MaxRevision = 3
  MaxFence = 2
  Ops = {"enqueue", "reuse", "claim", "complete", "cancel"}
  Delays = {0}
  Expiries <- NoExpiry
  MaxTime = 2
  MaxInDoubt = 0
  StaleReads = FALSE
INVARIANTS ScheduledIsCancellable
CHECK_DEADLOCK FALSE
