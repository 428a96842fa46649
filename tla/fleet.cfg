SPECIFICATION Spec
CONSTANTS
  Jobs = {j1, j2}
  Procs = {p1, p2}
  PermitSets <- SharedPermits
  Ids = {1, 2, 3, 4, 5, 6, 7, 8, 9}
  LeaseTimeout = 1
  MaxAge = 3
  MaxAttempts = 2
  BackoffCap = 0
  MaxRevision = 3
  MaxFence = 2
  Ops = {"enqueue", "claim", "reclaim", "complete", "crash"}
  Delays = {0}
  Expiries <- NoExpiry
  MaxTime = 2
  MaxInDoubt = 0
  StaleReads = FALSE
SYMMETRY JobProcSymmetry
INVARIANTS PermitsOwned
CHECK_DEADLOCK FALSE
