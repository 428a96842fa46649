SPECIFICATION Spec
CONSTANTS
  Jobs = {j1}
  Procs = {p1, p2}
  PermitSets <- NoPermits
  Ids = {1, 2, 3, 4, 5, 6, 7, 8, 9}
  LeaseTimeout = 1
  MaxAge = 3
  MaxAttempts = 2
  BackoffCap = 1
  MaxRevision = 2
  MaxFence = 2
  Ops = {"enqueue", "claim", "retry", "cancelclaim", "request", "cancel", "expire", "corrupt"}
  Delays = {0}
  Expiries <- NoExpiry
  MaxTime = 1
  MaxInDoubt = 1
  StaleReads = FALSE
SYMMETRY ProcSymmetry
PROPERTIES CancellationPrecedence ImplementsContract
CHECK_DEADLOCK FALSE
