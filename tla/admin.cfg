SPECIFICATION Spec
CONSTANTS
  Jobs = {j1}
  Procs = {p1, p2}
  PermitSets <- NoPermits
  Ids = {1, 2, 3, 4, 5, 6, 7, 8, 9}
  LeaseTimeout = 1
  MaxAge = 3
  MaxAttempts = 2
  BackoffCap = 0
  MaxRevision = 3
  MaxFence = 2
  Ops = {"enqueue", "seed", "reuse", "claim", "complete", "continue", "deadletter", "cancel", "suspend", "resume", "expire", "redrive", "repair"}
  Delays = {0, 1}
  Expiries <- SomeExpiry
  MaxTime = 2
  MaxInDoubt = 0
  StaleReads = FALSE
SYMMETRY ProcSymmetry
INVARIANTS RowsCoherent
PROPERTIES FenceMonotone
CHECK_DEADLOCK FALSE
