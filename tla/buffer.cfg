SPECIFICATION Spec
CONSTANTS
  Records = {r1, r2}
  Scope <- OneScope
  Cost <- UnitCost
  ReceiptCost = 1
  ItemLimit = 2
  ByteLimit = 6
  BatchItems = 2
  BatchBytes = 4
  MaxReceipts = 1
  Batches = {1, 2}
  LeaseTime = 1
  Nodes = {n1}
  Callers = {c1, c2}
  Prints = {1}
  WaitForCapacity = FALSE
  MaxAttempts = 2
  FailureThreshold = 2
  RecoveryThreshold = 1
  HasQueue = TRUE
  AllowQueueSuccess = TRUE
  Faults = {"timeout", "late", "sink", "queue", "prepare", "cancel", "crash"}
  MaxFaults = 2
  MaxTime = 1
  MaxOrphans = 1
  MaxFence = 2
INVARIANTS RetentionExact ReceiptsTruthful WithinCapacity DrainExact
CONSTRAINT FaultsApart
SYMMETRY Sym
CHECK_DEADLOCK FALSE
