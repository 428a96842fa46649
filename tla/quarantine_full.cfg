SPECIFICATION Spec
CONSTANTS
  Records = {r1, r2}
  Scope <- OneScope
  Cost <- UnitCost
  ReceiptCost = 1
  ItemLimit = 1
  ByteLimit = 6
  BatchItems = 2
  BatchBytes = 4
  MaxReceipts = 1
  Batches = {1, 2}
  LeaseTime = 1
  Nodes = {n1}
  Callers = {c1, c2}
  Prints = {1}
  WaitForCapacity = FALSE
  MaxAttempts = 2
  FailureThreshold = 2
  RecoveryThreshold = 1
  HasQueue = FALSE
  AllowQueueSuccess = FALSE
  Faults = {"prepare"}
  MaxFaults = 1
  MaxTime = 1
  MaxOrphans = 0
  MaxFence = 2
PROPERTIES AdmissionIgnoresQuarantine
CHECK_DEADLOCK FALSE
