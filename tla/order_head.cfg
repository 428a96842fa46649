SPECIFICATION Spec
CONSTANTS
  Jobs = {1, 2, 3}
  ScopeOf <- MixedScopes
  PriorityOf <- MixedPriorities
  CostOf <- UnitCosts
  KeyOf <- OrderedPair
  WeightOf <- Weights
  BytesOf <- SmallBytes
  ExpiryOf <- OneExpires
  NoKey = 0
  ScopeConcurrency = 1
  ScopeRate = 2
  MaxCostUnits = 4
  LedgerBytes = 4
  Drives = {d1, d2}
  Registered <- EveryBuild
  MaxClaims = 2
  MaxConcurrency = 1
  RequestBytes = 3
  OperationBudgets = {100}
  LeaseTicks = 1
  MaxTime = 0
  MaxRevision = 1
  MaxService = 1
  MaxDriveFaults = 0
  NoOwner = NoOwner
  NoWake = NoWake
INVARIANTS HeadIsHeld
CHECK_DEADLOCK FALSE
