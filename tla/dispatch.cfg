SPECIFICATION Spec
CONSTANTS
  Jobs = {1, 2, 3}
  ScopeOf <- MixedScopes
  PriorityOf <- MixedPriorities
  CostOf <- UnitCosts
  KeyOf <- OrderedPair
  WeightOf <- OpposedWeights
  BytesOf <- OneLarge
  ExpiryOf <- OneExpires
  NoKey = 0
  ScopeConcurrency = 2
  ScopeRate = 2
  MaxCostUnits = 4
  LedgerBytes = 4
  Drives = {d1, d2}
  Registered <- TwoBuilds
  MaxClaims = 2
  MaxConcurrency = 2
  RequestBytes = 3
  OperationBudgets = {23, 56}
  LeaseTicks = 1
  MaxTime = 1
  MaxRevision = 2
  MaxService = 1
  MaxDriveFaults = 1
  NoOwner = NoOwner
  NoWake = NoWake
INVARIANTS BudgetsExact WakeNotForgotten
CHECK_DEADLOCK FALSE
