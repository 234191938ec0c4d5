CONSTANTS
  Parties = {1, 2, 3}
  Calls = {c1}
  KeyOf <- DistinctKeys
  CanReconnect = FALSE
  MaxErrors = 2
SPECIFICATION FairSpec
INVARIANTS
  NobodyLeavesEarly
PROPERTIES
  BarrierSpec
  SyncReturns
CHECK_DEADLOCK FALSE
