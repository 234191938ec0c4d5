CONSTANTS
  Parties = {1, 2, 3}
  Calls = {c1}
  KeyOf <- DistinctKeys
  CanReconnect = TRUE
  MaxErrors = 1
SPECIFICATION Spec
INVARIANTS
  NobodyLeavesEarly
CHECK_DEADLOCK FALSE
