CONSTANTS
  Parties = {1, 2}
  Jobs = {j1, j2}
  JobIds = {j1, j2}
  JobIdOf <- DistinctIds
  Rounds = 2
  Width = 2
  MaxErrors = 1
SPECIFICATION FairSpec
INVARIANTS
  OnlyOwnShares
  Lockstep
PROPERTIES
  JobsEnd
