CONSTANTS
  Parties = {1, 2}
  SP = 1
  Jobs = {j1, j2}
  Twins = {t1}
  MaxJobNum = 2
  MayFail = {j1}
  Rounds = 1
  Width = 1
  MaxErrors = 1
SPECIFICATION FairSpec
INVARIANTS
  TypeOK
  IdConservation
  UsableIdsKeepJobsApart
PROPERTIES
  JobsAreServed
CHECK_DEADLOCK FALSE
