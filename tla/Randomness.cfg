CONSTANTS
  Parties = {1, 2, 3}
  SP = 1
  Jobs = {1, 2}
  Products = 3
  Threshold = 2
  NHold = 2
  MaxErrors = 1
SPECIFICATION Spec
INVARIANTS
  TriplesBelongTogether
  TriplesUsedOnce
  NumbersUsedOnce
CHECK_DEADLOCK FALSE
