CONSTANTS
  Reqs = {r1, r2, r3}
  a = a
  b = b
  j = j
  DataIDs = {a, b}
  PieceIDs = {1}
  JobUUIDs = {j}
  Ops <- AllOps
  Failures = {"open", "recv"}
SPECIFICATION Spec
SYMMETRY Symmetry
INVARIANTS
  TypeOK
  DuplicatesOnlyFromOverlap
  OnlyMultiIdDeletesDeadlock
PROPERTIES
  LocksAreMutexes
  IdsChangeUnderTheirLock
  DeleteActsOnFreshCheck
CHECK_DEADLOCK FALSE
