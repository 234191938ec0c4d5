CONSTANTS
  Procs = {p1, p2, p3}
  Keys = {a, b}
SPECIFICATION FairSpec
PROPERTIES
  MutexSpec
  FreeKeyIsTaken
CHECK_DEADLOCK FALSE
