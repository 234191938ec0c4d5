CONSTANTS
  r1 = r1
  r2 = r2
  u1 = u1
  u2 = u2
  Runs = {r1, r2}
  Uuids = {u1, u2}
  Tasks <- MCTasks
  CounterSize = 2
  MaxClock = 2
  MaxErrors = 1
SPECIFICATION FairSpec
INVARIANTS
  TypeOK
  KeysApart
  OneRowPerRun
  RowFollowsRun
  AnswerIsComplete
PROPERTIES
  RunsEnd
