CONSTANTS
  c1 = c1
  Threads = {c1, p1, p2}
  Values = {v1, v2}
  OpsOf <- OneConsumer
  MaxSize = 2
SPECIFICATION FairQueueSpec
INVARIANTS
  NoLostWakeup
PROPERTIES
  FifoSpec
  PopReturns
