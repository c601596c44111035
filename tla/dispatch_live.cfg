SPECIFICATION LiveSpec
CONSTANTS
  w1 = w1
  w2 = w2
  Conns = {w1, w2}
  Steady = {w2}
  NoConn = NoConn
  NumJobs = 1
  SlowJobs = {1}
  SlotCounts = {1, 2}
  PendingBatch = 10
  ClaimBatch = 100
  Timely = TRUE
PROPERTIES
  EveryJobSettled
CHECK_DEADLOCK FALSE
