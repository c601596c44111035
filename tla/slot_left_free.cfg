SPECIFICATION MuteSpec
CONSTANTS
  w2 = w2
  Conns = {w2}
  Steady = {w2}
  NoConn = NoConn
  NumJobs = 2
  SlowJobs = {1}
  SlotCounts = {2}
  PendingBatch = 10
  ClaimBatch = 100
  Timely = TRUE
PROPERTIES
  FreeSlotTakesWork
CHECK_DEADLOCK FALSE
