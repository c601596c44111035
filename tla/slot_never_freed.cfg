SPECIFICATION MuteSpec
CONSTANTS
  w2 = w2
  Conns = {w2}
  Steady = {w2}
  NoConn = NoConn
  NumJobs = 1
  SlowJobs = {1}
  SlotCounts = {1}
  PendingBatch = 10
  ClaimBatch = 100
  Timely = TRUE
PROPERTIES
  StuckJobExpires
CHECK_DEADLOCK FALSE
