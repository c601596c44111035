SPECIFICATION Spec
CONSTANTS
  w1 = w1
  w2 = w2
  Conns = {w1, w2}
  Steady = {}
  NoConn = NoConn
  NumJobs = 1
  SlowJobs = {}
  SlotCounts = {1}
  PendingBatch = 10
  ClaimBatch = 100
  Timely = FALSE
SYMMETRY Interchangeable
INVARIANTS
  TypeOK
  PendingInStream
  RemovedIsAnswered
CHECK_DEADLOCK FALSE
