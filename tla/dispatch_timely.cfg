SPECIFICATION Spec
CONSTANTS
  w1 = w1
  w2 = w2
  Conns = {w1, w2}
  Steady = {}
  NoConn = NoConn
  NumJobs = 2
  SlowJobs = {1}
  SlotCounts = {2}
  PendingBatch = 10
  ClaimBatch = 100
  Timely = TRUE
SYMMETRY Interchangeable
INVARIANTS
  TimelyNoLostJob
  TimelySingleExecutor
  UntrackedIsAnswered
  PoolNeverOvercounts
PROPERTIES
  LeaseSpec
CHECK_DEADLOCK FALSE
