SPECIFICATION LiveSpec
CONSTANTS
  g1 = g1
  t1 = t1
  c1 = c1
  Jobs = {1}
  Gpus = {g1}
  Tools = {t1}
  Calls = {c1}
  Slots = 1
  SlowJobs = {1}
  MaxRounds = 1
  MaxEntries = 2
  MaxSends = 2
  NoGpu = NoGpu
  NoTool = NoTool
  NoContext = NoContext
  FreshBatches = TRUE
PROPERTIES
  ContinuationEnds
CHECK_DEADLOCK FALSE
