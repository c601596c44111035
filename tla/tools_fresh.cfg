SPECIFICATION LiveSpec
CONSTANTS
  g1 = g1
  g2 = g2
  t1 = t1
  c1 = c1
  c2 = c2
  Jobs = {1}
  Gpus = {g1, g2}
  Tools = {t1}
  Calls = {c1, c2}
  Slots = 2
  SlowJobs = {1}
  MaxRounds = 2
  MaxEntries = 3
  MaxSends = 3
  NoGpu = NoGpu
  NoTool = NoTool
  NoContext = NoContext
  FreshBatches = TRUE
INVARIANTS
  OneRoundAtATime
  HistoryMatches
PROPERTIES
  EveryJobAnswered
CHECK_DEADLOCK FALSE
