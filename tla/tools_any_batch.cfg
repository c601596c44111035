SPECIFICATION Spec
CONSTANTS
  g1 = g1
  g2 = g2
  t1 = t1
  c1 = c1
  c2 = c2
  Jobs = {1}
  Gpus = {g1, g2}
  Tools = {t1}
  Calls = {c1, c2}
  Slots = 1
  SlowJobs = {1}
  MaxRounds = 1
  MaxEntries = 4
  MaxSends = 3
  NoGpu = NoGpu
  NoTool = NoTool
  NoContext = NoContext
  FreshBatches = FALSE
SYMMETRY Interchangeable
INVARIANTS
  TypeOK
  RoundIsWhole
  ContinuedOnce
  NoRoundLost
CHECK_DEADLOCK FALSE
