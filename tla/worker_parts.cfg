CONSTANTS
  MaxSlots = 2
  MaxSpawns = 4
  Updates = {u1, u2}
  Jobs = {j1, j2}
  MaxExecs = 2
  MaxDelay = 2
  MaxLinks = 2
  MaxChunks = 3
  Window = 3
  LoopWindow = 3
  MaxPolicies = 3
  MaxToolJobs = 1
  MaxRetryDelay = 2
  MaxSessions = 3
  Threads = {t1}
  Callers = {c1, c2}
  MaxBrowserSessions = 3
  McpCallers = {m1, m2}
  Packages = {p1}
  MaxLines = 2
  Refreshers = {g1, g2}
  MaxRevision = 2
  MaxBackoff = 2
  MaxDials = 2
  MaxEvents = 4
  Loaders = {w1, w2}
  FileBlocks = 2
  MaxVersion = 2
SPECIFICATION Spec
SYMMETRY Interchangeable
INVARIANTS
  WorkerPartsTypeOK
  RunningIsCancellable
  OneServer
  DownHasReason
  ShownIsAnswered
  CallsAccounted
  PolicyTakesHold
  SessionsAreOwned
  CallsEndInOrder
  ContextCatchesUp
  CallsAreReportedOnce
  LoadedIsWhole
CHECK_DEADLOCK FALSE
