CONSTANTS
  Rounds = 2
  MaxTokens = 3
  Executions = 2
  Requests = {r1, r2}
  ChanCap = 1
  CacheBound = 2
  SessionIds = {s1, s2}
  MaxMessages = 3
  MaxSetups = 2
SPECIFICATION Spec
INVARIANTS
  RouterPartsTypeOK
  BlocksNest
  SameText
  NoStreamLeft
  OneResponse
  CallForgotten
  ServedByRole
  ResultsFollowCalls
  NothingLost
  KeysShownWork
  ModelResolved
  PolicyRunnable
CHECK_DEADLOCK FALSE
