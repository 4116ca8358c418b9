SPECIFICATION CacheSpec
CONSTANTS
  p1 = p1
  p2 = p2
  Proc = {p1, p2}
  Key = {k1}
  ArchiveKey = k1
  Blob = {b1, b2}
  Attempts <- MCAttempts
  MaxAge <- MCMaxAge
  SweepAge = 1
  accessInterval = 2
  MinWait = 1
  MaxWait = 3
  MaxCount = 2
  MaxTime = 3
  MaxFaults = 1
  MaxCalls = 3
  MaxSessions = 2
INVARIANTS MutualExclusion NoLeakedLock SharesHoldTheLock LastGoodKept FailureHolds
PROPERTIES SweepKeepsRecent CancelledCallReturns
CHECK_DEADLOCK FALSE
