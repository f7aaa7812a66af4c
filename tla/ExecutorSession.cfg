SPECIFICATION FairSpec
CONSTANTS
  p1 = p1
  p2 = p2
  s1 = s1
  s2 = s2
  x1 = x1
  x2 = x2
  None = None
  Prepares = {p1, p2}
  Submits = {s1, s2}
  Cleanups = {x1, x2}
  PoolSize = 1
  QueueSize = 1
  OnClient = FALSE
  Faulty = {"store", "mount"}
  Orderly = TRUE
INVARIANT WorkNeedsMount
INVARIANT CrashNeedsFailedUmount
PROPERTY EverySubmitReturns
PROPERTY ShutdownCompletes
CHECK_DEADLOCK FALSE
