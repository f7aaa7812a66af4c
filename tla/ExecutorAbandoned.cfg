SPECIFICATION FairSpec
CONSTANTS
  p1 = p1
  p2 = p2
  s1 = s1
  s2 = s2
  x1 = x1
  x2 = x2
  None = None
  Prepares = {p1}
  Submits = {s1}
  Cleanups = {x1}
  PoolSize = 1
  QueueSize = 1
  OnClient = FALSE
  Faulty = {}
  Orderly = FALSE
PROPERTY EverySubmitReturns
CHECK_DEADLOCK FALSE
