SPECIFICATION Spec
CONSTANTS
  p1 = p1
  p2 = p2
  s1 = s1
  s2 = s2
  x1 = x1
  x2 = x2
  None = None
  Prepares = {p1, p2}
  Submits = {s1, s2}
  Cleanups = {x1}
  PoolSize = 2
  QueueSize = 1
  OnClient = FALSE
  Faulty = {"store", "mount", "umount"}
  Orderly = FALSE
INVARIANT TypeOK
INVARIANT NoRunAfterStop
INVARIANT WaitingIsSomewhere
CHECK_DEADLOCK FALSE
