SPECIFICATION Spec
CONSTANTS
  c1 = c1
  c2 = c2
  k1 = k1
  k2 = k2
  l = l
  r = r
  lw1 = lw1
  lw2 = lw2
  rw1 = rw1
  NoTask = NoTask
  Local = l
  Calls = {c1}
  Keys = {k1}
  TaskKey <- OneKey
  Executors = {l, r}
  Prepared = {l, r}
  Blank = {}
  Workers = {lw1, rw1}
  Host <- OneAndOne
  QueueSize = 2
  MaxRetries = 3
  Faulty = {"claim"}
  Cancellable = {}
  Crashable = {}
  Expiring = {}
INVARIANT AllFailedMeansLocalRan
CHECK_DEADLOCK FALSE
