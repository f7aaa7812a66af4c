SPECIFICATION FairSpec
CONSTANTS
  c1 = c1
  c2 = c2
  k1 = k1
  k2 = k2
  l = l
  r = r
  lw1 = lw1
  lw2 = lw2
  rw1 = rw1
  NoTask = NoTask
  Local = l
  Calls = {c1, c2}
  Keys = {k1, k2}
  TaskKey <- OneKeyEach
  Executors = {l, r}
  Prepared = {l}
  Blank = {k2}
  Workers = {lw1}
  Host <- OneOnLocal
  QueueSize = 1
  MaxRetries = 2
  Faulty = {"store", "claim", "hget", "settle"}
  Cancellable = {c1}
  Crashable = {r}
  Expiring = {"unclaimed", "claimed", "done"}
PROPERTY EveryCallAnswered
PROPERTY EveryRpcReturns
CHECK_DEADLOCK FALSE
