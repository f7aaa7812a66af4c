SPECIFICATION Spec
CONSTANTS
  c1 = c1
  c2 = c2
  k1 = k1
  k2 = k2
  l = l
  r = r
  lw1 = lw1
  lw2 = lw2
  rw1 = rw1
  NoTask = NoTask
  Local = l
  Calls = {c1}
  Keys = {k1}
  TaskKey <- OneKey
  Executors = {l, r}
  Prepared = {l, r}
  Blank = {}
  Workers = {lw1, lw2, rw1}
  Host <- TwoAndOne
  QueueSize = 2
  MaxRetries = 3
  Faulty = {"store", "claim", "hget", "settle"}
  Cancellable = {c1}
  Crashable = {l, r}
  Expiring = {"unclaimed", "claimed", "done"}
INVARIANT TypeOK
INVARIANT OneHolder
INVARIANT OneSuccess
INVARIANT AnswerMatchesOutcome
INVARIANT NoCopyIsLost
PROPERTY LeaseSpec
CHECK_DEADLOCK FALSE
