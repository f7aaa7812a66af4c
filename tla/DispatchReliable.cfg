SPECIFICATION Spec
CONSTANTS
  c1 = c1
  c2 = c2
  k1 = k1
  k2 = k2
  l = l
  r = r
  lw1 = lw1
  lw2 = lw2
  rw1 = rw1
  NoTask = NoTask
  Local = l
  Calls = {c1, c2}
  Keys = {k1, k2}
  TaskKey <- OneKeyEach
  Executors = {l, r}
  Prepared = {l, r}
  Blank = {}
  Workers = {lw1, lw2, rw1}
  Host <- TwoAndOne
  QueueSize = 2
  MaxRetries = 3
  Faulty = {"store"}
  Cancellable = {c1, c2}
  Crashable = {r}
  Expiring = {}
INVARIANT AllFailedMeansLocalRan
INVARIANT ClaimsAreGivenBack
INVARIANT AnswerMatchesOutcome
PROPERTY GatherSpec
CHECK_DEADLOCK FALSE
