SPECIFICATION Spec
CONSTANTS
  l = l
  r = r
  n1 = n1
  n2 = n2
  i1 = i1
  i2 = i2
  f1 = f1
  f2 = f2
  x1 = x1
  x2 = x2
  None = None
  PeerIDs = {l, r}
  Self = l
  Conns = {n1, n2}
  Remote <- ToR
  Inits = {i1}
  Forwards = {f1}
  Clears = {}
  WorkerNum = 2
  Faulty = {"unreachable", "mount"}
INVARIANT RoutedByName
CHECK_DEADLOCK FALSE
