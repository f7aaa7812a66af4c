SPECIFICATION FairSpec
CONSTANTS
  e1 = e1
  e2 = e2
  e3 = e3
  Executors = {e1, e2, e3}
INVARIANT TypeOK
INVARIANT NoSendAfterClose
PROPERTY GatherSpec
PROPERTY GoroutinesEnd
PROPERTY HandlerReturns
CHECK_DEADLOCK FALSE
