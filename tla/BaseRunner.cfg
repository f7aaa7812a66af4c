SPECIFICATION RunnerFairSpec
CONSTANTS
  MaxRetries = 3
  LocalTimeout = 3
  RemoteTimeout = 1
  ContainerTimeout = 6
  TaskTTL = 4
INVARIANT TypeOK
INVARIANT AttemptsDoNotOverlap
INVARIANT SuccessIsReal
INVARIANT OnlyTimeoutsLeaveWork
PROPERTY AlwaysReturns
INVARIANT RunnerTypeOK
INVARIANT WorkIsExclusive
INVARIANT ClaimOutlivesRun
INVARIANT RecordIsTrue
PROPERTY EveryRunSettles
CHECK_DEADLOCK FALSE
