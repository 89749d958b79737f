\* NVDA may exit and the bounded queue may fill up: the system may stop.
CONSTANTS
  MaxJobs = 3
  MaxKeys = 2
SPECIFICATION FairSpec
INVARIANTS
  TypeOK
  RepliesAreTrue
  FailureSurfacesOnce
  IdleIsBarrier
  SentWasPlayedInOrder
  OnlyTimedOutUnreported
PROPERTIES
  ImplementsJobQueue
  EveryCallAnswered
  StopReturns
CHECK_DEADLOCK FALSE
