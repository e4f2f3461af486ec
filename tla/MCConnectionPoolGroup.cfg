CONSTANTS
  Threads = {main, w1}
  MainThread = main
  TimedThreads = {main}
  Conns = {c1, c2, c3, c4}
  NoConn = NoConn
  MaxConcurrentConnections = 1
  DayLength = 2
  MaxNesting = 2
  MaxRequests = 2
SPECIFICATION FairSpec
INVARIANTS
  TypeOK
  ExclusiveUse
  NoUseAfterClose
  SemConservation
  PoolBound
PROPERTIES
  LendsConnections
  
  
