SPECIFICATION FairSpec
CONSTANTS
  NrNodes = 1
  NumQueues = 2
  MaxLoads = 2
  ServerQueues = 2
  NoQueue = NoQueue
  MayTimeOut = TRUE
  VerbsMayFail = TRUE
  CmMayFail = TRUE
INVARIANTS
  TypeOK
  ReadyMeansFreshServer
  BufferOutlivesClient
PROPERTY
  LoadEnds
CHECK_DEADLOCK FALSE
