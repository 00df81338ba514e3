SPECIFICATION FairSpec
CONSTANTS
  NrNodes = 2
  NumQueues = 3
  MaxLoads = 1
  ServerQueues = 3
  NoQueue = NoQueue
  MayTimeOut = TRUE
  VerbsMayFail = TRUE
  CmMayFail = TRUE
INVARIANTS
  ReadyMeansUsable
  StopsOnlyConnected
  FailedLoadDisconnects
  AtMostOneQueueLeft
  QueuesNotShared
PROPERTIES
  LoadEnds
  UnloadEndsServers
CHECK_DEADLOCK FALSE
