SPECIFICATION FairSpec
CONSTANTS
  Client = {c1, c2}
  Device = {mlx0, mlx1}
  NoDevice = NoDevice
  CqSize = 10
  CmMayFail = TRUE
  MayBeKilled = TRUE
INVARIANTS
  TypeOK
  ConnOutlivesPoller
  ExitMeansReceived
  ServerDiesOfACause
PROPERTIES
  ClientsEnd
  ServerFrees
CHECK_DEADLOCK FALSE
