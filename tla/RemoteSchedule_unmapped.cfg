SPECIFICATION Spec
CONSTANTS
  BufPages = 2
  SpacePages = 1
  PageIds = {0, 1}
  ServerPages = 1
  MaxOps = 2
  XaMayFail = TRUE
  NULL = NULL
INVARIANT
  FrontswapMapped
