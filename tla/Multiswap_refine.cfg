SPECIFICATION MultiswapSpec
CONSTANTS
  BufPages = 4
  SpacePages = 1
  PageIds = {0, 1, 2, 3}
  ServerPages = 2
  MaxOps = 2
  XaMayFail = FALSE
  NULL = NULL
  Data = {d1, d2}
  Blank = Blank
INVARIANT WithinServerBuffer
PROPERTY Implements
