SPECIFICATION DramSpec
CONSTANTS
  BufPages = 2
  SpacePages = 1
  PageIds = {0, 1}
  ServerPages = 1
  MaxOps = 2
  XaMayFail = FALSE
  NULL = NULL
  Data = {d1, d2}
  Blank = Blank
INVARIANT
  DramKeepsPages
