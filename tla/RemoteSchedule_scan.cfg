SPECIFICATION Spec
CONSTANTS
  BufPages = 8
  SpacePages = 2
  PageIds = {0, 2, 4, 6}
  ServerPages = 4
  MaxOps = 4
  XaMayFail = FALSE
  NULL = NULL
INVARIANTS
  NeverFull
  ScanPressure
  BitmapExact
  NoOverrun
  NoSharedSlot
  TransferOwnsSlot
