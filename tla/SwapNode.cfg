SPECIFICATION NodeSpec
CONSTANTS
  NrMaps = 2
  MaxInserts = 2
  PageIds = {2, 3, 6}
  BufPages = 6
  ServerPages = 3
  FourGB = 3
  MaxOps = 2
  Data = {d1, d2}
  Blank = Blank
  CarefulOperator = TRUE
INVARIANTS
  NodeTypeOK
  SchedulerMemory
  OopsMeansNoBuffer
PROPERTY
  KeepsPages
CHECK_DEADLOCK FALSE
