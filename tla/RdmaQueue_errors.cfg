SPECIFICATION Spec
CONSTANTS
  Thread = {t1, t2, t3}
  Op = "read"
  MaxSendWr = 1
  Slack = 0
  PollTarget = 1
  DrainBudget = 2
  NoThread = NoThread
  AllocMayFail = TRUE
  MapMayFail = TRUE
  PostMayFail = TRUE
  WcMayFail = FALSE
  MaxLeaks = 2
INVARIANTS
  TypeOK
  ReturnMeansMoved
  UnlockedMeansMoved
PROPERTY
  TransfersPages
CHECK_DEADLOCK FALSE
