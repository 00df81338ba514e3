SPECIFICATION Spec
CONSTANTS
  Thread = {t1, t2, t3}
  Op = "read"
  MaxSendWr = 2
  Slack = 0
  PollTarget = 1
  DrainBudget = 2
  NoThread = NoThread
  AllocMayFail = FALSE
  MapMayFail = FALSE
  PostMayFail = FALSE
  WcMayFail = FALSE
  MaxLeaks = 1
INVARIANT
  SendQueueHasRoom
