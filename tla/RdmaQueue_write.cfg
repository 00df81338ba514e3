SPECIFICATION FairSpec
CONSTANTS
  Thread = {t1, t2, t3}
  Op = "write"
  MaxSendWr = 3
  Slack = 1
  PollTarget = 2
  DrainBudget = 2
  NoThread = NoThread
  AllocMayFail = FALSE
  MapMayFail = FALSE
  PostMayFail = FALSE
  WcMayFail = TRUE
  MaxLeaks = 1
INVARIANTS
  DrainCoversOwn
  PendingExact
  NoRequestLeaks
PROPERTY
  CallsReturn
