SPECIFICATION FairSpec
CONSTANTS
  Events = {e1}
  Tasks = {t1}
  Approvals = {a1}
  Installed <- BothFrameworks
  MaxWorkers = 1
  MaxAttempts = 2
  InboxLimit = 2
  PassLimit = 2
  MaxPending = 1
  NoTask = NoTask
  NoEvent = NoEvent
PROPERTY
  TasksSettle
