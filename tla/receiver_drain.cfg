SPECIFICATION CalmSpec
CONSTANTS
  Events = {e1, e2}
  Tasks = {t1, t2}
  Approvals = {a1}
  Installed <- OnlyCodex
  MaxWorkers = 1
  MaxAttempts = 2
  InboxLimit = 1
  PassLimit = 1
  MaxPending = 1
  NoTask = NoTask
  NoEvent = NoEvent
PROPERTIES
  DrainFinishes
  UpdatesServed
