SPECIFICATION Spec
CONSTANTS
  Events = {e1, e2, e3}
  Tasks = {t1, t2, t3}
  Approvals = {}
  Installed <- BothFrameworks
  MaxWorkers = 2
  MaxAttempts = 1
  InboxLimit = 3
  PassLimit = 2
  MaxPending = 0
  NoTask = NoTask
  NoEvent = NoEvent
SYMMETRY Symmetric
INVARIANTS
  RunningRowHasWorker
  WorkersBounded
  NoForeignTurn
PROPERTIES
  ImplementsLedger
  NeverReplayed
  StoppedStartsNoWorker
