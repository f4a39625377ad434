SPECIFICATION Spec
CONSTANTS
  Events = {e1, e2}
  Tasks = {t1, t2}
  Approvals = {a1, a2}
  Installed <- BothFrameworks
  MaxWorkers = 2
  MaxAttempts = 1
  InboxLimit = 2
  PassLimit = 2
  MaxPending = 1
  NoTask = NoTask
  NoEvent = NoEvent
SYMMETRY Symmetric
INVARIANTS
  TypeOK
  PendingHasTurn
PROPERTY
  ChosenOnce
