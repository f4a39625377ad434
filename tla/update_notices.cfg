SPECIFICATION Spec
CONSTANTS
  p = p
  q = q
  Releases <- TwoReleases
  Plugins <- TwoPlugins
  Installed <- Oldest
  MaxAttempts = 2
  MaxFaults = 1
  MaxMoves = 1
  MaxAdmin = 1
INVARIANTS BoundedNotices UpdateRemembered
PROPERTIES SettlementAccepted ObligationsSettle
CHECK_DEADLOCK FALSE
