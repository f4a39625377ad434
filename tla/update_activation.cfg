SPECIFICATION Spec
CONSTANTS
  Versions <- Releases
  Initial = 1
  WithLauncher <- Launchers
  MaxCrashes = 2
  MaxFailures = 1
  MaxAdmin = 1
INVARIANTS TypeOK AlwaysBootable RecordAgrees PendingIsExplained
PROPERTIES ImplementsAtomicUpdate UpdateArrives
