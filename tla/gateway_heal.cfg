SPECIFICATION Spec
CONSTANTS
  MaxGenerations = 3
  MaxHeals = 1
  MaxFaults = 1
INVARIANTS SignalsOnlyOld ReadyIsProven
PROPERTIES VerifiedAfresh StopIsPaired HealEnds
CHECK_DEADLOCK FALSE
