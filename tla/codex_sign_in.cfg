SPECIFICATION Spec
CONSTANTS
  quick = quick
  runtime = runtime
  Callers = {quick, runtime}
  Runtime = runtime
  MaxWorkers = 2
  MaxFaults = 1
  MaxCuts = 2
INVARIANTS ConnectedIsServed
PROPERTIES StartRecovers
CHECK_DEADLOCK FALSE
