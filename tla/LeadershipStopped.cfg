SPECIFICATION Spec
CONSTANTS
  N = 1
  Node = {1}
  Cap = 1
  MayPanic = {}
  WatchdogStops = {}
INVARIANTS
  StoppedMeansInactive
CHECK_DEADLOCK FALSE
