SPECIFICATION FairSpec
CONSTANTS
  N = 1
  Node = {1}
  Cap = 2
  MayPanic = {1}
  WatchdogStops = {1}
INVARIANTS
  TypeOK
  CallbacksPaired
  SettledAgreement
PROPERTIES
  LossStopsWork
  ShutdownCompletes
CHECK_DEADLOCK FALSE
