SPECIFICATION FairSpec
CONSTANTS
  Server <- Servers2
  Request <- Requests2
  Order <- InOrder
  Config <- Configs
  Timeout = 2
  Worker = {1, 2}
  MaxHandles = 3
INVARIANTS
  TypeOK
  HandlesAccounted
PROPERTIES
  DrainHolds
  GraceKept
  QueryFailsLate
  ShutdownEnds
CHECK_DEADLOCK FALSE
