SPECIFICATION FairSpec
CONSTANTS
  Hook = {h1, h2, h3}
  Priority = {1, 2}
  MaxSignals = 2
  Faulty = {h1}
  FaultySupervisor = TRUE
INVARIANTS
  TypeOK
  HooksInOrder
PROPERTIES
  KernelEnds
CHECK_DEADLOCK FALSE
