SPECIFICATION FairSpec
CONSTANTS
  Node = {n1, n2}
  NoNode = NoNode
  Expiration = 3
  MaxBusy = 2
  Cap = 1
  Lossy = {n1}
  Stoppable = {n1}
PROPERTIES
  StaleLeaderStepsDown
  LeaderEmerges
