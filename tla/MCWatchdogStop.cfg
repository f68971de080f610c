SPECIFICATION FairSpec
CONSTANTS
  Node = {n1, n2}
  NoNode = NoNode
  Expiration = 3
  MaxBusy = 1
  Cap = 1
  Lossy = {}
  Stoppable = {n1}
PROPERTIES
  StopEndsGoroutine
