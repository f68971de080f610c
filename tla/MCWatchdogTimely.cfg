SPECIFICATION Spec
CONSTANTS
  Node = {n1, n2}
  NoNode = NoNode
  Expiration = 3
  MaxBusy = 1
  Cap = 1
  Lossy = {n1, n2}
  Stoppable = {n1, n2}
SYMMETRY Symmetry
PROPERTIES
  OnlyOwnerReleases
  FeedRefined
INVARIANTS
  TypeOK
  MutualExclusion
  LeaseInv
