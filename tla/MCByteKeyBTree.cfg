SPECIFICATION Spec
CONSTANTS
  Key = {1, 2, 3}
  NoItem = NoItem
  Purger = {p1, p2}
  Time = {0, 2, 3}
  Ttl = {0, 1}
  Limit = {0, 1}
  PerSecond = 2
SYMMETRY Symmetry
INVARIANTS
  TypeOK
  ResultsAddUp
PROPERTIES
  PurgeTakesOld
  PurgeOverlooksNone
