SPECIFICATION FairSpec
CONSTANTS
  Key = {k1, k2}
  Worker = {w1, w2}
  Background = bg
  NoDump = NoDump
  Restarts = TRUE
INVARIANTS
  TypeOK
  DumpNeverEmpty
  DumpCurrent
  RecoverRestores
PROPERTIES
  DumpCatchesUp
