SPECIFICATION FairSpec
CONSTANTS
  Job = {j1}
  Caller = {c1}
  NoCaller = NoCaller
  Rate = 1
  MaxStarts = 2
  ParentEnds = TRUE
PROPERTIES
  StopReturns
CHECK_DEADLOCK FALSE
