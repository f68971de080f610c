SPECIFICATION Spec
CONSTANTS
  Job = {j1, j2}
  Caller = {c1, c2}
  NoCaller = NoCaller
  Rate = 1
  MaxStarts = 2
  ParentEnds = TRUE
INVARIANTS
  TypeOK
  RateLimit
  TokensAccounted
  StopWaited
  OneRunner
CHECK_DEADLOCK FALSE
