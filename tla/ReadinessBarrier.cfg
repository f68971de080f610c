SPECIFICATION FairSpec
CONSTANTS
  Caller = {c1, c2}
  Sender = {x1}
  Cap = 1
  MaxStarts = 2
INVARIANTS
  TypeOK
  OneListener
  StoppedNotReady
  SignalsTakeEffect
PROPERTIES
  StopReturns
CHECK_DEADLOCK FALSE
