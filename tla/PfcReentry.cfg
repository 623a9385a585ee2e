SPECIFICATION Spec
CONSTANTS
  f1 = f1
  f2 = f2
  f3 = f3
  f4 = f4
  f5 = f5
  Flows = {f1, f2, f3, f4, f5}
  Route <- CrossRoute
  Prio <- Ones
  Size <- Twos
  CtlPrio = 2
  CtlSize = 2
  Thr <- CrossThr
  QConf <- CrossQueue
  AvoidReordering = TRUE
  MaxCounter = 15
  MaxSend = 1
  MaxWire = 1
INVARIANT NoAbort
CHECK_DEADLOCK FALSE
SYMMETRY Alike
VIEW Seen
CONSTRAINT OwnFlowLast
