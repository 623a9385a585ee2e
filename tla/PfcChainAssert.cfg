SPECIFICATION Spec
CONSTANTS
  f1 = f1
  f2 = f2
  Flows = {f1, f2}
  Route <- ChainRoute
  Prio <- Ones
  Size <- Twos
  CtlPrio = 2
  CtlSize = 1
  Thr <- ChainThr
  QConf <- PfabricQueue
  AvoidReordering = FALSE
  MaxCounter = 15
  MaxSend = 4
  MaxWire = 1
INVARIANT NoAbort
CHECK_DEADLOCK FALSE
