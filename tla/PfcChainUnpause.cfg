SPECIFICATION Spec
CONSTANTS
  f1 = f1
  f2 = f2
  Flows = {f1, f2}
  Route <- ChainRoute
  Prio <- Ones
  Size <- Twos
  CtlPrio = 2
  CtlSize = 1
  Thr <- ChainThr
  QConf <- ChainQueue
  AvoidReordering = FALSE
  MaxCounter = 15
  MaxSend = 2
  MaxWire = 1
PROPERTY UnpauseTakesEffect
CHECK_DEADLOCK FALSE
