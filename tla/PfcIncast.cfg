SPECIFICATION Spec
CONSTANTS
  f1 = f1
  f2 = f2
  Flows = {f1, f2}
  Route <- IncastRoute
  Prio <- Ones
  Size <- Twos
  CtlPrio = 2
  CtlSize = 1
  Thr <- IncastThr
  QConf <- IncastQueue
  AvoidReordering = FALSE
  MaxCounter = 15
  MaxSend = 3
  MaxWire = 2
INVARIANTS
  TypeOK
  CounterExact
  NoAbort
PROPERTIES
  DeliveredInOrder
  PauseEnds
  UnpauseTakesEffect
  PortsImplementPfcHop
CHECK_DEADLOCK FALSE
