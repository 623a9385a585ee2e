SPECIFICATION Spec
CONSTANTS
  Configs    <- MCConfigs
  Flows      = {f1, f2}
  CtlFlow    = ctl
  Prios      = {0, 1}
  CtlPrio    = 2
  DataSizes  = {1, 2}
  CtlSize    = 1
  NewLimits  = {2}
  MaxPackets = 5
INVARIANTS
  TypeOK
  BytesExact
  ArrivalOrder
  LimitRespected
  FlowOrder
  WindowExact
  PauseFlagSound
CHECK_DEADLOCK FALSE
