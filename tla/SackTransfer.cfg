SPECIFICATION Spec
CONSTANTS
  MaxSackBlocks = 1
  M             = 2
  DupThr        = 2
  MaxWindow     = 4
  Messages      = {3, 5, 8}
  MaxBytes      = 8
  MaxFly        = 2
  Modes         <- MCModes
CHECK_DEADLOCK FALSE
INVARIANTS
  TypeOK
  TimerExact
  RecoveryEnds
PROPERTIES
  NeverResent
  WrittenIsDelivered
