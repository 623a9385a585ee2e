SPECIFICATION Spec
CONSTANTS
  MaxSackBlocks = 1
  M             = 2
  DupThr        = 2
  MaxWindow     = 4
  Messages      = {4}
  MaxBytes      = 8
  MaxFly        = 2
  Modes         <- MCLosslessLossy
CHECK_DEADLOCK FALSE
PROPERTIES
  SentIsDelivered
