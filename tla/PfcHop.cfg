SPECIFICATION MCSpec
CONSTANTS
  PauseThr   = 2
  ResumeThr  = 2
  MaxCounter = 15
  MaxQueue   = 3
  MaxWire    = 4
  MaxHeld    = 7
  MaxCtl     = 4
  MaxLost    = 3
INVARIANTS
  TypeOK
  Accounting
  PauseAgreement
  BlockedExactly
  NoAbort
  Hysteresis
  ResumePending
PROPERTIES
  StoppedSendsNothing
