SPECIFICATION FairSpec
CONSTANTS
  PauseThr   = 2
  ResumeThr  = 2
  MaxCounter = 15
  MaxQueue   = 3
  MaxWire    = 3
  MaxHeld    = 5
  MaxCtl     = 3
  MaxLost    = 2
PROPERTY ResumedQueueSends
