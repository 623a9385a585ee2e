SPECIFICATION MCSpec
CONSTANTS
  MaxSeq        = 6
  MaxSackBlocks = 2
  MaxFly        = 2
INVARIANTS
  TypeOK
  QueuesWellFormed
  NoFalseSack
  HolesExact
PROPERTIES
  AckedIsCleared
  ReceiverIsCumulative
