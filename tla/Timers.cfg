SPECIFICATION Spec
CONSTANTS
  Timer    = {t1, t2, t3, t4}
  NoTimer  = NoTimer
  Delays   = {0, 1, 3, 7}
  MaxTime  = 9
  Widths   = {1, 2}
  TopScale = 4
SYMMETRY Symmetry
INVARIANTS
  TypeOK
  CalendarExact
  PendingIffQueued
PROPERTIES
  ImplementsEventQueue
