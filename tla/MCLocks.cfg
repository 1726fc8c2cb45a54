SPECIFICATION MCSpec
CONSTANTS
  RWThreads = {e1, e2, e3, e4}
  NoHolder = NoHolder
  Threads = {t1, t2, t3}
  None = None
  MaxScopes = 2
  BadTimeouts = TRUE
  LastSig = 2
  DieCount = 4
  MaxKills = 4
  MaxDepth = 3
INVARIANTS
  TypesOK
  WriterExcludesAll
  NoWriterForgotten
  NoLostWakeup
  NoReentrance
  MaskRestored
PROPERTIES
  ImplementsMonitor
  WaitersGetIn
  OnlyADieStrands
  RecordsAreHandled
CHECK_DEADLOCK FALSE
