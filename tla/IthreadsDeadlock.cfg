SPECIFICATION Spec
CONSTANTS
  MaxTid = 1
  None = None
CHECK_DEADLOCK FALSE
INVARIANTS
  NoCircularWait
