SPECIFICATION HashSpec
CONSTANTS
  Key = {0, 1, 2}
  InitBuckets = 2
  MaxBuckets = 4
  Rands = {0, 1}
  Untidy = TRUE
  MaxDepth = 2
  LockForms = {"list"}
  NULL = NULL
INVARIANTS
  ClearFindsPlaceholders
CHECK_DEADLOCK FALSE
