SPECIFICATION ExceptionSpec
CONSTANTS
  MaxDepth_c = 6
  MaxDepth_cx = 5
  Errors = {1}
  Stringifies = FALSE
  ExitsOverTied = TRUE
INVARIANTS
  RestartsInItsLoop
CHECK_DEADLOCK FALSE
