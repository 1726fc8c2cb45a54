SPECIFICATION FairExceptionSpec
CONSTANTS
  MaxDepth_c = 5
  MaxDepth_cx = 5
  Errors = {1}
  Stringifies = TRUE
  ExitsOverTied = FALSE
PROPERTIES
  JumpLands
CHECK_DEADLOCK FALSE
