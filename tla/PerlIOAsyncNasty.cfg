SPECIFICATION AsyncSpec
CONSTANTS
  BufSize = 3
  MaxCount = 5
  LineBuffered = TRUE
  HandlerPops = TRUE
INVARIANTS
  UsesLiveMemory
CHECK_DEADLOCK FALSE
