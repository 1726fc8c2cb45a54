SPECIFICATION MCSpec
CONSTANTS
  el1 = el1
  el2 = el2
  b1 = b1
  b2 = b2
  Key = {0, 2, 6}
  InitBuckets = 2
  MaxBuckets = 4
  Rands = {1}
  Untidy = FALSE
  MaxDepth = 2
  LockForms = {"list"}
  NULL = NULL
  Elem = {el1, el2}
  NoElem = NoElem
  JUNK = JUNK
  NewMin = 1
  Near = 2
  MaxIndex = 3
  MaxSlots = 6
  Lists <- MCLists
  Slack = FALSE
  H = 8
  Bits = 6
  PreservesBits = 3
  BigPower = FALSE
  Base = 4
  LogBase = 2
  Unrolled <- MCUnrolled
  MaxExact = 5000
  MaxDigits = 7
  Byte = {b1, b2}
  UNINIT = UNINIT
  bufsiz = 2
  MaxLen = 4
  MaxRead = 3
  Data <- MCData
  AppendSeeks = FALSE
  UngetcAtStart = FALSE
  BufSize = 3
  MaxCount = 5
  LineBuffered = FALSE
  HandlerPops = FALSE
INVARIANTS
  TypesOK
  HashIsSound
  SpareSlotsAreNull
  ArithmeticIsExact
  TextIsItsNumber
  HandlersAreHarmless
PROPERTIES
  EachReturnsAllOnce
  IsAList
  IsAFile
CHECK_DEADLOCK FALSE
