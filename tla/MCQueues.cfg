SPECIFICATION MCSpec
CONSTANTS
  Producers = {p1}
  Consumers = {c1, c2}
  OtherConsumers = {c2}
  None = None
  Methods = {"enqueue", "insert", "dequeue", "dequeue_nb", "dequeue_timed", "extract", "limit", "end"}
  Sizes = {1, 2}
  Counts = {0, 1, 2}
  Indices <- MCIndices
  StartLimits = {0, 2}
  Limits = {1}
  MaxItems = 4
  SemThreads <- Threads
  NoHolder = NoHolder
  Start = 1
  Args = {0, 1, 2}
  MaxCount = 2
  MaxForced = 1
INVARIANTS
  TypesOK
  PlainFifo
  ItemsConserved
  NobodyIsForgotten
  NeverOverdrawn
  NobodyWaitsInVain
PROPERTIES
  CallsReturn
