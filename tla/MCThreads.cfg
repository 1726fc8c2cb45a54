SPECIFICATION MCSpec
CONSTANTS
  MaxTid = 2
  None = None
  Subs = {s1, s2}
  Addrs = {a1, a2}
  Name = Name
  NoCode = NoCode
  MaxCalls = 3
  MaxDepth = 2
  MaxDepth_c = 6
  MaxDepth_cx = 5
  Errors = {1}
  Stringifies = TRUE
  ExitsOverTied = FALSE
SYMMETRY Symmetry
INVARIANTS
  TypesOK
  ThreadsAreCounted
  NothingIsFreedInUse
  ErrorSurvives
  CallbackFindsItsSub
  OnlyADestructorMixesResults
  EvalsAreCaught
CHECK_DEADLOCK FALSE
