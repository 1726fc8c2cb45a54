SPECIFICATION MCSpec
CONSTANTS
  Obj = {o1, o2}
  Var = {v, w}
  NONE = NONE
  Class = {P, Q}
  Slots = 1
  MaxTmps = 2
  A = A
  B = B
  C = C
  UNIVERSAL = UNIVERSAL
  Package = {A, B, C, UNIVERSAL}
  NOCACHE = NOCACHE
  NOMETHOD = NOMETHOD
  CYCLE = CYCLE
  Isas <- MCIsas
  MaxVersion = 1
  MaxChanges = 4
  Cycles = FALSE
SYMMETRY Symmetry
INVARIANTS
  TypesOK
  ReferencesAreCounted
  NothingLeaks
  CachesAreCurrent
PROPERTIES
  LastClassDestroys
CHECK_DEADLOCK FALSE
