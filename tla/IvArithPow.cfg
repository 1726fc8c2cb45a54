SPECIFICATION ArithSpec
CONSTANTS
  H = 8
  Bits = 6
  PreservesBits = 3
  BigPower = TRUE
INVARIANTS
  PowerIsExact
CHECK_DEADLOCK FALSE
