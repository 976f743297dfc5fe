CONSTANTS
  x = x
  y = y
  Name = {x, y}
  Cell = {1, 2, 3, 4, 5}
  Null = Null
  Wild = Wild
  Arm <- MCArm
  Bounds <- MCSmall
  DuplicateBinders = FALSE
  RebindFormals = TRUE
SPECIFICATION Spec
INVARIANTS MemorySafe
