CONSTANTS
  x = x
  y = y
  Name = {x, y}
  Cell = {1, 2, 3, 4, 5}
  Null = Null
  Wild = Wild
  Arm <- MCArm
  Bounds <- MCBounds
  DuplicateBinders = FALSE
  RebindFormals = FALSE
SPECIFICATION Spec
INVARIANTS SoleHolder MemorySafe LentIntact
PROPERTIES DefaultMeansGap
