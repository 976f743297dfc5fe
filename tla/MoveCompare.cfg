CONSTANTS
  x = x
  y = y
  Var = {x, y}
  c1 = c1
  c2 = c2
  c3 = c3
  Cell = {c1, c2, c3}
  Null = Null
  DisabledRules = {}
  MaxFrames = 2
  MaxNesting = 3
  LoopEntry = "assigned"
  TempUses = {"deref", "compare"}
SPECIFICATION Spec
SYMMETRY CellAndVarSymmetry
INVARIANTS NothingLeaks
