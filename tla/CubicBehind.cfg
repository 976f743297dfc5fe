CONSTANTS
  Var <- MCFour
  NumElements = 1
  Input <- MCBehind
  MaxAsked = 5
  MaxConditionals = 1
SPECIFICATION Spec
CHECK_DEADLOCK FALSE
INVARIANTS LeastWhenSettled
