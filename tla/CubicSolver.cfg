CONSTANTS
  Var <- MCFour
  NumElements = 1
  Input <- MCBoth
  MaxAsked = 5
  MaxConditionals = 1
SPECIFICATION Spec
CHECK_DEADLOCK FALSE
INVARIANTS TypeOK EdgesMirrored NeverTooMuch Acyclic
PROPERTIES InclusionsSpec SettlesUnlessCircling
