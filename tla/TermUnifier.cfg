CONSTANTS
  Term <- MCTerm
  Variable <- MCVariable
  Functor <- MCFunctor
  Subterms <- MCSubterms
  Input <- MCInput
  MaxAsked = 3
SPECIFICATION Spec
CHECK_DEADLOCK FALSE
INVARIANTS FindTerminates SolvedWhenDone MostGeneral FailureIsReal ProperRepresentative
PROPERTIES UnificationSpec SolveTerminates
