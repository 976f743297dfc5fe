SPECIFICATION Spec
CONSTANTS
  MaxInt = 12
  Runs <- MCRuns
  Deep = TRUE
INVARIANTS
  ReadsBack
  DrawsTheTree
  VerdictOfAnalyze
  NamesResolve
  CasesJudgedRight
