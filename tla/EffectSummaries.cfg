CONSTANTS
  Inputs <- MCInputs
  ProgramOf <- MCProgramOf
  MaxDepth = 5
SPECIFICATION Spec
CHECK_DEADLOCK FALSE
INVARIANTS RequirementsMet TypeSafe CallGraphComplete CalleesFirst MemorySafe NothingLeaks ReturnOriginSound ForwardedSound GraphsFollow BorrowsConfined InternalErrorsKnown
PROPERTIES PassesEnd
