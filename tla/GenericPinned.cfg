CONSTANTS
  Inputs <- PinnedInputs
  ProgramOf <- MCProgramOf
  MaxDepth = 3
SPECIFICATION Spec
CHECK_DEADLOCK FALSE
INVARIANT MemorySafe
