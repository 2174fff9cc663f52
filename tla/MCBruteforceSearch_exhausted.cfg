SPECIFICATION SearchSpec
CONSTANTS
  Params <- MCParams
  MaxParams = 2
  MaxCalls = 8
INVARIANTS
  ExhaustedAtOne
CHECK_DEADLOCK FALSE
