CONSTANTS
  Scenarios <- DenseScenarios
  MaxCalls = 1
SPECIFICATION Spec
INVARIANT NoAbort
CHECK_DEADLOCK FALSE
