CONSTANTS
  Scenarios <- StaleScenarios
  MaxCalls = 2
SPECIFICATION Spec
INVARIANT OwnVectorsOnly
CHECK_DEADLOCK FALSE
