CONSTANTS
  Scenarios <- ResyncScenarios
  MaxCalls = 2
SPECIFICATION Spec
INVARIANT OkMeansDone
CHECK_DEADLOCK FALSE
