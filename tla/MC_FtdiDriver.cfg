\* Chips, requests and failures as the scenarios say, two calls each.
CONSTANTS
  Scenarios <- AllScenarios
  MaxCalls = 2
SPECIFICATION FairSpec
INVARIANT TypeOK
INVARIANT ReadbackFitsChip
INVARIANT OkMeansDoneUntilFailure
INVARIANT FailuresReported
INVARIANT CommandPoolSuffices
PROPERTY CallsReturn
CHECK_DEADLOCK FALSE
INVARIANT LiveBlocksApart
INVARIANT IndInv
PROPERTY ImplementsSink
