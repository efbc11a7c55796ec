SPECIFICATION Spec
CONSTANTS
  Tags <- MCTags
  Specs <- MCSpecs
  MaxLogCalls = 5
  MaxBits = 3
  MaxSamples = 8
  SuiteSizes <- MCSuiteSizes
  MAX_SUITES = 3
  MAX_CASES_PER_SUITE = 2
  StrbufSz = 5
  MaxChecks = 2
  Spans <- MCSpans
  Vectors <- MCVectors
  BufSz = 10
  RowSz = 4
  ScratchpadSz = 50
  MaxArgs = 11
  UsbIds = {"0403", "6010", "6014", "2a19", "1009", "100D", "100E"}
  Latencies = {"1", "2", "16"}
  Launches <- MCLaunches
INVARIANTS
  ProfileAsWritten
  RightDeviceOpened
  DeviceReleased
  DecisionFollowsSpec
  CompleteSpecNeverKills
  PlayerFeedsEdges
  CasesRunAsDocumented
  LoggedBits
PROPERTIES
  ProgramsEnd
