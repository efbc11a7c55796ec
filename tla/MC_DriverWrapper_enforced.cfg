CONSTANTS
  FixedPeriods <- SomeFixed
  Periods <- SomePeriods
  MaxCalls = 2
SPECIFICATION Spec
PROPERTY EnforcedPeriodInhibits
CHECK_DEADLOCK FALSE
