CONSTANTS
  FixedPeriods <- NoFixed
  Periods <- ZeroPeriod
  MaxCalls = 2
SPECIFICATION Spec
INVARIANT NoNegativeDivider
CHECK_DEADLOCK FALSE
