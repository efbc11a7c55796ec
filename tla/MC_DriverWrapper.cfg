CONSTANTS
  FixedPeriods <- SomeFixed
  Periods <- SomePeriods
  MaxCalls = 3
SPECIFICATION Spec
INVARIANT TypeOK
INVARIANT PeriodBeforeShift
INVARIANT ClientPeriodHonoured
INVARIANT EnforcedPeriodKept
INVARIANT IndInv
CHECK_DEADLOCK FALSE
