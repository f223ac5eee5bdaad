SPECIFICATION Spec
CONSTANTS
  DayLength = 12
  MonthStarts <- MCMonthStarts
  Targets <- MCTargets
  Bodies <- MCBodies
  Gaps = {2, 4, 12, 70}
  NumBars = 5
INVARIANTS
  AggregatorsAgree
  StampsNeverEarly
CHECK_DEADLOCK FALSE
