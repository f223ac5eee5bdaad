SPECIFICATION Spec
CONSTANTS
  DayLength = 6
  MonthStarts <- MCMonthStarts
  NumFeeds = 3
  NumStrategies = 2
  Plans <- OneDayPlans
  MaxOrders = 1
INVARIANT OnlyClosedBarsVisible
CHECK_DEADLOCK FALSE
