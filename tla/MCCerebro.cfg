SPECIFICATION Spec
CONSTANTS
  DayLength = 6
  MonthStarts <- MCMonthStarts
  NumFeeds = 3
  NumStrategies = 2
  Plans <- MCPlans
  MaxOrders = 1
INVARIANTS
  NoLookahead
  IndicatorsKeepUp
  EvaluatorAgrees
  WarmupRespected
  LockstepFillsOnNextBar
PROPERTIES
  CallsInOrder
  RunEnds
  ImplementsAlignedClocks
CHECK_DEADLOCK FALSE
