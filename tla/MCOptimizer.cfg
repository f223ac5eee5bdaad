SPECIFICATION Spec
CONSTANTS
  Searches <- MCSearches
  MaxThreads = 3
  Hardware = 0
  Throws <- MCThrows
  None = None
INVARIANTS
  PointsAreOwned
  ReturnsWholeProduct
PROPERTIES
  RunReturns
  ImplementsGridSearch
CHECK_DEADLOCK FALSE
