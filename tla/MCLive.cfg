SPECIFICATION Spec
CONSTANTS
  None = None
  Feeds <- MCFeeds
  Currencies <- MCCurrencies
  BaseCcy = "USD"
  Funding <- MCFunding
  Instrument <- MCInstrument
  Fees <- MCFees
  FxRate <- MCFxRate
  MinimumPeriod <- MCPeriod
  MaxAbsPosition = 2
  MaxDrawdown = 20
  RateLimit = 1
  MaxReconnects = 1
  DataPrices = {12}
  Prices = {12, 24}
  Lots = {1, 2, 3}
  Bounds <- MCBounds
INVARIANTS
  BookFollowsReports
  StatusFollowsReports
  RiskLimitsHold
  FlatteningIsComplete
  CleanNextstart
PROPERTIES
  StoppedIsSilent
CHECK_DEADLOCK FALSE
