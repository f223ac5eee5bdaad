SPECIFICATION Spec
CONSTANTS
  None = None
  Feeds <- MCFeeds
  Currencies <- MCCurrencies
  BaseCcy = "USD"
  Funding <- MCFunding
  Instrument <- MCInstrument
  Fees <- MCFees
  FxRate <- MCFxRate
  Sizes = {1, 2}
  Prices <- MCPrices
  MaxFills = 4
INVARIANTS
  TradesMatchPositions
  TradeIdsUnique
  CashIdentity
CHECK_DEADLOCK FALSE
