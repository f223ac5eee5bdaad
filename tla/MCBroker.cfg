SPECIFICATION Spec
CONSTANTS
  None = None
  Feeds <- MCFeeds
  Currencies <- MCCurrencies
  BaseCcy = "USD"
  Funding <- MCFunding
  Instrument <- MCInstrument
  Fees <- MCFees
  FxRate <- MCFxRate
  slip <- MCSlip
  Requests <- OcoRequests
  Brackets <- MCBrackets
  HookResults <- MCHook
  Bars <- MCBars
  Callbacks = {}
  MaxBar = 2
  MaxOrders = 3
  MaxOco = 1
INVARIANTS
  TypeOK
  CopiesAgree
  OcoGroupClosed
  LimitsRespected
  MarketOrdersDecided
  TrailFollowsBar
  LegsAfterMain
  NoOrphanAfterMargin
  PositionIsCompletedOrders
PROPERTIES
  ImplementsOrderBook
CHECK_DEADLOCK FALSE
