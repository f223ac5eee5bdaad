SPECIFICATION Spec
CONSTANTS
  None = None
  Feeds <- MCFeeds
  Currencies <- MCCurrencies
  BaseCcy = "USD"
  Funding <- MCFunding
  Instrument <- MCInstrument
  Fees <- MCFees
  FxRate <- MCFxRate
  slip <- MCSlip
  Requests <- OcoRequests
  Brackets = {}
  HookResults = {}
  Bars <- MCBars
  Callbacks = {}
  MaxBar = 2
  MaxOrders = 2
  MaxOco = 0
INVARIANTS
  OneFillPerOcoGroup
CHECK_DEADLOCK FALSE
