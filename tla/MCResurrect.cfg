SPECIFICATION Spec
CONSTANTS
  None = None
  Feeds <- MCFeeds
  Currencies <- MCCurrencies
  BaseCcy = "USD"
  Funding <- MCFunding
  Instrument <- MCInstrument
  Fees <- MCFees
  FxRate <- MCFxRate
  slip <- MCSlip
  Requests <- ReentrantRequests
  Brackets = {}
  HookResults = {}
  Bars <- MCBars
  Callbacks = {"cancel"}
  MaxBar = 2
  MaxOrders = 2
  MaxOco = 0
PROPERTIES
  TerminalIsFinal
CHECK_DEADLOCK FALSE
