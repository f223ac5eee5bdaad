SPECIFICATION Spec
CONSTANTS
  None = None
  Feeds <- MCFeeds
  Currencies <- MCCurrencies
  BaseCcy = "USD"
  Funding <- MCFunding
  Instrument <- MCInstrument
  Fees <- MCFees
  FxRate <- MCFxRate
  slip <- MCSlip
  Requests <- ReentrantRequests
  Brackets = {}
  HookResults = {}
  Bars <- TwoBars
  Callbacks = {"cancel", "submit"}
  MaxBar = 2
  MaxOrders = 3
  MaxOco = 0
INVARIANTS
  FillsInTime
PROPERTIES
  BarEnds
  CompletedIsFinal
CHECK_DEADLOCK FALSE
