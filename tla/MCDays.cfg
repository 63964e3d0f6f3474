SPECIFICATION DaysSpec
CONSTANTS
  None = None
  MaxRaw = 1000
  BpsUnit = 2
  FeeBps = 1
  NumSymbols = 1
  NumParticipants = 2
  MaxOrders = 2
  MaxDay = 3
  MaxSlices = 1
  StartingCash = {6}
  OrderQtys = {2}
  LimitPxs = {1}
  TradedSides = {"Buy", "Sell"}
  FillQtys = {1}
  FillPxs = {1}
  AutoFills = TRUE
  MarkPxs = {2}
  Specs = {}
  MaxExecs = 3
  HonourLimits = TRUE
INVARIANTS
  ActiveMeansExposed DaysAddUp
PROPERTIES ClosesPublishEquity ClosesMakeASeason
