SPECIFICATION FairSpec
CONSTANTS
  None = None
  MaxRaw = 1000
  BpsUnit = 2
  FeeBps = 1
  NumSymbols = 1
  NumParticipants = 1
  MaxOrders = 2
  MaxDay = 0
  MaxSlices = 3
  StartingCash = {20}
  OrderQtys = {5, 7}
  LimitPxs = {1}
  TradedSides = {"Buy", "Sell"}
  FillQtys = {}
  FillPxs = {}
  AutoFills = TRUE
  MarkPxs = {1}
  Specs = {}
  MaxExecs = 6
  HonourLimits = TRUE
INVARIANTS SlicesBounded
PROPERTIES OrdersComplete
