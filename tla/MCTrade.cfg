SPECIFICATION Spec
CONSTANTS
  None = None
  MaxRaw = 1000
  BpsUnit = 2
  FeeBps = 1
  NumSymbols = 1
  NumParticipants = 1
  MaxOrders = 3
  MaxDay = 0
  MaxSlices = 2
  StartingCash = {7}
  OrderQtys = {1, 3}
  LimitPxs = {1, 2}
  TradedSides = {"Buy", "Sell"}
  FillQtys = {1, 2}
  FillPxs = {1, 2}
  AutoFills = TRUE
  MarkPxs = {1}
  Specs = {}
  MaxExecs = 3
  HonourLimits = TRUE
INVARIANTS
  TypeOK OrdersTellOneStory ReplaceChainsHold LongOnly ReservationsCovered
  WorkingOrdersCanFill BlotterMatchesOrders TapeIsAHistory
  ProfitIsAccountedFor TapeIsInMintOrder
PROPERTIES HistoryStands
