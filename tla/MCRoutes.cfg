SPECIFICATION RoutesSpec
CONSTANTS
  None = None
  Malformed = Malformed
  MaxRaw = 3
  BpsUnit = 1
  FeeBps = 0
  NumSymbols = 1
  NumParticipants = 1
  MaxOrders = 2
  MaxDay = 2
  MaxSlices = 2
  StartingCash = {2}
  OrderQtys = {1, 2}
  LimitPxs = {1}
  TradedSides = {"Buy", "Sell"}
  FillQtys = {1}
  FillPxs = {2}
  AutoFills = TRUE
  MarkPxs = {1}
  Specs <- OneSpec
  MaxExecs = 2
  HonourLimits = TRUE
  Seeds <- OneSeed
  SeedSpec <- PairsOnly
INVARIANTS AnswersTellTheTruth 
PROPERTIES RetriesAreHarmless
