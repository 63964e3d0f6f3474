SPECIFICATION AppFairSpec
CONSTANTS
  None = None
  MaxRaw = 1000
  BpsUnit = 1
  FeeBps = 0
  NumSymbols = 1
  NumParticipants = 1
  MaxOrders = 1
  MaxDay = 1
  MaxSlices = 1
  StartingCash = {2}
  OrderQtys = {1}
  LimitPxs = {1}
  TradedSides = {"Buy"}
  FillQtys = {1}
  FillPxs = {1}
  AutoFills = TRUE
  MarkPxs = {1}
  Specs <- PermissiveOnly
  MaxExecs = 2
  HonourLimits = TRUE
  Seeds <- NoSeeds
  SeedSpec <- Permissive
  UnreadableDays = {1}
  MaxSeq = 4
  MaxFaults = 2
CHECK_DEADLOCK FALSE
PROPERTIES ServerReturns
