SPECIFICATION AppSpec
CONSTANTS
  None = None
  MaxRaw = 1000
  BpsUnit = 1
  FeeBps = 0
  NumSymbols = 1
  NumParticipants = 1
  MaxOrders = 2
  MaxDay = 0
  MaxSlices = 1
  StartingCash = {2}
  OrderQtys = {2}
  LimitPxs = {1}
  TradedSides = {"Buy"}
  FillQtys = {1}
  FillPxs = {1}
  AutoFills = FALSE
  MarkPxs = {}
  Specs = {}
  MaxExecs = 2
  HonourLimits = TRUE
  Seeds <- NoSeeds
  SeedSpec <- Permissive
  UnreadableDays = {}
  MaxSeq = 6
  MaxFaults = 1
INVARIANTS ExecIdsAreUnique
