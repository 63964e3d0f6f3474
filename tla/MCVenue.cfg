SPECIFICATION SeededSpec
CONSTANTS
  None = None
  MaxRaw = 1000
  BpsUnit = 1
  FeeBps = 0
  NumSymbols = 2
  NumParticipants = 1
  MaxOrders = 2
  MaxDay = 0
  MaxSlices = 1
  StartingCash = {6}
  OrderQtys = {1, 2, 4}
  LimitPxs = {1, 2}
  TradedSides = {"Buy", "Sell"}
  FillQtys = {}
  FillPxs = {}
  AutoFills = TRUE
  MarkPxs = {1}
  Specs <- VenueSpecs
  MaxExecs = 2
  HonourLimits = TRUE
ACTION_CONSTRAINT KeepsAListing
INVARIANTS UnlistedIsUnused PagesAgree
PROPERTIES OnlyAdmissibleOrdersRest
