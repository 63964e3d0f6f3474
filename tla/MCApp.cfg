SPECIFICATION AppFairSpec
CONSTANTS
  None = None
  MaxRaw = 1000
  BpsUnit = 1
  FeeBps = 0
  NumSymbols = 1
  NumParticipants = 1
  MaxOrders = 2
  MaxDay = 1
  MaxSlices = 1
  StartingCash = {2}
  OrderQtys = {1}
  LimitPxs = {2}
  TradedSides = {"Buy"}
  FillQtys = {1}
  FillPxs = {2}
  AutoFills = TRUE
  MarkPxs = {1}
  Specs <- PermissiveOnly
  MaxExecs = 2
  HonourLimits = TRUE
  Seeds <- OneSeed
  SeedSpec <- Permissive
  UnreadableDays = {}
  MaxSeq = 7
  MaxFaults = 2
INVARIANTS PlannedEntriesReadBack ServedWorldIsJournaled NothingIsReissued
PROPERTIES ServerReturns JournalIsAtomic JournalIsAFeed
