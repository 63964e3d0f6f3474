SPECIFICATION Spec
CONSTANTS
  None = None
  MaxRaw = 1000000
  BpsUnit = 1
  FeeBps = 0
  NumSymbols = 1
  NumParticipants = 3
  MaxOrders = 1
  MaxDay = 2
  ReturnUnit = 100
  Start = 13
  Outcomes <- MCOutcomes
CHECK_DEADLOCK FALSE
INVARIANTS
  RanksFollowReturns InputOrderIsIrrelevant LadderTellsTheGrowth
  PrizesAreDue
PROPERTIES StandingIsKept
