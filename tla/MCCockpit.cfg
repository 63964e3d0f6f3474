SPECIFICATION FairSpec
CONSTANTS
  None = None
  NotFound = NotFound
  NumTraders = 1
  LastDay = 2
  KEEP = 2
  Timers = 1
  Gaps = {2}
  MaxRows = 3
  MaxTurns = 2
  MaxBusy = 4
INVARIANTS JournalIsTheLog
PROPERTIES EventsAppear ScreenSettles
