SPECIFICATION FairSpec
CONSTANTS
  None = None
  NotFound = NotFound
  NumTraders = 1
  LastDay = 2
  KEEP = 2
  Timers = 1
  Gaps = {2}
  MaxRows = 2
  MaxTurns = 1
  MaxBusy = 3
PROPERTIES EventsAppearAfterReset
