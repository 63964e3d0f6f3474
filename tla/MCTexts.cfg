SPECIFICATION TextsSpec
CONSTANTS
  None = None
  NoDay = NoDay
  Years = {0, 8, 476, 2024, 2026, 9999, 10000, 12345}
  MonthNumbers = {0, 2, 8, 12, 13}
  DayNumbers = {0, 1, 29, 31}
  MaxBlanks = 1
  MaxWidth = 5
  MaxRaw = 1314
  BpsUnit = 1
  FeeBps = 0
  ScaleDigits = 2
  Dp = 0
  Wholes <- SomeWholes
  Fractions <- SomeFractions
  Signs <- SomeSigns
CHECK_DEADLOCK FALSE
INVARIANTS DaysAreKept AmountsAreKept PercentsAreNearest
