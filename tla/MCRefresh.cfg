SPECIFICATION Spec
CONSTANTS
  None = None
  NotFinite = NotFinite
  south = south
  west = west
  packA = packA
  cloudA = cloudA
  cloudB = cloudB
  Setups <- MCSetups
  Base = 2
  Longest = 5
  HistoryDays = 2
  MaxAge = 1
  Skew = 0
  CacheTime = 1
  MaxLate = 1
  MaxFailures = 3
  LastHour = 1
INVARIANT TypeOK
INVARIANT EstimateComplete
INVARIANT ForecastComplete
PROPERTY OutageBacksOff
