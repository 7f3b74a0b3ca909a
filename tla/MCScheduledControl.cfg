SPECIFICATION FairSpec
CONSTANTS
  Sessions = {s1, s2}
  Powers = {1, 2}
  Permitted <- MCPermitted
  MaxDuration = 2
  MaxAge = 0
  Scheduled = TRUE
  ManualStarts = FALSE
  Operators = {}
  Unloads = TRUE
  None = None
INVARIANT TypeOK
INVARIANT Tracked
INVARIANT StatusTruthful
INVARIANT Exclusive
PROPERTY UnloadQuiets
PROPERTY StopReturns
