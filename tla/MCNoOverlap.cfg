SPECIFICATION Spec
CONSTANTS
  Sessions = {s1, s2}
  Powers = {1, 2}
  Permitted <- MCPermitted
  MaxDuration = 2
  MaxAge = 1
  Scheduled = TRUE
  ManualStarts = FALSE
  Operators = {"operator"}
  Unloads = FALSE
  None = None
INVARIANT Exclusive
