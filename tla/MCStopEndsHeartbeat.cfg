SPECIFICATION Spec
CONSTANTS
  Sessions = {s1, s2}
  Powers = {1, 2}
  Permitted <- MCPermitted
  MaxDuration = 2
  MaxAge = 1
  Scheduled = FALSE
  ManualStarts = TRUE
  Operators = {"operator"}
  Unloads = FALSE
  None = None
PROPERTY StopEndsHeartbeat
