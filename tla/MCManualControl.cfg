SPECIFICATION Spec
CONSTANTS
  Sessions = {s1, s2}
  Powers = {1}
  Permitted <- MCPermitted
  MaxDuration = 1
  MaxAge = 1
  Scheduled = FALSE
  ManualStarts = TRUE
  Operators = {"operator"}
  Unloads = TRUE
  None = None
SYMMETRY Symmetry
PROPERTY KeepsWatch
PROPERTY OwnershipImmediate
