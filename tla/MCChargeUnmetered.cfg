SPECIFICATION Spec
CONSTANTS
  None = None
  NotFinite = NotFinite
  Rules <- MCRules
  Timeout = 2
  Targets <- MCTargets
  Conditions <- MCConditions
  Modes = {TRUE, FALSE}
  ActiveMax = 3
  PredictiveMax = 4
  Reserve = 30
  EndSoc = 80
  MaxAge = 1
  MaxDuration = 3
  PlanHold = 2
  Defaults <- MCDefaults
  Suns <- MCSuns
  Answers <- MCUnavailable
  Readings <- MCReadings
INVARIANT ChargedWithinExport
