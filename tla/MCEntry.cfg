SPECIFICATION FairSpec
CONSTANTS
  None = None
  Imported = Imported
  Malformed = Malformed
  Inputs <- MCInputs
  Profiles <- MCProfiles
  Dashboards <- MCDashboards
  MaxSaves = 2
INVARIANT TypeOK
INVARIANT SavedOptionsWork
INVARIANT ForecastReached
INVARIANT NothingLeft
PROPERTY CommandsEnd
PROPERTY ReloadSettles
