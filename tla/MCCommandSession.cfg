SPECIFICATION FairSpec
CONSTANTS
  Interval = 2
  MaxDuration = 4
  IoTimeout = 1
  ValidateTime = 1
  MaxPower = 5
  Powers <- MCPowers
  MaxEvents = 2
  InitialGuards <- MCGuards
  InitialRegisters <- MCRegisters
  Settings <- MCSettings
INVARIANT TypeOK
INVARIANT HeartbeatArmed
INVARIANT CadenceBound
INVARIANT DurationBound
PROPERTY RestoredTruthfully
PROPERTY KeepsContract
PROPERTY CallAdvances
PROPERTY CallEnds
