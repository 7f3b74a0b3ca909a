SPECIFICATION Spec
CONSTANTS
  inverter = inverter
  reporter = reporter
  stranger = stranger
  Hosts <- MCHosts
  Host = "inverter.lan"
  Resolutions <- MCMoving
  TelemetryOnly <- MCReporters
  Confirmed = TRUE
  MaxAge = 3
  ReceiveTimeout = 2
INVARIANT TypeOK
INVARIANT PermissionFresh
PROPERTY KeepsWatch
