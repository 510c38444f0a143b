SPECIFICATION FairSpec
CONSTANTS
  Metrics = {"latency", "port_status"}
  Agents <- MCAgents
  Rules <- MCRules
  Values <- MCValues
  FirstLabel = label
  DeviceLabels = {label, renamed}
  DeviceId = DeviceId
  LookupFails = TRUE
  MaxSilence = 1
  MaxWork = 3
  None = None
CONSTRAINT OthersAreQuiet
INVARIANT SustainedIsFired
PROPERTIES
  FiredAfterBreach
  RecoveredIsClosed
