SPECIFICATION FairSpec
CONSTANTS
  IPs = {ip}
  DeviceTypes = {"server", "workstation"}
  DeviceNames = {"renamed"}
  Procs = {p1, p2}
  Timeout = 1
  MaxOps = 3
  MaxFaults = 1
  None = None
PROPERTY
  SilentGoesOffline
