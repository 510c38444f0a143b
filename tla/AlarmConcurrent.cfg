SPECIFICATION Spec
CONSTANTS
  Names = {cpu}
  Priorities = {1, 3}
  RequestedStatuses = {"in-progress"}
  Procs = {p1, p2}
  FindLimit = 5000
  MaxOps = 4
  MaxFaults = 1
  MaxCrashes = 1
  None = None
SYMMETRY Symmetry
INVARIANTS
  NumbersSequential
  OneIncidentPerHighAlarm
  ProblemsAreRecurrences
  ActiveAlarmsBounded
  NeverOvercounted
