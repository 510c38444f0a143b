SPECIFICATION FairSpec
CONSTANTS
  Names = {cpu, ram}
  Priorities = {1, 3}
  RequestedStatuses = {"in-progress"}
  Procs = {p1}
  FindLimit = 5000
  MaxOps = 5
  MaxFaults = 1
  MaxCrashes = 1
  None = None
INVARIANTS
  CloseCascades
  EveryIncidentHasTicket
  OccurrencesCounted
  OpenProblemsBounded
PROPERTIES
  HandlersReturn
