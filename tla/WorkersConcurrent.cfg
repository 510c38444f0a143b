SPECIFICATION Spec
CONSTANTS
  GroupNames <- MCNames
  Fold <- MCFold
  Emails = {email1, email2}
  Tickets = {"TKT0001", "TKT0002"}
  AssignedGroup <- MCAssignedGroup
  Procs = {p1, p2}
  MaxSeed = 2
  MaxOps = 3
  MaxFaults = 1
  None = None
SYMMETRY Symmetry
CHECK_DEADLOCK FALSE
INVARIANT NothingDangles
