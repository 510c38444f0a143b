SPECIFICATION Spec
CONSTANTS
  None = None
  Users = {"ann", "bob"}
  Registered = {"ann"}
  MaxAttempts = 2
  MaxCalls = 2
  MaxVisits = 2
  MaxFails = 1
INVARIANT ShownRolesWereStored
CHECK_DEADLOCK FALSE
