SPECIFICATION Spec
CONSTANTS
  NoData = NoData
  MaxGroups = 2
  MaxStaff = 2
  MaxCalls = 2
  MaxVisits = 2
  MaxTrouble = 1
INVARIANTS
  CreatedAsShown
  DeletedStaysGone
CHECK_DEADLOCK FALSE
