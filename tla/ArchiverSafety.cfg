SPECIFICATION Spec
CONSTANTS
  Day = 2
  Retention = 2
  MaxSkew = 4
  MaxSamples = 3
  MaxTime = 8
  MaxFaults = 1
  MaxCrashes = 1
INVARIANTS
  RecentIsRaw
  OldIsDeleted
PROPERTY
  DeletedLeavesTrace
