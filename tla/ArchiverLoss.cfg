SPECIFICATION Spec
CONSTANTS
  Day = 2
  Retention = 2
  MaxSkew = 0
  MaxSamples = 4
  MaxTime = 8
  MaxFaults = 0
  MaxCrashes = 0
INVARIANT
  EverySampleCounted
