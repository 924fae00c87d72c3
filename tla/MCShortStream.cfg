SPECIFICATION Spec
CONSTANTS
  Cycles = 2
  Hours = 3
  Workers = 2
  Providers = {"noaa_hrrr"}
  MaxNetworkFaults = 0
  MaxDiskFaults = 1
INVARIANTS
  IncompleteStreamsAreErrors
CHECK_DEADLOCK FALSE
