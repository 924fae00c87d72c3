SPECIFICATION FairSpec
CONSTANTS
  Cycles = 2
  Hours = 3
  Workers = 2
  Providers = {"gfs", "gfs_wave", "dwd_icon_eu", "noaa_hrrr", "ecmwf_open", "ukmo_ukv"}
  MaxNetworkFaults = 1
  MaxDiskFaults = 1
INVARIANTS
  TypeOK
  PublishedWhole
  NewestUsableCycle
  OneRequestPerShortCycle
  FailureLeavesNoTrace
PROPERTIES
  CallEnds
CHECK_DEADLOCK FALSE
