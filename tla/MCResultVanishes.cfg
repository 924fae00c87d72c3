SPECIFICATION FairSpec
CONSTANTS
  Faults = {}
  MaxJobs = 1
PROPERTIES
  ResultNeverVanishes
CHECK_DEADLOCK FALSE
