SPECIFICATION Spec
CONSTANTS
  NoTime = NoTime
  MaxFaults = 2
  Requests <- MCRequests
  Merges <- MCMerges
  Allowance = 3
  HorizonOf <- MCHorizonOf
  RtofsStep = 2
  UkvHourly = 4
  UkvStep = 3
  Cycles <- MCCycles
  GivenFiles <- MCGivenFiles
INVARIANTS
  TypeOK
  WindowCovered
  PublishedIsComposite
  FailureKeepsOutput
CHECK_DEADLOCK FALSE
