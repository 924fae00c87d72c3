SPECIFICATION FairSpec
CONSTANTS
  c1 = c1
  c2 = c2
  fine = fine
  coarse = coarse
  None = None
  Cycles = {c1, c2}
  Spacings = {fine, coarse}
  ScanOf <- MCScans
  SaveMayFail = FALSE
  Requests <- MCWaveRequests
  MaxJobs = 2
INVARIANTS
  WavesHaveRequestedSpacing
CHECK_DEADLOCK FALSE
