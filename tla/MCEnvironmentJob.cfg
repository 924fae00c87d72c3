SPECIFICATION FairSpec
CONSTANTS
  c1 = c1
  c2 = c2
  fine = fine
  coarse = coarse
  None = None
  Cycles = {c1, c2}
  Spacings = {fine, coarse}
  ScanOf <- MCScans
  SaveMayFail = TRUE
  Requests <- MCRequests
  MaxJobs = 2
INVARIANTS
  TypeOK
  PublishedIsComplete
  PublishedFitsRequest
  CheckpointsFollowOutcome
  NoTaskOutlivesWorkspace
PROPERTIES
  JobEnds
CHECK_DEADLOCK FALSE
