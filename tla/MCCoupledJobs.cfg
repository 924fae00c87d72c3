SPECIFICATION Spec
CONSTANTS
  c1 = c1
  c2 = c2
  fine = fine
  coarse = coarse
  None = None
  Cycles = {c1, c2}
  Spacings = {fine, coarse}
  ScanOf <- MCScans
  SaveMayFail = TRUE
  Requests <- MCCoupledRequests
  MaxJobs = 4
INVARIANTS
  CoupledCyclesMatch
CHECK_DEADLOCK FALSE
