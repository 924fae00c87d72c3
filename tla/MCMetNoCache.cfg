SPECIFICATION Spec
CONSTANTS
  Processes = {p1, p2}
  Requests <- MCRequests
  Leads <- MCLeads
  HashOf <- MCHashOf
  TimeBatchSize = 2
  MaxCalls = 3
  MaxFaults = 2
SYMMETRY Symmetry
INVARIANTS
  TypeOK
  ServedIsComplete
  SavedIsServable
CHECK_DEADLOCK FALSE
