SPECIFICATION FairSpec
CONSTANTS
  t1 = t1
  t2 = t2
  t3 = t3
  Threads = {t1, t2, t3}
  Slots = 2
  MaxAttempts = 4
  InitialDelay = 5
  MaximumDelay = 12
  MaxCalls = 2
INVARIANTS
  TypeOK
  PermitsAccountedFor
  ThrowsLast
PROPERTIES
  EveryCallEnds
CHECK_DEADLOCK FALSE
