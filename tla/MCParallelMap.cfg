SPECIFICATION FairSpec
CONSTANTS
  InputCount = 4
  MaximumConcurrency = 3
  Nothing = Nothing
  SpawnError = SpawnError
INVARIANTS
  TypeOK
  ReturnedInOrder
  NoWorkerOutlivesTheMap
PROPERTIES
  MapEnds
  ImplementsOrderedMap
CHECK_DEADLOCK FALSE
