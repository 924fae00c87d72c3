SPECIFICATION Spec
CONSTANTS
  Modulus = 16
  Circle = 6
  MaxMetadata = 2
  MaxComponents = 4
  Word = 255
  FirstYear = 2023
  ReferenceLevel = 5
  Delta = {1, 2, 4}
  Grid <- MCGrid
  Authored <- MCAuthored
  ValidCell <- MCValidCell
  Support <- MCSupport
  TileBytes <- MCTileBytes
  Times <- MCTimes
  HarmonicFiles <- MCHarmonicFiles
  WaveUnit = 4
  Wave <- MCWave
  Files <- MCFiles
  Damage <- MCDamage
  OptionSets <- MCOptionSets
  Requests <- MCRequests
INVARIANTS
  TypeOK
  CacheCoherent
  VerifiedIsIntact
  DamageIsContained
PROPERTIES
  RangesDisjoint
  AnswersAreAuthored
CHECK_DEADLOCK FALSE
