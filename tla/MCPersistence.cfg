CONSTANTS
  HeaderUnits = 2
  PayloadUnits = 1
  PaddingUnits = 1
  FirstSequence = 1
  LastSequence = 4
  SyncCount = 2
  Capacity = 3
  MaxPosition = 5
SPECIFICATION MCSpec
INVARIANTS
  TypeOK
  ExecutedIsRecoverable
  LossBounded
  BatchRetained
  RecoveryTakesOver
PROPERTIES
  RefinesDurableLog
  SmallRingDrains
CHECK_DEADLOCK FALSE
