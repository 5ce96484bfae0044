CONSTANTS
  HeaderUnits = 2
  PayloadUnits = 1
  PaddingUnits = 1
  FirstSequence = 1
  LastSequence = 9
  Durable = 1
  UnsyncedUnits = 5
  MaxFaults = 2
SPECIFICATION FairSpec
INVARIANTS
  TypeOK
  DurableKept
  RecoveredSurvives
PROPERTIES
  PrefixKept
  CorruptionUntouched
  Settles
