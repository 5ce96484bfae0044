CONSTANTS
  Writers = {w1, w2}
  HeaderUnits = 2
  PaddingUnits = 1
  MaxFiles = 4
  MaxFaults = 3
SPECIFICATION FairSpec
INVARIANTS
  TypeOK
  AckedKept
  SoleWriter
PROPERTY Settles
