CONSTANTS
  Frontiers = {f1, f2}
  Configs <- SmallConfigs
  SizeMax = 15
  PointerAlign = 2
  MaxHead = 3
SPECIFICATION SpecOpened
INVARIANTS
  TypeOK
  NeverDangling
  BoundariesHold
  SlotsInRing
CHECK_DEADLOCK FALSE
