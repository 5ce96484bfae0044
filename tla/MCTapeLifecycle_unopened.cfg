CONSTANTS
  Frontiers = {f1, f2}
  Configs <- SmallConfigs
  SizeMax = 15
  PointerAlign = 2
  MaxHead = 3
SPECIFICATION Spec
INVARIANTS
  NeverDangling
CHECK_DEADLOCK FALSE
