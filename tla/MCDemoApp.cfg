CONSTANTS
  RecordCount = 6
  Capacity = 3
  PublishCount = 2
SPECIFICATION FairSpec
INVARIANTS
  ExitIsExact
PROPERTIES
  Ends
CHECK_DEADLOCK FALSE
