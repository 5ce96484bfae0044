CONSTANTS
  N = 2
  Capacity = 2
  MaxPosition = 3
  ReadCount <- ReadTwice
  PublishCount <- PublishPairsFirst
  Updaters = {1}
  Observers = {o1}
SPECIFICATION FairSpec
INVARIANTS NeverTerminates
PROPERTIES
  RefinesFairPipeline
  DeliversAll
