CONSTANTS
  N = 1
  Capacity = 2
  MaxPosition = 3
  ReadCount <- ReadTwice
  PublishCount <- PublishPairsFirst
  Updaters = {}
  Observers = {o1}
SPECIFICATION Spec
PROPERTY OkMeansRetained
