CONSTANTS
  N = 3
  Capacity = 2
  MaxPosition = 4
  ReadCount <- ReadTwice
  PublishCount <- PublishPairsFirst
  Updaters = {1, 2}
  Observers = {}
SPECIFICATION Spec
INVARIANTS
  TypeOK
  DataRaceFree
  SlotExclusive
  ReadsPublished
  DeliveredInOrder
  PublicationLag
PROPERTY RefinesPipeline
