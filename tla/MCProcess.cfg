SPECIFICATION Spec
CONSTANTS
  Entries = 2
  PageSize = 4
  HeapBlocks <- MCHeap
  FlagSets <- MCFlags
  Virtual <- MCVirtual
  Physical <- MCPhysical
  MaxProcesses = 5
  MaxOthers = 2
INVARIANTS TypeOK OwnBlocks MapsToItself ProcessTypeOK NextFollows PrevIsPrevious OwnMemory
PROPERTIES SetsOnePage LossesAreStacklessLoads
