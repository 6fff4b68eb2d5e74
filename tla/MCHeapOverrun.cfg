SPECIFICATION Spec
CONSTANTS
  Total = 6
  BlockSize = 4
  SAddr = 16
  Word = 64
  Sizes <- MCSizes
INVARIANT LiveInsideHeap
