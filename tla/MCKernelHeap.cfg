SPECIFICATION Spec
CONSTANTS
  SlLog2 = 2
  MaxLog2 = 5
  PoolWords = 24
  Sizes = {3, 5, 9}
  Aligns = {8}
INVARIANTS
  CheckPasses
  NoLeak
  RefusedOnlyWhenShort
PROPERTIES
  ImplementsHeap
