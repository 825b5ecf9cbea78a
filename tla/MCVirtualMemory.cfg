SPECIFICATION Spec
CONSTANTS
  t1 = t1
  t2 = t2
  Thread <- MCThread
  RamZone <- MCRamZone
  UserMin = 3
  UserMax = 5
  Zero = 0
  Junk = 1
  Value = {0, 1}
  Device <- MCDevice
  MaxLength = 2
  Serial = TRUE
  TableSize = 3
  HeapPage <- MCHeapPage
  None = None
SYMMETRY MCSymmetry
CHECK_DEADLOCK FALSE
INVARIANTS
  ZonesApart
  FramesExclusive
  FramesAccounted
  DataKept
  NothingLeftMapped
  HaltsOnlyWhenFull
