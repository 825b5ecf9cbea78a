SPECIFICATION Spec
CONSTANTS
  SECTOR_SIZE = 2
  Spc = 2
  RootSectors = 1
  NumClusters = 6
  FarFat = 6
  TopFat = 1000
  Beyond <- MCBeyond
  Handles = {h1, h2}
  Paths <- MCPaths
  Images <- MCImages
  Lengths = {3, 5}
  MaxCalls = 5
SYMMETRY Symmetry
INVARIANTS
  ChainsExact
  KeepsTexts
  ReadsText
PROPERTIES
  OthersKept
  
CHECK_DEADLOCK FALSE
