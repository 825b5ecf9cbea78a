SPECIFICATION FpuSpec
CONSTANTS
  task0 = task0
  t1 = t1
  t2 = t2
  clean = clean
  x = x
  y = y
  None = None
  Threads <- MCThread
  Idle = task0
  Fresh = {}
  Value <- MCValue
  Clean = clean
SYMMETRY MCSymmetry
INVARIANTS
  RegistersKept
  OwnerLives
CHECK_DEADLOCK FALSE
