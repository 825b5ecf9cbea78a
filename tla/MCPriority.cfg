SPECIFICATION Spec
CONSTANTS
  task0 = task0
  t1 = t1
  t2 = t2
  t3 = t3
  Order <- ThreeThreads
  Busy <- TwoOfThem
  Nice <- ExtremeNice
  Settable <- SetExtremes
  Sleepers <- TwoOfThem
  StartTicks = {97}
  EndTick = 5
INVARIANTS
  EqualShares
PROPERTIES
  SwitchesToHighest
  IdleGivesWay
  NoStarvation
