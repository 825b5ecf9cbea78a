SPECIFICATION Spec
CONSTANTS
  task0 = task0
  t1 = t1
  t2 = t2
  t3 = t3
  a = a
  b = b
  None = None
  Thread <- MCThread
  Owner = t1
  Sem <- MCSem
  Values = {0, 1}
  MaxIds = 3
  MaxPosted = 3
SYMMETRY MCSymmetry
INVARIANTS
  ValueAccounts
  SleepersExact
  FindsItsOwn
