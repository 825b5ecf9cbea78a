SPECIFICATION Spec
CONSTANTS
  task0 = task0
  t1 = t1
  t2 = t2
  t3 = t3
  Thread <- MCThread
  MaxKeys = 4
SYMMETRY MCSymmetry
INVARIANTS
  KeyReachesCall
  AtMostOneCallPerKey
