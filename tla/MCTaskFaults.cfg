SPECIFICATION Spec
CONSTANTS
  task0 = task0
  t1 = t1
  t2 = t2
  t3 = t3
  t4 = t4
  ok = ok
  err = err
  None = None
  Tcb <- MCFourTcb
  Codes <- MCCodes
  MaxTid = 6
  Creators = {t2, t3}
  Waiters = {t1}
  StoreFaults = {FALSE, TRUE}
INVARIANTS
  SharedOnlyAfterRace
PROPERTY ReapOnlyExited
