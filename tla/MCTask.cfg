SPECIFICATION Spec
CONSTANTS
  task0 = task0
  t1 = t1
  t2 = t2
  t3 = t3
  t4 = t4
  ok = ok
  err = err
  None = None
  Tcb <- MCTcb
  Codes <- MCCodes
  MaxTid = 5
  Creators = {t1, t2, t3}
  Waiters = {t1, t2, t3}
  StoreFaults = {FALSE}
INVARIANTS
  QueuesHoldSleepers
  WokenByExit
  NoDangling
  ListSound
PROPERTY ImplementsLifecycle
