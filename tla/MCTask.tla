--------------------------------- MODULE MCTask ---------------------------------
(* The instances of Task that TLC checks: model values for the tcbs,       *)
(* interchangeable but for task0.  A fourth block of memory lets the two   *)
(* creators of MCTaskFaults make a thread each at the same time.           *)
EXTENDS Task, TLC

CONSTANTS t1, t2, t3, t4, ok, err

MCTcb == {task0, t1, t2, t3}
MCFourTcb == MCTcb \cup {t4}
MCCodes == {ok, err}
MCSymmetry == Permutations({t1, t2, t3})

================================================================================
