------------------------------- MODULE MCSemaphore -------------------------------
(* The instance of Semaphore that TLC checks: memory for two semaphores,   *)
(* locks or events, three in succession, one owner, two more threads.      *)
EXTENDS Semaphore, TLC

CONSTANTS t1, t2, t3, a, b

MCThread == {t1, t2, t3}
MCSem == {a, b}
MCSymmetry == Permutations({t2, t3}) \cup Permutations(MCSem)

================================================================================
