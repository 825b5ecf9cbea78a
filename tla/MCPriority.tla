------------------------------- MODULE MCPriority -------------------------------
(* The instance of Priority that TLC checks: three threads, two of which   *)
(* sleep, or two threads that only compute.                                *)
EXTENDS Priority

CONSTANTS t1, t2, t3

ThreeThreads == <<t1, t2, t3>>
TwoOfThem == {t1, t2}
ExtremeNice == {-20, 0, 19}
SetExtremes == {19, 40}

================================================================================
