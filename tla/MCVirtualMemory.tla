----------------------------- MODULE MCVirtualMemory -----------------------------
(* The instances of VirtualMemory that TLC checks: two zones of RAM, a     *)
(* framebuffer, a page table, one page of the kernel heap that is not      *)
(* touched yet, and threads that differ only in what they happen to do.    *)
EXTENDS VirtualMemory, TLC

CONSTANTS t1, t2

MCThread == {t1, t2}
MCRamZone == <<[first |-> 1, end |-> 4], [first |-> 8, end |-> 10]>>
MCDevice == {20}
MCHeapPage == {30}
MCSymmetry == Permutations(MCThread)

================================================================================
