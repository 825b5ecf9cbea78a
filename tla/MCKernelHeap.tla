------------------------------ MODULE MCKernelHeap ------------------------------
\* Instance: a pool of 24 words, second-level lists of a quarter, three sizes.
EXTENDS KernelHeap
================================================================================
