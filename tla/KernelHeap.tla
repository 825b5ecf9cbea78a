------------------------------- MODULE KernelHeap -------------------------------
(***************************************************************************)
(* The kernel heap (src/kernel/kmalloc.c): each call runs TLSF with the    *)
(* interrupts off, so a call is a step.  Callers keep to what they hold.   *)
(* A request so near block_size_max that rounding it up leaves the table   *)
(* of lists is not made (tlsf.c reads behind sl_bitmap there), nor is      *)
(* krealloc with one larger still, which shrinks the block to nothing.     *)
(***************************************************************************)
EXTENDS Tlsf

CONSTANTS
  Sizes,     \* the sizes asked for, in words
  Aligns     \* the alignments asked of kmemalign, in words

ASSUME SizesAssumption ==
  /\ Sizes \subseteq 1 .. MAX_SIZE - 1 /\ Aligns \subseteq Nat \ {0}
  /\ \A n \in Sizes : mapping_search(adjust_request_size(n, 1))[1] \in FlIndex
  /\ \A n \in Sizes, align \in Aligns :
       mapping_search(Wide(adjust_request_size(n, 1), align))[1] \in FlIndex

VARIABLES
  kheap,     \* g_kheap
  live,      \* history: what the callers hold, address -> words asked for
  asked,     \* history: the boundary the last call asked for
  refused    \* history: the words the last call asked for in vain, or 0
vars == <<kheap, live, asked, refused>>

Init ==
  /\ kheap = tlsf_add_pool(control_construct)
  /\ live = [p \in {} |-> 0]
  /\ asked = 1
  /\ refused = 0

Holding(f, p, n) == [q \in DOMAIN f \cup {p} |-> IF q = p THEN n ELSE f[q]]
Dropping(p) == [q \in DOMAIN live \ {p} |-> live[q]]

kmalloc(n) ==
  LET r == tlsf_malloc(kheap, n)
  IN  /\ kheap' = r.h
      /\ live' = IF r.p = Null THEN live ELSE Holding(live, r.p, n)
      /\ asked' = 1
      /\ refused' = IF r.p = Null THEN n ELSE 0

kmemalign(align, n) ==
  LET r == tlsf_memalign(kheap, align, n)
  IN  /\ kheap' = r.h
      /\ live' = IF r.p = Null THEN live ELSE Holding(live, r.p, n)
      /\ asked' = align
      /\ refused' = 0

krealloc(p, n) ==
  LET r == tlsf_realloc(kheap, p, n)
  IN  /\ kheap' = r.h
      /\ live' = IF r.p = Null THEN live ELSE Holding(Dropping(p), r.p, n)
      /\ asked' = 1
      /\ refused' = 0

kfree(p) ==
  /\ kheap' = tlsf_free(kheap, p)
  /\ live' = Dropping(p)
  /\ asked' = 1
  /\ refused' = 0

Next ==
  \/ \E n \in Sizes : kmalloc(n)
  \/ \E align \in Aligns, n \in Sizes : kmemalign(align, n)
  \/ \E p \in DOMAIN live, n \in Sizes : krealloc(p, n)
  \/ \E p \in DOMAIN live : kfree(p)
Spec == Init /\ [][Next]_vars

--------------------------------------------------------------------------------
\* What tlsf_check and tlsf_check_pool look for: the bitmaps, the lists and the
\* flags in the headers agree, and no two free blocks are neighbours.
CheckPasses == ListsAccurate(kheap) /\ PoolCorrect(kheap)

\* The blocks tile the pool, and those in use are the ones some caller
\* holds, none smaller than asked for: whatever the order of the calls, nothing
\* is lost, held twice or cut short.
NoLeak ==
  /\ \E last \in DOMAIN kheap.blk : kheap.blk[last].size = 0 /\ last = PoolWords - START
  /\ \A b \in DOMAIN kheap.blk : b = FirstBlock \/ \E a \in DOMAIN kheap.blk : kheap.blk[a].size > 0 /\ block_next(kheap, a) = b
  /\ {ToPtr(b) : b \in {x \in DOMAIN kheap.blk : ~kheap.blk[x].free /\ kheap.blk[x].size > 0}} = DOMAIN live
  /\ \A p \in DOMAIN live : kheap.blk[FromPtr(p)].size >= live[p]
  /\ {b \in DOMAIN kheap.blk : kheap.blk[b].free} = UNION {ToSet(kheap.blocks[at]) : at \in FlIndex \X SlIndex}

\* kmalloc gives up only when every free block is smaller than the request
\* rounded up to the next list.
RefusedOnlyWhenShort ==
  refused > 0 => \A b \in DOMAIN kheap.blk :
    LET n == adjust_request_size(refused, 1)
    IN  kheap.blk[b].free => kheap.blk[b].size < n + (IF n < SlCount THEN 0 ELSE Pow2(tlsf_fls(n) - SlLog2) - 1)

\* The kernel heap keeps the promises of an allocator, alignments included,
\* through splits, merges, and blocks that grow where they are or move.
H == INSTANCE Heap WITH Words <- 0 .. PoolWords - 1
ImplementsHeap == H!Spec
================================================================================
