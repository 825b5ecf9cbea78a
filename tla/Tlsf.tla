---------------------------------- MODULE Tlsf ----------------------------------
(***************************************************************************)
(* The two-level segregated fit allocator (src/lib/tlsf/tlsf.c) behind     *)
(* kmalloc, in words of ALIGN_SIZE bytes.  A block is named by the address *)
(* of its header: the word there belongs to the block before it unless     *)
(* that one is free, its size is in the next word, and what the caller     *)
(* gets starts behind that.  The free lists are sequences, head first; a   *)
(* heap h = [blk, blocks, fl_bitmap, sl_bitmap].                           *)
(***************************************************************************)
EXTENDS WaitQueue, FiniteSets, SequencesExt

CONSTANTS
  SlLog2,    \* SL_INDEX_COUNT_LOG2
  MaxLog2,   \* log2 of block_size_max, in words
  PoolWords  \* the words of the pool handed to tlsf_add_pool

Pow2(k) == 2 ^ k       \* 1 << k

ASSUME TlsfAssumption ==
  /\ SlLog2 \in Nat \ {0} /\ MaxLog2 \in SlLog2 + 1 .. 28
  /\ PoolWords \in Nat /\ PoolWords >= 5 /\ PoolWords - 2 < Pow2(MaxLog2)

OVERHEAD == 1          \* block_header_overhead: the size word
START == 2             \* block_start_offset
MIN_SIZE == 3          \* block_size_min: the links, and the next block's prev_phys_block
HEADER == 4            \* sizeof(block_header_t), also the smallest gap of memalign
MAX_SIZE == Pow2(MaxLog2)
Null == -9

SlCount == Pow2(SlLog2)
FlIndex == 0 .. MaxLog2 - SlLog2
SlIndex == 0 .. SlCount - 1
Most(a, b) == IF a > b THEN a ELSE b
AlignUp(x, align) == ((x + align - 1) \div align) * align

\* The index of the highest bit set.
tlsf_fls(word) == CHOOSE k \in 0 .. 30 : Pow2(k) <= word /\ word < Pow2(k + 1)
\* The index of the lowest bit of a bitmap, kept as the set of its bits.
tlsf_ffs(map) == CHOOSE i \in map : \A j \in map : i <= j

adjust_request_size(size, align) ==
  IF size > 0 /\ size < MAX_SIZE THEN Most(AlignUp(size, align), MIN_SIZE) ELSE 0

mapping_insert(size) ==
  IF size < SlCount THEN <<0, size>>
  ELSE LET k == tlsf_fls(size)
       IN  <<k - SlLog2 + 1, (size \div Pow2(k - SlLog2)) - SlCount>>
\* Rounded up to the next list, whose blocks are all large enough.
mapping_search(size) ==
  mapping_insert(IF size < SlCount THEN size ELSE size + Pow2(tlsf_fls(size) - SlLog2) - 1)

(***************************************************************************)
(* Block headers                                                           *)
(***************************************************************************)
block_next(h, b) == b + START + h.blk[b].size - OVERHEAD
block_mark_as_free(h, b) ==
  [h EXCEPT !.blk = [@ EXCEPT ![b].free = TRUE, ![block_next(h, b)].prev = b, ![block_next(h, b)].prevfree = TRUE]]
block_mark_as_used(h, b) ==
  [h EXCEPT !.blk = [@ EXCEPT ![b].free = FALSE, ![block_next(h, b)].prevfree = FALSE]]
ToPtr(b) == b + START
FromPtr(p) == p - START

(***************************************************************************)
(* Free lists and their bitmaps                                            *)
(***************************************************************************)
remove_free_block(h, b, at) ==
  LET rest == Unlink(h.blocks[at], b)
      sl   == h.sl_bitmap[at[1]] \ (IF rest = <<>> THEN {at[2]} ELSE {})
  IN  [h EXCEPT !.blocks[at] = rest, !.sl_bitmap[at[1]] = sl,
                !.fl_bitmap = @ \ (IF sl = {} THEN {at[1]} ELSE {})]
insert_free_block(h, b, at) ==
  [h EXCEPT !.blocks[at] = Link(@, b), !.fl_bitmap = @ \cup {at[1]}, !.sl_bitmap[at[1]] = @ \cup {at[2]}]
block_remove(h, b) == remove_free_block(h, b, mapping_insert(h.blk[b].size))
block_insert(h, b) == insert_free_block(h, b, mapping_insert(h.blk[b].size))

\* Faulty: skips a first-level list.
SearchSkipping(h, at) ==
  LET sl == {i \in h.sl_bitmap[at[1]] : i >= at[2]}
      fl == {i \in h.fl_bitmap : i > at[1] + 1}
  IN  IF sl # {} THEN {<<at[1], tlsf_ffs(sl)>>}
      ELSE IF fl # {} THEN {<<tlsf_ffs(fl), tlsf_ffs(h.sl_bitmap[tlsf_ffs(fl)])>>} ELSE {}
\* The list to take a block from, none if there is no list that large.
search_suitable_block(h, at) ==
  LET sl == {i \in h.sl_bitmap[at[1]] : i >= at[2]}
      fl == {i \in h.fl_bitmap : i > at[1]}
  IN  IF sl # {} THEN {<<at[1], tlsf_ffs(sl)>>}
      ELSE IF fl # {} THEN {<<tlsf_ffs(fl), tlsf_ffs(h.sl_bitmap[tlsf_ffs(fl)])>>} ELSE {}

(***************************************************************************)
(* Splitting and merging.  The header of a new block is whatever the words *)
(* held, so its callers set both flags.                                    *)
(***************************************************************************)
can_split(h, b, size) == h.blk[b].size >= HEADER + size
Rest(b, size) == b + START + size - OVERHEAD
block_split(h, b, size) ==
  LET new == [size |-> h.blk[b].size - (size + OVERHEAD), free |-> TRUE, prevfree |-> FALSE, prev |-> Null]
      cut == [h EXCEPT !.blk = [x \in DOMAIN @ \cup {Rest(b, size)} |->
                IF x = b THEN [@[b] EXCEPT !.size = size]
                ELSE IF x = Rest(b, size) THEN new ELSE @[x]]]
  IN  block_mark_as_free(cut, Rest(b, size))
block_absorb(h, prev, b) ==
  LET size == h.blk[prev].size + h.blk[b].size + OVERHEAD
      next == prev + START + size - OVERHEAD
  IN  [h EXCEPT !.blk = [x \in DOMAIN @ \ {b} |-> IF x = prev THEN [@[x] EXCEPT !.size = size]
                                                  ELSE IF x = next THEN [@[x] EXCEPT !.prev = prev] ELSE @[x]]]
\* A heap and the block the caller goes on with.
block_merge_prev(h, b) ==
  IF h.blk[b].prevfree THEN [h |-> block_absorb(block_remove(h, h.blk[b].prev), h.blk[b].prev, b), b |-> h.blk[b].prev]
  ELSE [h |-> h, b |-> b]
MergeNextNot(h, b) == h      \* Faulty: no merging with the block behind.
block_merge_next(h, b) ==
  IF h.blk[block_next(h, b)].free THEN block_absorb(block_remove(h, block_next(h, b)), b, block_next(h, b)) ELSE h

\* Faulty: the rest of the block is in no list.
TrimForgetsRest(h, b, size) == IF can_split(h, b, size) THEN block_split(h, b, size) ELSE h
block_trim_free(h, b, size) ==
  IF ~can_split(h, b, size) THEN h
  ELSE LET r == Rest(b, size)
           s == block_split(h, b, size)
       IN  block_insert([s EXCEPT !.blk[r] = [@ EXCEPT !.prev = b, !.prevfree = TRUE]], r)
block_trim_used(h, b, size) ==
  IF ~can_split(h, b, size) THEN h
  ELSE block_insert(block_merge_next(block_split(h, b, size), Rest(b, size)), Rest(b, size))
\* Keeps the block behind the first gap words, which go back to the pool.
block_trim_free_leading(h, b, gap) ==
  IF ~can_split(h, b, gap) THEN [h |-> h, b |-> b]
  ELSE LET r == Rest(b, gap - OVERHEAD)
           s == block_split(h, b, gap - OVERHEAD)
       IN  [h |-> block_insert([s EXCEPT !.blk[r] = [@ EXCEPT !.prevfree = TRUE, !.prev = b]], b), b |-> r]

(***************************************************************************)
(* The interface: each call returns the heap and a pointer.                *)
(***************************************************************************)
Locate(h, size) == IF size = 0 THEN {} ELSE search_suitable_block(h, mapping_search(size))
block_locate_free(h, size) ==
  LET at == Locate(h, size)
  IN  IF at = {} THEN [h |-> h, b |-> Null]
      ELSE LET l == CHOOSE l \in at : TRUE  b == Head(h.blocks[l])
           IN  [h |-> remove_free_block(h, b, l), b |-> b]
block_prepare_used(h, b, size) ==
  IF b = Null THEN [h |-> h, p |-> Null]
  ELSE [h |-> block_mark_as_used(block_trim_free(h, b, size), b), p |-> ToPtr(b)]

tlsf_malloc(h, size) ==
  LET adjust == adjust_request_size(size, 1)
      found  == block_locate_free(h, adjust)
  IN  block_prepare_used(found.h, found.b, adjust)

Gap(p, align) ==
  LET gap  == AlignUp(p, align) - p
      next == AlignUp(AlignUp(p, align) + Most(HEADER - gap, align), align)
  IN  IF gap > 0 /\ gap < HEADER THEN next - p ELSE gap
\* What memalign looks for, so that a gap fits in.
Wide(adjust, align) ==
  IF adjust > 0 /\ align > 1 THEN adjust_request_size(adjust + align + HEADER, align) ELSE adjust
tlsf_memalign(h, align, size) ==
  LET adjust == adjust_request_size(size, 1)
      found  == block_locate_free(h, Wide(adjust, align))
      gap    == Gap(ToPtr(found.b), align)
      lead   == IF found.b # Null /\ gap > 0 THEN block_trim_free_leading(found.h, found.b, gap) ELSE found
  IN  block_prepare_used(lead.h, lead.b, adjust)

tlsf_free(h, p) ==
  LET prev == block_merge_prev(block_mark_as_free(h, FromPtr(p)), FromPtr(p))
  IN  block_insert(block_merge_next(prev.h, prev.b), prev.b)

\* Faulty: grows in place whether or not the block behind is free.
ReallocInPlace(h, p, size) ==
  LET b      == FromPtr(p)
      next   == h.blk[block_next(h, b)]
      adjust == adjust_request_size(size, 1)
      moved  == tlsf_malloc(h, size)
      grown  == IF adjust > h.blk[b].size THEN block_mark_as_used(block_merge_next(h, b), b) ELSE h
  IN  IF adjust > h.blk[b].size + next.size + OVERHEAD
      THEN IF moved.p = Null THEN moved ELSE [h |-> tlsf_free(moved.h, p), p |-> moved.p]
      ELSE [h |-> block_trim_used(grown, b, adjust), p |-> p]
\* For a size and a pointer that are not null.
tlsf_realloc(h, p, size) ==
  LET b      == FromPtr(p)
      next   == h.blk[block_next(h, b)]
      adjust == adjust_request_size(size, 1)
      moved  == tlsf_malloc(h, size)
      grown  == IF adjust > h.blk[b].size THEN block_mark_as_used(block_merge_next(h, b), b) ELSE h
  IN  IF adjust > h.blk[b].size /\ (~next.free \/ adjust > h.blk[b].size + next.size + OVERHEAD)
      THEN IF moved.p = Null THEN moved ELSE [h |-> tlsf_free(moved.h, p), p |-> moved.p]
      ELSE [h |-> block_trim_used(grown, b, adjust), p |-> p]

control_construct ==
  [blk |-> << >>, blocks |-> [at \in FlIndex \X SlIndex |-> <<>>], fl_bitmap |-> {}, sl_bitmap |-> [i \in FlIndex |-> {}]]
\* One free block over the pool, whose header starts a word before it, and a
\* sentinel of size zero at its end.
FirstBlock == -OVERHEAD
tlsf_add_pool(h) ==
  LET size == PoolWords - 2 * OVERHEAD
      last == FirstBlock + START + size - OVERHEAD
  IN  block_insert([h EXCEPT !.blk = [x \in {FirstBlock, last} |->
        IF x = last THEN [size |-> 0, free |-> FALSE, prevfree |-> TRUE, prev |-> FirstBlock]
        ELSE [size |-> size, free |-> TRUE, prevfree |-> FALSE, prev |-> Null]]], FirstBlock)

(***************************************************************************)
(* tlsf_check and tlsf_check_pool find nothing wrong.                      *)
(***************************************************************************)
ListsAccurate(h) ==
  \A i \in FlIndex, j \in SlIndex :
    /\ i \notin h.fl_bitmap => j \notin h.sl_bitmap[i]
    /\ j \in h.sl_bitmap[i] <=> h.blocks[<<i, j>>] # <<>>
    /\ \A k \in DOMAIN h.blocks[<<i, j>>] :
         LET b == h.blocks[<<i, j>>][k]  next == h.blk[block_next(h, b)]
         IN  /\ h.blk[b].free /\ ~h.blk[b].prevfree
             /\ ~next.free /\ next.prevfree
             /\ h.blk[b].size >= MIN_SIZE /\ mapping_insert(h.blk[b].size) = <<i, j>>
PoolCorrect(h) ==
  \A b \in DOMAIN h.blk :
    h.blk[b].size > 0 => /\ block_next(h, b) \in DOMAIN h.blk
                         /\ h.blk[block_next(h, b)].prevfree = h.blk[b].free
================================================================================
