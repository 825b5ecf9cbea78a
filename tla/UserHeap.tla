-------------------------------- MODULE UserHeap --------------------------------
(***************************************************************************)
(* malloc(), calloc(), realloc() and free() of src/userapp/myalloc.c, as   *)
(* functions of the heap h = [chunks, mem]: the chunk list, head first,    *)
(* each chunk named by the address of its header, and what the memory      *)
(* holds.  Addresses and sizes are in units; a header takes Header of      *)
(* them.  __main() (src/userapp/main.c:36) maps Pool of them.  The first   *)
(* chunk's size is all of it, its header in it too, so the last chunk ends *)
(* a header behind the mapping.                                            *)
(***************************************************************************)
EXTENDS Integers, Sequences, SequencesExt, FiniteSetsExt

CONSTANTS
  Header,    \* sizeof(struct chunk)
  Pool       \* heap_size

NULL == 0
OSEX == -1           \* a unit of a header
Garbage == -2        \* a unit nobody has written

tlsf_create_with_pool ==
  [chunks |-> <<[at |-> 0, used |-> FALSE, size |-> Pool]>>,
   mem |-> [a \in 0 .. Pool - 1 |-> IF a < Header THEN OSEX ELSE Garbage]]

Pointer(chunk) == chunk.at + Header
IndexOf(h, ptr) == CHOOSE i \in DOMAIN h.chunks : Pointer(h.chunks[i]) = ptr
\* What lies behind the end of the mapping belongs to somebody else.
Stored(mem, at, cells) ==
  [a \in DOMAIN mem |-> IF a - at + 1 \in DOMAIN cells THEN cells[a - at + 1] ELSE mem[a]]
Loaded(mem, a) == IF a \in DOMAIN mem THEN mem[a] ELSE Garbage

\* The call touches what is not the heap's: the header of a chunk cut off, or
\* one of the blocks it clears or copies, n units of each, ends behind it.
Outside(h, blocks, n) == Last(h.chunks).at + Header > Pool \/ \E ptr \in blocks : ptr + n > Pool

\* First fit, 0 if there is none.
find_free_block(h, size) ==
  LET fit == {i \in DOMAIN h.chunks : h.chunks[i].size >= size /\ ~h.chunks[i].used}
  IN  IF fit = {} THEN 0 ELSE Min(fit)

malloc(h, size) ==
  LET k == find_free_block(h, size)
      a == h.chunks[k]
      freesize == a.size - size - Header
      first == [at |-> a.at, used |-> TRUE, size |-> size]
      new == [at |-> Pointer(a) + size, used |-> FALSE, size |-> freesize]
  IN  IF size = 0 \/ k = 0 THEN [h |-> h, ptr |-> NULL]
      ELSE IF freesize <= 0 THEN [h |-> [h EXCEPT !.chunks = [@ EXCEPT ![k].used = TRUE]], ptr |-> Pointer(a)]
      ELSE [h |-> [chunks |-> InsertAt([h.chunks EXCEPT ![k] = first], k + 1, new),
                   mem |-> Stored(h.mem, new.at, [i \in 1 .. Header |-> OSEX])],
            ptr |-> Pointer(a)]

\* Faulty: the headers in between are lost.
WeightBare(chunk) == chunk.size
\* The chunk at the head takes in the free ones that follow it.
Weight(chunk) == chunk.size + Header
Merged(chunks) ==
  LET inUse == {i \in DOMAIN chunks : chunks[i].used}
      run == IF inUse = {} THEN Len(chunks) ELSE Min(inUse) - 1
      size[i \in 1 .. run] == IF i = 1 THEN chunks[1].size ELSE size[i - 1] + Weight(chunks[i])
  IN  IF run = 0 THEN chunks
      ELSE <<[chunks[1] EXCEPT !.size = size[run]]>> \o SubSeq(chunks, run + 1, Len(chunks))

\* What lies in a free chunk is forgotten: nobody may rely on it.
Forgotten(chunks, mem) ==
  LET InChunk(a, chunk) == a >= chunk.at /\ a < (IF chunk.used THEN Pointer(chunk) + chunk.size ELSE Pointer(chunk))
  IN  [a \in DOMAIN mem |-> IF \E i \in DOMAIN chunks : InChunk(a, chunks[i]) THEN mem[a] ELSE Garbage]

free(h, ptr) ==
  LET chunks == Merged([h.chunks EXCEPT ![IndexOf(h, ptr)].used = FALSE])
  IN  IF ptr = NULL THEN h ELSE [chunks |-> chunks, mem |-> Forgotten(chunks, h.mem)]

\* The copy runs upwards and as far as the new block asked for, beyond the
\* end of the old one where that is shorter.
Moved(mem, to, from, n) ==
  LET copied[i \in 0 .. n - 1] ==
        IF from + i - to \in 0 .. i - 1 THEN copied[from + i - to] ELSE Loaded(mem, from + i)
  IN  Stored(mem, to, [i \in 1 .. n |-> copied[i - 1]])

\* With no room for the new block the program dies: it looks for the header in
\* front of NULL.
realloc(h, oldptr, size) ==
  LET r == malloc(h, size)
      chunk == r.h.chunks[IndexOf(r.h, r.ptr)]
      csize == IF chunk.size > size THEN size ELSE chunk.size
  IN  IF size = 0 THEN [h |-> free(h, oldptr), ptr |-> NULL, dead |-> FALSE]
      ELSE IF oldptr = NULL THEN [h |-> r.h, ptr |-> r.ptr, dead |-> FALSE]
      ELSE IF r.ptr = NULL THEN [h |-> h, ptr |-> NULL, dead |-> TRUE]
      ELSE [h |-> free([r.h EXCEPT !.mem = Moved(@, r.ptr, oldptr, csize)], oldptr), ptr |-> r.ptr, dead |-> FALSE]

calloc(h, num, size) ==
  LET r == malloc(h, num * size)
  IN  IF r.ptr = NULL THEN r
      ELSE [h |-> [r.h EXCEPT !.mem = Stored(@, r.ptr, [i \in 1 .. num * size |-> 0])], ptr |-> r.ptr]
================================================================================
