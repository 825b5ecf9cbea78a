---------------------------------- MODULE Heap ----------------------------------
(***************************************************************************)
(* What an allocator promises: every block handed out lies in the pool,    *)
(* shares no word with another one that is still held, begins where its    *)
(* holder asked it to, and keeps its place until its holder gives it back  *)
(* or asks for another size.                                               *)
(***************************************************************************)
EXTENDS Integers

CONSTANTS
  Words,     \* the words of the pool
  Sizes,     \* the sizes that are asked for
  Aligns     \* the boundaries that are asked for
VARIABLES
  live,      \* the blocks held: address -> words asked for
  asked      \* the boundary the last call asked for

Region(p, n) == p .. p + n - 1
Fits(p, n, others) ==
  /\ Region(p, n) \subseteq Words
  /\ \A q \in DOMAIN others : Region(p, n) \cap Region(q, others[q]) = {}
Without(p) == [q \in DOMAIN live \ {p} |-> live[q]]
With(f, p, n) == [q \in DOMAIN f \cup {p} |-> IF q = p THEN n ELSE f[q]]

Init == live = [p \in {} |-> 0] /\ asked = 1
Alloc == \E p \in Words \ DOMAIN live, n \in Sizes :
           /\ asked' \in {1} \cup Aligns /\ p % asked' = 0
           /\ live' = With(live, p, n) /\ Fits(p, n, live)
Free == \E p \in DOMAIN live : live' = Without(p)
Resize == \E p \in DOMAIN live, q \in Words, n \in Sizes :
            /\ q = p \/ q \notin DOMAIN live
            /\ live' = With(Without(p), q, n)
            /\ Fits(q, n, Without(p))
Refuse == asked' \in {1} \cup Aligns /\ UNCHANGED live
Next == Alloc \/ ((Free \/ Resize) /\ asked' = 1) \/ Refuse
Spec == Init /\ [][Next]_<<live, asked>>
================================================================================
