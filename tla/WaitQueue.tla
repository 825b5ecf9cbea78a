------------------------------- MODULE WaitQueue -------------------------------
(***************************************************************************)
(* What sleep_on(), wake_up() and the other singly linked lists of the     *)
(* kernel do to their nodes (src/kernel/task.c).  A list is the sequence   *)
(* of its nodes, the head first; a wait queue node is named by its thread. *)
(***************************************************************************)
EXTENDS Integers, Sequences, Functions

(* sleep_on() links its node, which lives on the sleeper's kernel stack,   *)
(* in front of the queue.                                                  *)
Link(q, t) == <<t>> \o q

(* Faulty: without the loop that searches behind the head.                 *)
UnlinkHeadOnly(q, t) == IF q # <<>> /\ Head(q) = t THEN Tail(q) ELSE q

(* sleep_on() after schedule() returns, and remove_task(): unlink the node *)
(* of t; the others keep their order.                                      *)
Unlink(q, t) ==
  IF t \in Range(q)
  THEN LET i == CHOOSE i \in DOMAIN q : q[i] = t
       IN  [j \in 1 .. Len(q) - 1 |-> IF j < i THEN q[j] ELSE q[j + 1]]
  ELSE q

(* Faulty: n > 0 for the loop condition n, or no condition on n.           *)
WokenPositive(q, n) == {q[i] : i \in {j \in DOMAIN q : j <= n}}
WokenAll(q, n) == Range(q)

(* The threads wake_up(&q, n) makes READY: those of the first n nodes, of  *)
(* all nodes when n < 0.  It counts nodes whose thread it has already made *)
(* READY as well, and unlinks none: a node goes when its thread runs.      *)
Woken(q, n) == {q[i] : i \in {j \in DOMAIN q : n < 0 \/ j <= n}}

(* A list links no node twice.                                             *)
NoDuplicates(q) == \A i, j \in DOMAIN q : q[i] = q[j] => i = j

================================================================================
