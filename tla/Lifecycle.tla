-------------------------------- MODULE Lifecycle --------------------------------
(***************************************************************************)
(* What task_create, task_exit and task_wait promise together, with no     *)
(* lists, no queues and no CPU: a thread lives, exits once with a code,    *)
(* and disappears when the last thread that waited for it has the code.    *)
(***************************************************************************)
CONSTANTS Thread, first, Code, None

VARIABLES
  phase,    (* "absent", "alive" or "exited"                               *)
  code,     (* the exit code of an exited thread                           *)
  waitsFor, (* the thread a call of task_wait waits for                    *)
  got       (* the code the thread's last task_wait returned               *)

vars == <<phase, code, waitsFor, got>>

Init ==
  /\ phase = [t \in Thread |-> IF t = first THEN "alive" ELSE "absent"]
  /\ code = [t \in Thread |-> None]
  /\ waitsFor = [t \in Thread |-> None]
  /\ got = [t \in Thread |-> None]

Create(t) ==
  /\ phase[t] = "absent"
  /\ phase' = [phase EXCEPT ![t] = "alive"]
  /\ UNCHANGED <<code, waitsFor, got>>

(* A thread inside task_wait cannot exit.                                  *)
Exit(t, c) ==
  /\ phase[t] = "alive" /\ waitsFor[t] = None
  /\ phase' = [phase EXCEPT ![t] = "exited"]
  /\ code' = [code EXCEPT ![t] = c]
  /\ UNCHANGED <<waitsFor, got>>

BeginWait(w, t) ==
  /\ phase[w] = "alive" /\ waitsFor[w] = None
  /\ phase[t] = "alive"
  /\ waitsFor' = [waitsFor EXCEPT ![w] = t]
  /\ UNCHANGED <<phase, code, got>>

(* task_wait returns the code of a thread that has exited.  The thread     *)
(* disappears if nobody else is waiting for it.                            *)
EndWait(w, t) ==
  /\ phase[w] = "alive" /\ waitsFor[w] \in {None, t}
  /\ phase[t] = "exited"
  /\ waitsFor' = [waitsFor EXCEPT ![w] = None]
  /\ IF \E u \in Thread \ {w} : waitsFor[u] = t
     THEN /\ got' = [got EXCEPT ![w] = code[t]]
          /\ UNCHANGED <<phase, code>>
     ELSE /\ got' = [got EXCEPT ![w] = code[t], ![t] = None]
          /\ phase' = [phase EXCEPT ![t] = "absent"]
          /\ code' = [code EXCEPT ![t] = None]

Next ==
  \E t \in Thread :
    \/ Create(t)
    \/ \E c \in Code : Exit(t, c)
    \/ \E w \in Thread : BeginWait(w, t) \/ EndWait(w, t)

Spec == Init /\ [][Next]_vars

================================================================================
