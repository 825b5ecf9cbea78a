-------------------------------- MODULE Scheduler --------------------------------
(***************************************************************************)
(* The CPU: which thread runs, and when schedule() is asked for another    *)
(* (src/kernel/task.c, entry.S, timer.c).  The modules of the blocking     *)
(* primitives extend this one and say which threads are READY.             *)
(***************************************************************************)
EXTENDS WaitQueue

CONSTANT task0   (* the idle thread, created by init_task                  *)

VARIABLES
  running,       (* g_task_running                                         *)
  resched        (* g_resched                                              *)

(* Faulty: schedule() without its last resort, task0.                      *)
SelectableNoIdle(current, ready) ==
  IF current = task0 /\ ready # {} THEN ready ELSE ready \cup {current}

(* schedule() compares the dynamic priorities of the READY user threads    *)
(* with that of the current one.  Priorities (nice, recent CPU use) are    *)
(* abstracted here: Selectable is the set of threads that some assignment  *)
(* of priorities makes it select; module Priority computes them.  The scan *)
(* starts with select = current, so when a thread that is about to sleep   *)
(* or to exit has a priority no READY thread exceeds, select stays equal   *)
(* to it and task0 gets the CPU although others are READY.                 *)
Selectable(current, ready) ==
  IF current = task0
  THEN IF ready = {} THEN {task0} ELSE ready
  ELSE IF current \in ready THEN ready ELSE ready \cup {task0}

(* schedule(), called with the READY user threads and g_resched = flag.    *)
(* It clears g_resched only on the path that switches: when the current    *)
(* thread is selected again it returns early.                              *)
Schedule(ready, flag) ==
  \E next \in Selectable(running, ready) :
    /\ running' = next
    /\ resched' = (flag /\ next = running)

(* What HWINT does after the handler: schedule() if g_resched is set, which *)
(* the handler may have done.                                              *)
ReturnFromInterrupt(ready, set) ==
  IF resched \/ set
  THEN Schedule(ready, TRUE)
  ELSE UNCHANGED <<running, resched>>

(* isr_timer sets g_resched when task0 runs, and when the running thread   *)
(* has used up its time slice: at some ticks, here at any.                 *)
TimerSets == IF running = task0 THEN {TRUE} ELSE BOOLEAN

================================================================================
