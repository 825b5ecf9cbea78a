--------------------------------- MODULE Priority ---------------------------------
(***************************************************************************)
(* The multilevel feedback scheduler: the arithmetic of schedule()         *)
(* (src/kernel/task.c), isr_timer (timer.c) and setpriority, exactly as    *)
(* the kernel computes it in 24.8 fixed point (fixedptc.h), for a fixed    *)
(* set of user threads.  Module Scheduler abstracts it to "some READY      *)
(* thread".                                                                *)
(***************************************************************************)
EXTENDS Scheduler, FiniteSets, SequencesExt

CONSTANTS
  Order,       (* the user threads in the order of the thread list         *)
  Busy,        (* the threads that run when they only compute              *)
  Nice,        (* the values of nice those start with                      *)
  Settable,    (* the priorities setpriority is called with                *)
  Sleepers,    (* the threads that sleep and are woken                     *)
  StartTicks,  (* g_timer_ticks when the first user thread is created: any *)
               (* value, task0 has been running alone                      *)
  EndTick      (* bound: time stops here, unless the threads only compute  *)

HZ == 100
TASK_TIMESLICE_DEFAULT == 4
NZERO == 20
PRI_USER_MAX == 127

Thread == Range(Order)
Tasks == Thread \cup {task0}

ASSUME PriorityAssumption ==
  /\ Order \in Seq(Thread) /\ NoDuplicates(Order)
  /\ task0 \notin Thread
  /\ Busy \subseteq Thread
  /\ Nice \subseteq -NZERO .. NZERO - 1
  /\ Settable \subseteq Int
  /\ Sleepers \subseteq Thread
  /\ StartTicks \subseteq 0 .. HZ - 1
  /\ EndTick \in 0 .. HZ

VARIABLES
  state,       (* tcb.state of every thread; task0 is always READY         *)
  nice,        (* tcb.nice                                                 *)
  estcpu,      (* tcb.estcpu, in 1/256                                     *)
  timeslice,   (* tcb.timeslice                                            *)
  ticks,       (* g_timer_ticks, of which only the value modulo HZ is used *)
  load_avg,    (* g_load_avg, in 1/256                                     *)
  computing    (* chosen once: TRUE if the threads are those of Busy and   *)
               (* nothing but the timer happens                            *)

vars == <<running, resched, state, nice, estcpu, timeslice, ticks, load_avg, computing>>

--------------------------------------------------------------------------------
(* fixedptc.h.  The product is shifted right, which rounds down; the       *)
(* quotient is C's, which rounds towards zero.                             *)
ONE == 256
FromInt(i) == i * ONE
ToInt(f) == f \div ONE
Mul(a, b) == (a * b) \div ONE
Quot(a, b) == IF a >= 0 THEN a \div b ELSE -((-a) \div b)
Divide(a, b) == Quot(a * ONE, b)

(* Faulty: the dynamic priority leaves out the recent use of the CPU.      *)
PriorityStatic(est, n) == PRI_USER_MAX - n * 2

(* The dynamic priority schedule() computes for every thread.              *)
PriorityOf(est, n) == PRI_USER_MAX - ToInt(Divide(est, FromInt(4))) - n * 2
Priorities(est) == [t \in Tasks |-> PriorityOf(est[t], nice[t])]

(* Faulty: the comparison of schedule() the wrong way round.               *)
SelectLowest(current, st, est) ==
  LET pri == Priorities(est)
      best[i \in 0 .. Len(Order)] ==
        IF i = 0 THEN current
        ELSE IF st[Order[i]] = "READY" /\ (pri[Order[i]] < pri[best[i - 1]] \/ best[i - 1] = task0)
             THEN Order[i] ELSE best[i - 1]
  IN  IF st[best[Len(Order)]] = "READY" THEN best[Len(Order)] ELSE task0

(* schedule(): scan the list after task0, starting from the current        *)
(* thread; the first of the READY threads with the highest priority wins,  *)
(* and the current one wins ties.  If it wins without being READY, task0   *)
(* runs.  Better is a round of the loop.                                   *)
Better(best, t, st, pri) ==
  IF st[t] = "READY" /\ (pri[t] > pri[best] \/ best = task0) THEN t ELSE best
Scan(current, st, pri) ==
  LET best[i \in 0 .. Len(Order)] ==
        IF i = 0 THEN current ELSE Better(best[i - 1], Order[i], st, pri)
  IN  best[Len(Order)]
Select(current, st, est) ==
  LET best == Scan(current, st, Priorities(est))
  IN  IF st[best] = "READY" THEN best ELSE task0

SwitchTo(next, flag) ==
  /\ running' = next
  /\ resched' = (flag /\ next = running)

(* isr_timer, once a second when a user thread runs: estcpu decays by      *)
(* 2L / (2L + 1), and the load average L moves by 1/60 towards the number  *)
(* of READY threads, task0 included.                                       *)
Decayed(est, n) ==
  LET twice == Mul(2 * ONE, load_avg)
      ratio == Divide(twice, twice + ONE)
  IN  Mul(ratio, est) + FromInt(n)

NewLoad(nready) ==
  Mul(Divide(FromInt(59), FromInt(60)), load_avg)
    + Mul(Divide(ONE, FromInt(60)), FromInt(nready))

Init ==
  /\ running = task0
  /\ resched = FALSE
  /\ computing \in BOOLEAN
  /\ state = [t \in Tasks |-> IF computing /\ t \in Thread \ Busy THEN "WAITING" ELSE "READY"]
  /\ nice \in IF computing THEN {[t \in Tasks |-> IF t \in Busy THEN n[t] ELSE 0] : n \in [Busy -> Nice]}
               ELSE {[t \in Tasks |-> 0]}
  /\ estcpu = [t \in Tasks |-> 0]
  /\ timeslice = [t \in Tasks |-> TASK_TIMESLICE_DEFAULT]
  /\ ticks \in IF computing THEN {0} ELSE StartTicks
  /\ load_avg = 0

(* Faulty: isr_timer() does not set g_resched for task0.                   *)
TickIdleQuiet ==
  /\ running = task0
  /\ computing \/ ticks # EndTick
  /\ ticks' = (ticks + 1) % HZ
  /\ IF resched THEN SwitchTo(Select(running, state, estcpu), TRUE)
                ELSE UNCHANGED <<running, resched>>
  /\ UNCHANGED <<state, nice, estcpu, timeslice, load_avg, computing>>

(* isr_timer() while task0 runs only asks for a reschedule.                *)
TickIdle ==
  /\ running = task0
  /\ computing \/ ticks # EndTick
  /\ ticks' = (ticks + 1) % HZ
  /\ SwitchTo(Select(running, state, estcpu), TRUE)
  /\ UNCHANGED <<state, nice, estcpu, timeslice, load_avg, computing>>

(* Faulty (ChargedNobody): the running thread is not charged.              *)
(* isr_timer() while a user thread runs: charge it, decay once a second,   *)
(* count down its time slice.  schedule() then sees the new estcpu.        *)
ChargedNobody ==
  IF ticks' = 0 THEN [t \in Tasks |-> Decayed(estcpu[t], nice[t])] ELSE estcpu

Charged ==
  LET charged == [estcpu EXCEPT ![running] = @ + ONE]
  IN  IF ticks' = 0
      THEN [t \in Tasks |-> Decayed(charged[t], nice[t])]
      ELSE charged

TickUser ==
  /\ running # task0
  /\ computing \/ ticks # EndTick
  /\ ticks' = (ticks + 1) % HZ
  /\ estcpu' = Charged
  /\ load_avg' = IF ticks' = 0
                 THEN NewLoad(Cardinality({t \in Tasks : state[t] = "READY"}))
                 ELSE load_avg
  /\ LET expired == timeslice[running] <= 1
     IN  /\ timeslice' = [timeslice EXCEPT ![running] =
                            IF expired THEN TASK_TIMESLICE_DEFAULT ELSE @ - 1]
         /\ IF resched \/ expired
            THEN SwitchTo(Select(running, state, estcpu'), TRUE)
            ELSE UNCHANGED <<running, resched>>
  /\ UNCHANGED <<state, nice, computing>>

Yield ==
  /\ ~computing
  /\ running # task0
  /\ SwitchTo(Select(running, state, estcpu), resched)
  /\ UNCHANGED <<state, nice, estcpu, timeslice, ticks, load_avg, computing>>

(* sleep_on() and the wake_up() of some other thread or interrupt.         *)
Sleep ==
  /\ ~computing
  /\ running \in Sleepers
  /\ state' = [state EXCEPT ![running] = "WAITING"]
  /\ SwitchTo(Select(running, state', estcpu), resched)
  /\ UNCHANGED <<nice, estcpu, timeslice, ticks, load_avg, computing>>

Wake(t) ==
  /\ ~computing
  /\ state[t] = "WAITING"
  /\ state' = [state EXCEPT ![t] = "READY"]
  /\ UNCHANGED <<running, resched, nice, estcpu, timeslice, ticks, load_avg, computing>>

(* setpriority(): range check, then nice = prio - NZERO; no reschedule.    *)
SetPriority(t, prio) ==
  /\ ~computing
  /\ running # task0
  /\ prio \in 0 .. 2 * NZERO - 1
  /\ nice' = [nice EXCEPT ![t] = prio - NZERO]
  /\ UNCHANGED <<running, resched, state, estcpu, timeslice, ticks, load_avg, computing>>

(* Another interrupt: HWINT calls schedule() if g_resched is still set.    *)
OtherIrq ==
  /\ ~computing
  /\ IF resched THEN SwitchTo(Select(running, state, estcpu), TRUE)
               ELSE UNCHANGED <<running, resched>>
  /\ UNCHANGED <<state, nice, estcpu, timeslice, ticks, load_avg, computing>>

Tick == TickIdle \/ TickUser

Next ==
  \/ Tick
  \/ Yield
  \/ Sleep
  \/ OtherIrq
  \/ \E t \in Thread : Wake(t)
  \/ \E t \in Tasks, prio \in Settable : SetPriority(t, prio)

(* The timer never stops.                                                  *)
Spec == Init /\ [][Next]_vars /\ WF_vars(Tick)

--------------------------------------------------------------------------------
(* No thread that only computes starves, whatever its nice value.          *)
NoStarvation == \A t \in Busy : []<>(computing => running = t)

(* Among threads of the same nice value the CPU goes round: their recent   *)
(* use never differs by more than two time slices, and 2/256 of a tick     *)
(* because C rounds a negative estcpu up and a positive one down.          *)
EqualShares ==
  \A t, u \in Busy :
    computing /\ nice[t] = nice[u] =>
      estcpu[t] - estcpu[u] <= FromInt(2 * TASK_TIMESLICE_DEFAULT) + 2

(* Whoever is switched to has the highest priority of the READY threads,   *)
(* and the choice is one Scheduler allows: what the other modules assume   *)
(* of schedule() is what the arithmetic does.                              *)
ReadyThreads == {t \in Thread : state[t] = "READY"}
SwitchesToHighest ==
  [][running' # running =>
       /\ running' \in Selectable(running, ReadyThreads')
       /\ running' # task0 =>
            \A t \in ReadyThreads' :
              Priorities(estcpu')[t] <= Priorities(estcpu')[running']]_vars

(* task0 gives way at the next tick, whatever kept it on the CPU.          *)
IdleGivesWay ==
  [][running = task0 /\ ticks' # ticks /\ ReadyThreads # {} =>
       running' # task0]_vars

================================================================================
