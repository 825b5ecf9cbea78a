-------------------------------- MODULE Semaphore --------------------------------
(***************************************************************************)
(* The counting semaphores of src/kernel/sem.c: the list of those that     *)
(* exist, the calls that create, destroy, take and signal one, the threads *)
(* blocked in them, and the scheduler.  A negative value counts threads    *)
(* that wait.                                                              *)
(*                                                                         *)
(* The list is changed and walked with interrupts on.  Here one thread,    *)
(* Owner, changes it, destroys a semaphore only when no thread is in a     *)
(* call for it, and no thread walks the list meanwhile: the walk of        *)
(* get_semaphore() is part of the step that begins a call.                 *)
(***************************************************************************)
EXTENDS Scheduler, FiniteSets

CONSTANTS
  Thread,       (* the user threads                                        *)
  Owner,        (* the one that creates and destroys semaphores            *)
  Sem,          (* memory for semaphores                                   *)
  Values,       (* the values they are created with                        *)
  MaxIds,       (* bound: semaphores created                               *)
  MaxPosted,    (* bound: signals per semaphore                            *)
  None

ASSUME SemaphoreAssumption ==
  /\ IsFiniteSet(Thread) /\ Owner \in Thread
  /\ task0 \notin Thread
  /\ None \notin Sem \cup Nat
  /\ Values \subseteq Nat
  /\ MaxPosted \in Nat /\ MaxIds \in Nat

VARIABLES
  state,     (* tcb.state of the user threads                              *)
  sems,      (* sem_first: the list, in its order                          *)
  semid,     (* sem->semid; None: free memory                              *)
  nextid,    (* the counter in sys_sem_create                              *)
  value,     (* sem->value                                                 *)
  waitqueue, (* sem->waitqueue                                             *)
  pc,        (* the call a thread is in, once it knows its semaphore       *)
  sem,       (* that semaphore                                             *)
  known,     (* history: semid -> the semaphore created as this            *)
  initial,   (* history: the value it was created with                     *)
  posted,    (* history: completed calls of sys_sem_signal                 *)
  passed,    (* history: calls of sys_sem_wait that have returned          *)
  wasted     (* history: signals that woke a thread already woken          *)

cpu == <<running, resched, state>>
table == <<sems, semid, nextid, known, initial>>
counts == <<posted, passed, wasted>>
vars == <<cpu, table, value, waitqueue, pc, sem, counts>>

Init ==
  /\ running = task0
  /\ resched = FALSE
  /\ state = [t \in Thread |-> "READY"]
  /\ sems = <<>>
  /\ semid = [s \in Sem |-> None]
  /\ nextid = 0
  /\ value = [s \in Sem |-> 0]
  /\ waitqueue = [s \in Sem |-> <<>>]
  /\ pc = [t \in Thread |-> "user"]
  /\ sem = [t \in Thread |-> None]
  /\ known = [id \in {} |-> None]
  /\ initial = [s \in Sem |-> 0]
  /\ posted = [s \in Sem |-> 0]
  /\ passed = [s \in Sem |-> 0]
  /\ wasted = [s \in Sem |-> 0]

Ready(st) == {t \in Thread : st[t] = "READY"}

(* A thread inside a call for a semaphore, woken or not.                   *)
In(t, s, call) == sem[t] = s /\ pc[t] = call

At(t, call) == running = t /\ pc[t] = call
Goes(t, call, s) == pc' = [pc EXCEPT ![t] = call] /\ sem' = [sem EXCEPT ![t] = s]

--------------------------------------------------------------------------------
(* The first semaphore of this number in the list, None if there is none.  *)
get_semaphore(id) ==
  LET found == {i \in DOMAIN sems : semid[sems[i]] = id}
  IN  IF found = {} THEN None ELSE sems[CHOOSE i \in found : \A j \in found : i <= j]

add_semaphore(s) == Append(sems, s)

(* Faulty: whatever is linked behind the semaphore goes with it.           *)
RemoveRest(s) == SubSeq(sems, 1, (CHOOSE i \in DOMAIN sems : sems[i] = s) - 1)
remove_semaphore(s) == Unlink(sems, s)

(* sys_sem_create(): until the semaphore is linked nobody knows it.  When  *)
(* kmalloc() finds no memory the code stores through NULL: a program that  *)
(* gets there is outside this module.                                      *)
CreateFill(t, s, v) ==
  /\ At(t, "user") /\ t = Owner
  /\ semid[s] = None /\ nextid < MaxIds
  /\ semid' = [semid EXCEPT ![s] = nextid]
  /\ nextid' = nextid + 1
  /\ value' = [value EXCEPT ![s] = v]
  /\ waitqueue' = [waitqueue EXCEPT ![s] = <<>>]
  /\ initial' = [initial EXCEPT ![s] = v]
  /\ posted' = [posted EXCEPT ![s] = 0]
  /\ passed' = [passed EXCEPT ![s] = 0]
  /\ wasted' = [wasted EXCEPT ![s] = 0]
  /\ Goes(t, "create", s)
  /\ UNCHANGED <<cpu, sems, known>>
CreateLink(t) ==
  /\ At(t, "create")
  /\ sems' = add_semaphore(sem[t])
  /\ known' = [id \in DOMAIN known \cup {semid[sem[t]]} |->
                  IF id = semid[sem[t]] THEN sem[t] ELSE known[id]]
  /\ Goes(t, "user", None)
  /\ UNCHANGED <<cpu, semid, nextid, value, waitqueue, initial, counts>>

(* sys_sem_destroy(): unlinked, then freed.                                *)
DestroyUnlink(t, id) ==
  /\ At(t, "user") /\ t = Owner /\ id \in DOMAIN known
  /\ \A u \in Thread : sem[u] # known[id]
  /\ LET s == get_semaphore(id)
     IN  IF s = None THEN UNCHANGED <<sems, pc, sem>>
                     ELSE sems' = remove_semaphore(s) /\ Goes(t, "destroy", s)
  /\ known' = [i \in DOMAIN known \ {id} |-> known[i]]
  /\ UNCHANGED <<cpu, semid, nextid, value, waitqueue, initial, counts>>
DestroyFree(t) ==
  /\ At(t, "destroy")
  /\ semid' = [semid EXCEPT ![sem[t]] = None]
  /\ Goes(t, "user", None)
  /\ UNCHANGED <<cpu, sems, nextid, known, initial, value, waitqueue, counts>>

--------------------------------------------------------------------------------
(* sys_sem_wait() and sys_sem_signal() find the semaphore with interrupts  *)
(* on; a number nobody has returns -1 and changes nothing.                 *)
Find(t, call, id) ==
  /\ At(t, "user") /\ id \in DOMAIN known
  /\ LET s == get_semaphore(id)
     IN  /\ s # None
         /\ call = "signal" => posted[s] + Cardinality({u \in Thread : In(u, s, call)}) < MaxPosted
         /\ Goes(t, call, s)
  /\ UNCHANGED <<cpu, table, value, waitqueue, counts>>

(* sys_sem_wait() when the value was positive: pass.                       *)
WaitPass(t) ==
  /\ At(t, "wait") /\ value[sem[t]] > 0
  /\ value' = [value EXCEPT ![sem[t]] = @ - 1]
  /\ passed' = [passed EXCEPT ![sem[t]] = @ + 1]
  /\ Goes(t, "user", None)
  /\ UNCHANGED <<cpu, table, waitqueue, posted, wasted>>

(* Faulty: the value is not decremented by a thread that sleeps.           *)
WaitSleepUncounted(t) ==
  /\ At(t, "wait") /\ value[sem[t]] <= 0
  /\ waitqueue' = [waitqueue EXCEPT ![sem[t]] = Link(@, t)]
  /\ Goes(t, "asleep", sem[t])
  /\ state' = [state EXCEPT ![t] = "WAITING"]
  /\ Schedule(Ready(state'), resched)
  /\ UNCHANGED <<table, value, counts>>

(* sys_sem_wait() otherwise: sleep_on(&sem->waitqueue).                    *)
WaitSleep(t) ==
  /\ At(t, "wait") /\ value[sem[t]] <= 0
  /\ value' = [value EXCEPT ![sem[t]] = @ - 1]
  /\ waitqueue' = [waitqueue EXCEPT ![sem[t]] = Link(@, t)]
  /\ Goes(t, "asleep", sem[t])
  /\ state' = [state EXCEPT ![t] = "WAITING"]
  /\ Schedule(Ready(state'), resched)
  /\ UNCHANGED <<table, counts>>

(* schedule() returns to the sleeper: its node is unlinked and the call    *)
(* returns, with interrupts off all the while.                             *)
Resume(t) ==
  /\ At(t, "asleep")
  /\ waitqueue' = [waitqueue EXCEPT ![sem[t]] = Unlink(@, t)]
  /\ passed' = [passed EXCEPT ![sem[t]] = @ + 1]
  /\ Goes(t, "user", None)
  /\ UNCHANGED <<cpu, table, value, posted, wasted>>

(* sys_sem_signal(): the node at the head is told, even if it has been.    *)
Signal(t) ==
  LET s == sem[t]
      told == IF value'[s] <= 0 THEN Woken(waitqueue[s], 1) ELSE {}
  IN  /\ At(t, "signal")
      /\ value' = [value EXCEPT ![s] = @ + 1]
      /\ posted' = [posted EXCEPT ![s] = @ + 1]
      /\ state' = [u \in Thread |-> IF u \in told THEN "READY" ELSE state[u]]
      /\ wasted' = [wasted EXCEPT ![s] = @ + Cardinality({u \in told : state[u] = "READY"})]
      /\ Goes(t, "user", None)
      /\ UNCHANGED <<running, resched, table, waitqueue, passed>>

Yield(t) ==
  /\ At(t, "user")
  /\ Schedule(Ready(state), resched)
  /\ UNCHANGED <<state, table, value, waitqueue, pc, sem, counts>>

Interrupt(set) ==
  /\ running \in Thread => pc[running] # "asleep"
  /\ ReturnFromInterrupt(Ready(state), set)
  /\ UNCHANGED <<state, table, value, waitqueue, pc, sem, counts>>

Timer == \E set \in TimerSets : Interrupt(set)
OtherIrq == Interrupt(FALSE)

Next ==
  \/ \E t \in Thread :
       \/ \E s \in Sem, v \in Values : CreateFill(t, s, v)
       \/ CreateLink(t) \/ DestroyFree(t)
       \/ \E id \in 0 .. MaxIds - 1 :
            DestroyUnlink(t, id) \/ \E call \in {"wait", "signal"} : Find(t, call, id)
       \/ WaitPass(t) \/ WaitSleep(t) \/ Signal(t)
       \/ Resume(t)
       \/ Yield(t)
  \/ Timer
  \/ OtherIrq

Spec == Init /\ [][Next]_vars

--------------------------------------------------------------------------------
Sleepers(s) == {t \in Thread : In(t, s, "asleep") /\ state[t] = "WAITING"}

(* sem->value accounts for every call: what was posted, minus what was     *)
(* passed, minus the threads asleep in sys_sem_wait, woken or not.  So no  *)
(* more calls pass than the initial value and the signals allow.           *)
ValueAccounts ==
  \A s \in Sem :
    value[s] = initial[s] + posted[s] - passed[s]
                 - Cardinality({t \in Thread : In(t, s, "asleep")})

(* The threads that really sleep are those a negative value counts, and    *)
(* one more for every signal spent on a thread that another signal had     *)
(* woken and that had not run yet (task.c:125): such a thread is left to   *)
(* sleep although it was signalled for.  No other wake-up is lost and none *)
(* is given twice.                                                         *)
SleepersExact ==
  \A s \in Sem :
    Cardinality(Sleepers(s)) = (IF value[s] < 0 THEN -value[s] ELSE 0) + wasted[s]

(* A number leads to the semaphore it was given for, whatever has been     *)
(* created, destroyed and created again in the same memory around it.      *)
FindsItsOwn == \A id \in DOMAIN known : get_semaphore(id) = known[id]

================================================================================
