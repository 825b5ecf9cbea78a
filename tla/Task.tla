---------------------------------- MODULE Task ----------------------------------
(***************************************************************************)
(* The life of a thread: sys_task_create, sys_task_exit, sys_task_wait,    *)
(* sys_task_yield and preemption by interrupts (src/kernel/task.c,         *)
(* timer.c, entry.S).  One CPU: the thread running executes; a step is a   *)
(* stretch of kernel code no interrupt can split.  A thread that gives up  *)
(* the CPU inside sys_task_wait continues there (Resume) the moment it is  *)
(* switched to, with interrupts off.  Exit queues are those of task_wait;  *)
(* semaphores and the keyboard are in modules of their own.                *)
(***************************************************************************)
EXTENDS Scheduler

CONSTANTS
  Tcb,         (* the addresses kmemalign() can return for a struct tcb    *)
  Codes,       (* exit codes                                               *)
  MaxTid,      (* bound: the tid counter stops here                        *)
  Creators,    (* the threads that call task_create, beside task0         *)
  Waiters,     (* the threads that call task_wait                          *)
  StoreFaults, (* whether the store to *pcode_exit can take a page fault   *)
  None         (* no pointer                                               *)

ASSUME TaskAssumption ==
  /\ task0 \in Tcb
  /\ None \notin Tcb /\ None \notin Codes
  /\ MaxTid \in Nat \ {0}
  /\ Creators \subseteq Tcb \ {task0}
  /\ Waiters \subseteq Tcb \ {task0}
  /\ StoreFaults \subseteq BOOLEAN

VARIABLES
  list,      (* g_task_head: the linked threads in list order              *)
  nextTid,   (* the static counter of sys_task_create                      *)
  raced,     (* history: a sys_task_create has stored a counter that       *)
             (* another call had changed since it was loaded               *)
  tid,       (* tcb.tid                                                    *)
  state,     (* tcb.state, "FREE" while the heap owns the memory           *)
  wq_exit,   (* tcb.wq_exit                                                *)
  code_exit, (* tcb.code_exit                                              *)
  pc,        (* where the thread is in a system call                       *)
  ptr,       (* the tcb pointer that system call holds: new, or tsk        *)
  oldTid,    (* the value of the counter sys_task_create has loaded        *)
  result     (* *pcode_exit of the thread's last task_wait                 *)

heap == <<list, nextTid, raced, tid, wq_exit, code_exit>>
locals == <<pc, ptr, oldTid, result>>
vars == <<list, running, resched, nextTid, raced, tid, state, wq_exit, code_exit,
          pc, ptr, oldTid, result>>

(* "user": outside the calls below, interrupts on.  "tid", "link": in      *)
(* sys_task_create, the counter loaded, the tid stored.  "asleep": in      *)
(* sleep_on.  "store": in the page fault the store to *pcode_exit took.    *)
PC == {"user", "tid", "link", "asleep", "store"}

Init ==
  /\ list = <<task0>>
  /\ running = task0
  /\ resched = FALSE
  /\ nextTid = 1
  /\ raced = FALSE
  /\ tid = [t \in Tcb |-> 0]
  /\ state = [t \in Tcb |-> IF t = task0 THEN "READY" ELSE "FREE"]
  /\ wq_exit = [t \in Tcb |-> <<>>]
  /\ code_exit = [t \in Tcb |-> None]
  /\ pc = [t \in Tcb |-> "user"]
  /\ ptr = [t \in Tcb |-> None]
  /\ oldTid = [t \in Tcb |-> 0]
  /\ result = [t \in Tcb |-> None]

--------------------------------------------------------------------------------
(* The threads schedule() considers: linked, not task0, READY.             *)
Ready(st) == {t \in Range(list) : tid[t] # 0 /\ st[t] = "READY"}

(* get_task() searches from the head and stops at the first thread that    *)
(* has the tid.                                                            *)
FirstMatch(id) ==
  {i \in DOMAIN list :
     tid[list[i]] = id /\ \A j \in 1 .. i - 1 : tid[list[j]] # id}
HasTask(id) == FirstMatch(id) # {}
GetTask(id) == list[CHOOSE i \in FirstMatch(id) : TRUE]

(* add_task() appends to the list, remove_task() unlinks.                  *)
AddTask(tasks, new) == Append(tasks, new)
RemoveTask(tasks, tsk) == Unlink(tasks, tsk)

(* task0 only creates the first user thread, then runs cpu_idle for ever.  *)
InUser(t) == running = t /\ pc[t] = "user"

(* sys_task_create() is not a critical section: memory is allocated, the   *)
(* counter is loaded, the tid and the incremented counter are stored, and  *)
(* only then are interrupts turned off to link the thread.                 *)
CreateAlloc(t, new) ==
  /\ InUser(t)
  /\ t \in Creators \/ (t = task0 /\ nextTid = 1)
  /\ nextTid < MaxTid
  /\ state[new] = "FREE"
  /\ state' = [state EXCEPT ![new] = "READY"]
  /\ wq_exit' = [wq_exit EXCEPT ![new] = <<>>]
  /\ code_exit' = [code_exit EXCEPT ![new] = None]
  /\ pc' = [pc EXCEPT ![t] = "tid", ![new] = "user"]
  /\ ptr' = [ptr EXCEPT ![t] = new, ![new] = None]
  /\ oldTid' = [oldTid EXCEPT ![t] = nextTid, ![new] = 0]
  /\ result' = [result EXCEPT ![new] = None]
  /\ UNCHANGED <<list, running, resched, nextTid, raced, tid>>

(* Faulty: the counter goes the wrong way.                                 *)
CreateTidDown(t) ==
  /\ running = t /\ pc[t] = "tid"
  /\ nextTid' = oldTid[t] - 1
  /\ raced' = (raced \/ oldTid[t] # nextTid)
  /\ tid' = [tid EXCEPT ![ptr[t]] = oldTid[t]]
  /\ pc' = [pc EXCEPT ![t] = "link"]
  /\ UNCHANGED <<list, running, resched, state, wq_exit, code_exit,
                 ptr, oldTid, result>>

CreateTid(t) ==
  /\ running = t /\ pc[t] = "tid"
  /\ nextTid' = oldTid[t] + 1
  /\ raced' = (raced \/ oldTid[t] # nextTid)
  /\ tid' = [tid EXCEPT ![ptr[t]] = oldTid[t]]
  /\ pc' = [pc EXCEPT ![t] = "link"]
  /\ UNCHANGED <<list, running, resched, state, wq_exit, code_exit,
                 ptr, oldTid, result>>

CreateLink(t) ==
  /\ running = t /\ pc[t] = "link"
  /\ list' = AddTask(list, ptr[t])
  /\ pc' = [pc EXCEPT ![t] = "user"]
  /\ ptr' = [ptr EXCEPT ![t] = None]
  /\ oldTid' = [oldTid EXCEPT ![t] = 0]
  /\ UNCHANGED <<running, resched, nextTid, raced, tid, state, wq_exit, code_exit,
                 result>>

(* Faulty: the exit code is not kept.                                      *)
ExitForgetsCode(t, code) ==
  /\ InUser(t) /\ t # task0
  /\ state' = [u \in Tcb |->
                 IF u = t THEN "ZOMBIE"
                 ELSE IF u \in Woken(wq_exit[t], -1) THEN "READY"
                 ELSE state[u]]
  /\ Schedule(Ready(state'), resched)
  /\ UNCHANGED <<list, nextTid, raced, tid, wq_exit, code_exit>>
  /\ UNCHANGED locals

(* sys_task_exit(): wake every waiter, become a zombie, never return.      *)
Exit(t, code) ==
  /\ InUser(t) /\ t # task0
  /\ code_exit' = [code_exit EXCEPT ![t] = code]
  /\ state' = [u \in Tcb |->
                 IF u = t THEN "ZOMBIE"
                 ELSE IF u \in Woken(wq_exit[t], -1) THEN "READY"
                 ELSE state[u]]
  /\ Schedule(Ready(state'), resched)
  /\ UNCHANGED <<list, nextTid, raced, tid, wq_exit>>
  /\ UNCHANGED locals

(* Faulty: reap whoever else waits; free the tcb but leave it linked.      *)
ReapAlways(tsk, queue) ==
  /\ list' = RemoveTask(list, tsk)
  /\ state' = [state EXCEPT ![tsk] = "FREE"]

ReapLinked(tsk, queue) ==
  /\ UNCHANGED list
  /\ state' = [state EXCEPT ![tsk] = IF queue = <<>> THEN "FREE" ELSE @]

(* The tail of sys_task_wait(), interrupts off: when the exit queue is     *)
(* empty, unlink and free the thread.  (kfree runs after interrupts are on *)
(* again; nothing can reach the block in between.)                         *)
Reap(tsk, queue) ==
  IF queue = <<>>
  THEN /\ list' = RemoveTask(list, tsk)
       /\ state' = [state EXCEPT ![tsk] = "FREE"]
  ELSE UNCHANGED <<list, state>>

(* *pcode_exit = tsk->code_exit.  The page fault handler turns interrupts  *)
(* on, so when the store faults the rest of the call is a later step.      *)
StoreCode(t, tsk, queue) ==
  /\ result' = [result EXCEPT ![t] = code_exit[tsk]]
  /\ \E fault \in StoreFaults :
       IF fault
       THEN /\ pc' = [pc EXCEPT ![t] = "store"]
            /\ ptr' = [ptr EXCEPT ![t] = tsk]
            /\ UNCHANGED <<list, state>>
       ELSE /\ pc' = [pc EXCEPT ![t] = "user"]
            /\ ptr' = [ptr EXCEPT ![t] = None]
            /\ Reap(tsk, queue)

(* Faulty: sys_task_wait() without the test of tsk->state.                 *)
WaitUnchecked(t, id) ==
  /\ InUser(t) /\ t \in Waiters /\ id # 0
  /\ HasTask(id)
  /\ StoreCode(t, GetTask(id), wq_exit[GetTask(id)])
  /\ UNCHANGED <<running, resched, nextTid, raced, tid, wq_exit, code_exit, oldTid>>

(* sys_task_wait(id) of a thread that has exited does not sleep.           *)
WaitZombie(t, id) ==
  /\ InUser(t) /\ t \in Waiters /\ id # 0
  /\ HasTask(id)
  /\ state[GetTask(id)] = "ZOMBIE"
  /\ StoreCode(t, GetTask(id), wq_exit[GetTask(id)])
  /\ UNCHANGED <<running, resched, nextTid, raced, tid, wq_exit, code_exit, oldTid>>

(* sys_task_wait(id) of a live thread: sleep_on(&tsk->wq_exit).            *)
WaitSleep(t, id) ==
  /\ InUser(t) /\ t \in Waiters /\ id # 0
  /\ HasTask(id)
  /\ state[GetTask(id)] # "ZOMBIE"
  /\ LET tsk == GetTask(id)
     IN  /\ wq_exit' = [wq_exit EXCEPT ![tsk] = Link(@, t)]
         /\ ptr' = [ptr EXCEPT ![t] = tsk]
  /\ pc' = [pc EXCEPT ![t] = "asleep"]
  /\ state' = [state EXCEPT ![t] = "WAITING"]
  /\ Schedule(Ready(state'), resched)
  /\ UNCHANGED <<list, nextTid, raced, tid, code_exit, oldTid, result>>

(* schedule() returns to a sleeper: unlink the node, then the rest of      *)
(* sys_task_wait.                                                          *)
Resume(t) ==
  /\ running = t /\ pc[t] = "asleep"
  /\ LET queue == Unlink(wq_exit[ptr[t]], t)
     IN  /\ wq_exit' = [wq_exit EXCEPT ![ptr[t]] = queue]
         /\ StoreCode(t, ptr[t], queue)
  /\ UNCHANGED <<running, resched, nextTid, raced, tid, code_exit, oldTid>>

(* The faulting store is done: test the queue and reap, as above.          *)
StoreDone(t) ==
  /\ running = t /\ pc[t] = "store"
  /\ Reap(ptr[t], wq_exit[ptr[t]])
  /\ pc' = [pc EXCEPT ![t] = "user"]
  /\ ptr' = [ptr EXCEPT ![t] = None]
  /\ UNCHANGED <<running, resched, nextTid, raced, tid, wq_exit, code_exit, oldTid,
                 result>>

(* sys_task_yield(); task0 never calls it.                                 *)
Yield(t) ==
  /\ InUser(t) /\ t # task0
  /\ Schedule(Ready(state), resched)
  /\ UNCHANGED <<heap, state, locals>>

(* A hardware interrupt: the timer's, or one whose handler leaves the      *)
(* threads alone.                                                          *)
Interrupt(set) ==
  /\ pc[running] # "asleep"
  /\ ReturnFromInterrupt(Ready(state), set)
  /\ UNCHANGED <<heap, state, locals>>

Timer == \E set \in TimerSets : Interrupt(set)
OtherIrq == Interrupt(FALSE)

Next ==
  \/ \E t \in Tcb :
       \/ \E new \in Tcb : CreateAlloc(t, new)
       \/ CreateTid(t)
       \/ CreateLink(t)
       \/ \E code \in Codes : Exit(t, code)
       \/ \E id \in 1 .. MaxTid : WaitZombie(t, id) \/ WaitSleep(t, id)
       \/ Resume(t)
       \/ StoreDone(t)
       \/ Yield(t)
  \/ Timer
  \/ OtherIrq

Spec == Init /\ [][Next]_vars

--------------------------------------------------------------------------------
(* Types of the variables.                                                 *)
TypeOK ==
  /\ list \in Seq(Tcb)
  /\ running \in Tcb
  /\ resched \in BOOLEAN
  /\ nextTid \in 0 .. MaxTid
  /\ raced \in BOOLEAN
  /\ tid \in [Tcb -> 0 .. MaxTid]
  /\ state \in [Tcb -> {"FREE", "READY", "WAITING", "ZOMBIE"}]
  /\ wq_exit \in [Tcb -> Seq(Tcb)]
  /\ code_exit \in [Tcb -> Codes \cup {None}]
  /\ pc \in [Tcb -> PC]
  /\ ptr \in [Tcb -> Tcb \cup {None}]
  /\ oldTid \in [Tcb -> 0 .. MaxTid]
  /\ result \in [Tcb -> Codes \cup {None}]

(* A wait queue node is on the kernel stack of its thread: each exit queue *)
(* holds, once each, the threads that sleep in task_wait for that tcb, and *)
(* no others.  (sleep_on pushes, the sleeper itself unlinks: task.c:88.)   *)
QueuesHoldSleepers ==
  \A tsk \in Tcb :
    /\ NoDuplicates(wq_exit[tsk])
    /\ Range(wq_exit[tsk]) = {t \in Tcb : pc[t] = "asleep" /\ ptr[t] = tsk}

(* A thread asleep in task_wait is made READY by the exit of the thread it *)
(* waits for and by nothing else: no waiter is forgotten, none is woken    *)
(* early (sys_task_exit wakes before it becomes a zombie, task.c:244).     *)
WokenByExit ==
  \A t \in Tcb : pc[t] = "asleep" =>
    state[t] = IF state[ptr[t]] = "ZOMBIE" THEN "READY" ELSE "WAITING"

(* Whoever waits holds a pointer to a thread that is still linked, and is  *)
(* linked and not a zombie itself: reaping (task.c:285-291) never frees a  *)
(* tcb a waiter will read, nor the stack a queue node lives on.            *)
NoDangling ==
  \A t \in Tcb : pc[t] \in {"asleep", "store"} =>
    /\ ptr[t] \in Range(list) \ {task0}
    /\ t \in Range(list)
    /\ state[t] # "ZOMBIE"

(* The CPU never runs a thread that sleeps, has exited or was freed:       *)
(* schedule() selects READY threads or task0, and task0 stays READY.       *)
CpuRunsReady ==
  /\ state[running] = "READY"
  /\ running \in Range(list)
  /\ state[task0] = "READY"

(* The thread list: task0 first and never removed, no tcb twice, every     *)
(* linked tcb allocated; an allocated tcb that is not linked is the one    *)
(* some sys_task_create, and only one, is about to link.                   *)
ListSound ==
  /\ list # <<>> /\ list[1] = task0
  /\ NoDuplicates(list)
  /\ \A t \in Range(list) : state[t] # "FREE"
  /\ \A t \in Tcb : state[t] # "FREE" /\ t \notin Range(list) =>
       \E u \in Tcb :
         /\ pc[u] \in {"tid", "link"} /\ ptr[u] = t
         /\ \A v \in Tcb \ {u} : pc[v] \in {"tid", "link"} => ptr[v] # t

(* Task implements Lifecycle: whatever the interleaving, task_wait returns *)
(* the code of a thread that has exited, every exited thread is reaped by  *)
(* the last of its waiters and by no other.                                *)
Phase(t) ==
  IF t \notin Range(list) THEN "absent"
  ELSE IF state[t] = "ZOMBIE" THEN "exited" ELSE "alive"

lifePhase == [t \in Tcb |-> Phase(t)]
lifeCode == [t \in Tcb |-> IF Phase(t) = "exited" THEN code_exit[t] ELSE None]
lifeWaitsFor == [t \in Tcb |-> IF pc[t] = "asleep" THEN ptr[t] ELSE None]
lifeGot == [t \in Tcb |-> IF Phase(t) = "absent" THEN None ELSE result[t]]

LC == INSTANCE Lifecycle WITH
        Thread <- Tcb, first <- task0, Code <- Codes, None <- None,
        phase <- lifePhase, code <- lifeCode,
        waitsFor <- lifeWaitsFor, got <- lifeGot

ImplementsLifecycle == LC!Spec

(* A linked thread can be named by its tid alone: no other linked thread   *)
(* has it (kernel.h:88 calls tid the "task id"; task_wait and get_task     *)
(* look a thread up by it).                                                *)
UniqueTids ==
  \A t, u \in Range(list) : tid[t] = tid[u] => t = u

(* The race on the counter (task.c:208) is the only way to a shared id:    *)
(* creations may overlap, threads may end, be reaped and give their memory *)
(* to others, but two linked threads have one id only after some call of   *)
(* sys_task_create has stored a counter that another had moved meanwhile.  *)
SharedOnlyAfterRace == ~raced => UniqueTids

(* task_wait waits for the end of thread tid (task.c:256): the tcb it      *)
(* removes and frees is that of a thread that has exited.                  *)
ReapOnlyExited ==
  [][\A t \in Tcb : t \in Range(list) /\ t \notin Range(list)' =>
       state[t] = "ZOMBIE"]_vars

================================================================================
