------------------------------- MODULE Task_proofs -------------------------------
(***************************************************************************)
(* Proofs about module Task, for every number of tcbs, exit codes and      *)
(* thread identifiers.                                                     *)
(***************************************************************************)
EXTENDS Task, WaitQueue_proofs

--------------------------------------------------------------------------------
(* get_task() returns a linked thread with the tid it was asked for.       *)
LEMMA GetTaskProperties ==
  ASSUME list \in Seq(Tcb), NEW id, HasTask(id)
  PROVE  /\ GetTask(id) \in Range(list) /\ GetTask(id) \in Tcb
         /\ tid[GetTask(id)] = id
<1> DEFINE k == CHOOSE i \in FirstMatch(id) : TRUE
<1>1. k \in FirstMatch(id)
  BY DEF HasTask
<1>2. k \in DOMAIN list /\ tid[list[k]] = id
  BY <1>1 DEF FirstMatch
<1>3. GetTask(id) = list[k]
  BY DEF GetTask
<1> HIDE DEF k
<1> QED BY <1>2, <1>3 DEF Range

(* schedule() considers linked threads only.                               *)
LEMMA ReadyLinked ==
  ASSUME list \in Seq(Tcb), NEW st
  PROVE  Range(list) \subseteq Tcb /\ Ready(st) \subseteq Range(list)
BY DEF Ready, Range

--------------------------------------------------------------------------------
(* The CPU goes to a READY thread or to task0.                             *)
LEMMA ScheduleProperties ==
  ASSUME NEW ready, NEW flag \in BOOLEAN, Schedule(ready, flag)
  PROVE  running' \in ready \cup {task0} /\ resched' \in BOOLEAN
BY DEF Schedule, Selectable

(* An interrupt leaves the CPU alone or schedules.                         *)
LEMMA InterruptProperties ==
  ASSUME NEW set \in BOOLEAN, Interrupt(set), resched \in BOOLEAN
  PROVE  /\ running' = running \/ running' \in Ready(state) \cup {task0}
         /\ resched' \in BOOLEAN
         /\ UNCHANGED <<heap, state, locals>>
<1>1. CASE resched \/ set
  <2>1. Schedule(Ready(state), TRUE)
    BY <1>1 DEF Interrupt, ReturnFromInterrupt
  <2> QED BY <2>1, ScheduleProperties DEF Interrupt
<1>2. CASE ~(resched \/ set)
  BY <1>2 DEF Interrupt, ReturnFromInterrupt
<1> QED BY <1>1, <1>2

(* The tail of sys_task_wait, typed.                                       *)
LEMMA ReapTyped ==
  ASSUME TypeOK, NEW tsk \in Tcb, NEW queue, Reap(tsk, queue)
  PROVE  /\ list' \in Seq(Tcb)
         /\ state' \in [Tcb -> {"FREE", "READY", "WAITING", "ZOMBIE"}]
<1>1. RemoveTask(list, tsk) \in Seq(Tcb)
  BY UnlinkType DEF TypeOK, RemoveTask
<1> QED BY <1>1 DEF TypeOK, Reap

LEMMA StoreCodeTyped ==
  ASSUME TypeOK, NEW t \in Tcb, NEW tsk \in Tcb, NEW queue,
         StoreCode(t, tsk, queue)
  PROVE  /\ list' \in Seq(Tcb)
         /\ state' \in [Tcb -> {"FREE", "READY", "WAITING", "ZOMBIE"}]
         /\ result' \in [Tcb -> Codes \cup {None}]
         /\ \E fault \in StoreFaults :
              /\ pc' = [pc EXCEPT ![t] = IF fault THEN "store" ELSE "user"]
              /\ ptr' = [ptr EXCEPT ![t] = IF fault THEN tsk ELSE None]
<1>1. result' \in [Tcb -> Codes \cup {None}]
  BY DEF TypeOK, StoreCode
<1>2. PICK fault \in StoreFaults :
        IF fault
        THEN /\ pc' = [pc EXCEPT ![t] = "store"]
             /\ ptr' = [ptr EXCEPT ![t] = tsk]
             /\ UNCHANGED <<list, state>>
        ELSE /\ pc' = [pc EXCEPT ![t] = "user"]
             /\ ptr' = [ptr EXCEPT ![t] = None]
             /\ Reap(tsk, queue)
  BY DEF StoreCode
<1>3. CASE fault
  BY <1>1, <1>2, <1>3 DEF TypeOK
<1>4. CASE ~fault
  BY <1>1, <1>2, <1>4, ReapTyped
<1> QED BY <1>3, <1>4

--------------------------------------------------------------------------------
(* TypeOK is not inductive by itself: a call in progress holds a pointer   *)
(* to a tcb, and the counter it has loaded is below the bound.             *)
Typed ==
  /\ TypeOK
  /\ \A t \in Tcb : /\ pc[t] # "user" => ptr[t] \in Tcb
                    /\ pc[t] = "tid" => oldTid[t] < MaxTid

LEMMA TypedInit == Init => Typed
<1> SUFFICES ASSUME Init PROVE Typed
  OBVIOUS
<1> USE TaskAssumption DEF Init, PC
<1>1. list \in Seq(Tcb) /\ wq_exit \in [Tcb -> Seq(Tcb)]
  OBVIOUS
<1>2. nextTid \in 0 .. MaxTid /\ 0 \in 0 .. MaxTid
  OBVIOUS
<1>3. tid \in [Tcb -> 0 .. MaxTid] /\ oldTid \in [Tcb -> 0 .. MaxTid]
  BY <1>2
<1> QED BY <1>1, <1>2, <1>3 DEF Typed, TypeOK

LEMMA StoreCodeTypes ==
  ASSUME Typed, NEW t \in Tcb, NEW tsk \in Tcb, NEW queue,
         StoreCode(t, tsk, queue), wq_exit' \in [Tcb -> Seq(Tcb)],
         UNCHANGED <<running, resched, nextTid, raced, tid, code_exit, oldTid>>
  PROVE  Typed'
<1>1. PICK fault \in StoreFaults :
        /\ pc' = [pc EXCEPT ![t] = IF fault THEN "store" ELSE "user"]
        /\ ptr' = [ptr EXCEPT ![t] = IF fault THEN tsk ELSE None]
  BY StoreCodeTyped DEF Typed
<1>2. pc' \in [Tcb -> PC] /\ ptr' \in [Tcb -> Tcb \cup {None}]
  BY <1>1 DEF Typed, TypeOK, PC
<1>3. TypeOK'
  <2>1. /\ list' \in Seq(Tcb)
        /\ state' \in [Tcb -> {"FREE", "READY", "WAITING", "ZOMBIE"}]
        /\ result' \in [Tcb -> Codes \cup {None}]
    BY StoreCodeTyped DEF Typed
  <2>2. /\ running' \in Tcb /\ resched' \in BOOLEAN /\ nextTid' \in 0 .. MaxTid
        /\ raced' \in BOOLEAN /\ tid' \in [Tcb -> 0 .. MaxTid]
    BY DEF Typed, TypeOK
  <2>3. oldTid' \in [Tcb -> 0 .. MaxTid] /\ code_exit' \in [Tcb -> Codes \cup {None}]
    BY DEF Typed, TypeOK
  <2> QED BY <1>2, <2>1, <2>2, <2>3 DEF TypeOK
<1>4. \A u \in Tcb : /\ pc'[u] # "user" => ptr'[u] \in Tcb
                     /\ pc'[u] = "tid" => oldTid'[u] < MaxTid
  BY <1>1 DEF Typed, TypeOK
<1> QED BY <1>3, <1>4 DEF Typed

LEMMA TypedNext == Typed /\ [Next]_vars => Typed'
<1> SUFFICES ASSUME Typed, [Next]_vars PROVE Typed'
  OBVIOUS
<1> USE TaskAssumption DEF PC
<1>1. ASSUME NEW t \in Tcb, NEW new \in Tcb, CreateAlloc(t, new)
      PROVE  Typed'
  <2>1. nextTid \in 0 .. MaxTid /\ nextTid < MaxTid /\ 0 \in 0 .. MaxTid
    BY <1>1 DEF Typed, TypeOK, CreateAlloc
  <2>2. oldTid' \in [Tcb -> 0 .. MaxTid]
    BY <1>1, <2>1 DEF Typed, TypeOK, CreateAlloc
  <2>3. /\ wq_exit' \in [Tcb -> Seq(Tcb)]
        /\ state' \in [Tcb -> {"FREE", "READY", "WAITING", "ZOMBIE"}]
    <3>1. wq_exit \in [Tcb -> Seq(Tcb)] /\ wq_exit' = [wq_exit EXCEPT ![new] = <<>>]
      BY <1>1 DEF Typed, TypeOK, CreateAlloc
    <3>2. <<>> \in Seq(Tcb)
      OBVIOUS
    <3>3. wq_exit' \in [Tcb -> Seq(Tcb)]
      BY <3>1, <3>2
    <3> QED BY <3>3, <1>1 DEF Typed, TypeOK, CreateAlloc
  <2>4. /\ pc' \in [Tcb -> PC]
        /\ ptr' \in [Tcb -> Tcb \cup {None}]
    BY <1>1 DEF Typed, TypeOK, CreateAlloc
  <2>5. /\ code_exit' \in [Tcb -> Codes \cup {None}]
        /\ result' \in [Tcb -> Codes \cup {None}]
    BY <1>1 DEF Typed, TypeOK, CreateAlloc
  <2>6. TypeOK'
    BY <1>1, <2>2, <2>3, <2>4, <2>5 DEF Typed, TypeOK, CreateAlloc
  <2>7. \A u \in Tcb : /\ pc'[u] # "user" => ptr'[u] \in Tcb
                       /\ pc'[u] = "tid" => oldTid'[u] < MaxTid
    BY <1>1, <2>1 DEF Typed, TypeOK, CreateAlloc
  <2> QED BY <2>6, <2>7 DEF Typed
<1>2. ASSUME NEW t \in Tcb, CreateTid(t) PROVE Typed'
  <2>1. /\ ptr[t] \in Tcb /\ oldTid[t] \in 0 .. MaxTid /\ oldTid[t] + 1 \in 0 .. MaxTid
    BY <1>2 DEF Typed, TypeOK, CreateTid
  <2>2. tid' \in [Tcb -> 0 .. MaxTid] /\ nextTid' \in 0 .. MaxTid /\ pc' \in [Tcb -> PC]
    BY <1>2, <2>1 DEF Typed, TypeOK, CreateTid
  <2>3. TypeOK'
    BY <1>2, <2>2 DEF Typed, TypeOK, CreateTid
  <2>4. \A u \in Tcb : pc'[u] = (IF u = t THEN "link" ELSE pc[u])
    BY <1>2 DEF Typed, TypeOK, CreateTid
  <2> QED BY <1>2, <2>1, <2>3, <2>4 DEF Typed, CreateTid
<1>3. ASSUME NEW t \in Tcb, CreateLink(t) PROVE Typed'
  <2>1. ptr[t] \in Tcb
    BY <1>3 DEF Typed, CreateLink
  <2>2. list' \in Seq(Tcb)
    BY <1>3, <2>1, AppendProperties DEF Typed, TypeOK, CreateLink, AddTask
  <2>3. 0 \in 0 .. MaxTid
    OBVIOUS
  <2>4. /\ pc' \in [Tcb -> PC] /\ ptr' \in [Tcb -> Tcb \cup {None}]
        /\ oldTid' \in [Tcb -> 0 .. MaxTid]
    BY <1>3, <2>3 DEF Typed, TypeOK, CreateLink
  <2>5. TypeOK'
    BY <1>3, <2>2, <2>4 DEF Typed, TypeOK, CreateLink
  <2>6. \A u \in Tcb : /\ pc'[u] # "user" => ptr'[u] \in Tcb
                       /\ pc'[u] = "tid" => oldTid'[u] < MaxTid
    BY <1>3 DEF Typed, TypeOK, CreateLink
  <2> QED BY <2>5, <2>6 DEF Typed
<1>4. ASSUME NEW t \in Tcb, NEW code \in Codes, Exit(t, code) PROVE Typed'
  <2>1. running' \in Tcb /\ resched' \in BOOLEAN
    BY <1>4, ScheduleProperties, ReadyLinked DEF Exit, Typed, TypeOK
  <2>2. state' \in [Tcb -> {"FREE", "READY", "WAITING", "ZOMBIE"}]
    BY <1>4 DEF Exit, Typed, TypeOK
  <2> QED BY <1>4, <2>1, <2>2 DEF Typed, TypeOK, Exit, locals
<1>5. ASSUME NEW t \in Tcb, NEW id \in 1 .. MaxTid, WaitZombie(t, id)
      PROVE  Typed'
  <2>1. GetTask(id) \in Tcb /\ StoreCode(t, GetTask(id), wq_exit[GetTask(id)])
    BY <1>5, GetTaskProperties DEF WaitZombie, Typed, TypeOK
  <2>2. wq_exit' \in [Tcb -> Seq(Tcb)]
    BY <1>5 DEF WaitZombie, Typed, TypeOK
  <2> QED BY <1>5, <2>1, <2>2, StoreCodeTypes DEF WaitZombie, Typed, TypeOK
<1>6. ASSUME NEW t \in Tcb, NEW id \in 1 .. MaxTid, WaitSleep(t, id)
      PROVE  Typed'
  <2> DEFINE tsk == GetTask(id)
  <2>1. tsk \in Tcb
    BY <1>6, GetTaskProperties DEF WaitSleep, Typed, TypeOK
  <2>2. Link(wq_exit[tsk], t) \in Seq(Tcb)
    BY <2>1, LinkProperties DEF Typed, TypeOK
  <2>3. /\ wq_exit' = [wq_exit EXCEPT ![tsk] = Link(@, t)]
        /\ ptr' = [ptr EXCEPT ![t] = tsk]
    BY <1>6 DEF WaitSleep
  <2> HIDE DEF tsk
  <2>4. wq_exit' \in [Tcb -> Seq(Tcb)]
    BY <2>1, <2>2, <2>3 DEF Typed, TypeOK
  <2>5. running' \in Tcb /\ resched' \in BOOLEAN
    BY <1>6, ScheduleProperties, ReadyLinked DEF WaitSleep, Typed, TypeOK
  <2>6. /\ pc' = [pc EXCEPT ![t] = "asleep"]
        /\ state' = [state EXCEPT ![t] = "WAITING"]
        /\ UNCHANGED <<list, code_exit, oldTid, result>>
    BY <1>6 DEF WaitSleep
  <2>9. UNCHANGED <<nextTid, raced, tid>>
    BY <1>6 DEF WaitSleep
  <2>7. TypeOK'
    <3>1. raced' \in BOOLEAN /\ nextTid' \in 0 .. MaxTid /\ tid' \in [Tcb -> 0 .. MaxTid]
      BY <2>9 DEF Typed, TypeOK
    <3>2. /\ list' \in Seq(Tcb) /\ oldTid' \in [Tcb -> 0 .. MaxTid]
          /\ state' \in [Tcb -> {"FREE", "READY", "WAITING", "ZOMBIE"}]
      BY <2>6 DEF Typed, TypeOK
    <3>3. /\ code_exit' \in [Tcb -> Codes \cup {None}]
          /\ result' \in [Tcb -> Codes \cup {None}]
      BY <2>6 DEF Typed, TypeOK
    <3>4. pc' \in [Tcb -> PC] /\ ptr' \in [Tcb -> Tcb \cup {None}]
      BY <2>1, <2>3, <2>6 DEF Typed, TypeOK
    <3> QED BY <2>4, <2>5, <3>1, <3>2, <3>3, <3>4 DEF TypeOK
  <2>8. \A u \in Tcb : /\ pc'[u] # "user" => ptr'[u] \in Tcb
                       /\ pc'[u] = "tid" => oldTid'[u] < MaxTid
    BY <2>1, <2>3, <2>6 DEF Typed, TypeOK
  <2> QED BY <2>7, <2>8 DEF Typed
<1>7. ASSUME NEW t \in Tcb, Resume(t) PROVE Typed'
  <2> DEFINE queue == Unlink(wq_exit[ptr[t]], t)
  <2>1. ptr[t] \in Tcb
    BY <1>7 DEF Resume, Typed
  <2>2. queue \in Seq(Tcb)
    BY <2>1, UnlinkType DEF Typed, TypeOK
  <2>3. /\ wq_exit' = [wq_exit EXCEPT ![ptr[t]] = queue]
        /\ StoreCode(t, ptr[t], queue)
    BY <1>7 DEF Resume
  <2> HIDE DEF queue
  <2>4. wq_exit' \in [Tcb -> Seq(Tcb)]
    BY <2>1, <2>2, <2>3 DEF Typed, TypeOK
  <2> QED BY <1>7, <2>1, <2>3, <2>4, StoreCodeTypes DEF Resume, Typed, TypeOK
<1>8. ASSUME NEW t \in Tcb, StoreDone(t) PROVE Typed'
  <2>1. ptr[t] \in Tcb /\ Reap(ptr[t], wq_exit[ptr[t]])
    BY <1>8 DEF StoreDone, Typed
  <2> QED BY <1>8, <2>1, ReapTyped DEF Typed, TypeOK, StoreDone
<1>9. ASSUME NEW t \in Tcb, Yield(t) PROVE Typed'
  <2>1. running' \in Tcb /\ resched' \in BOOLEAN
    BY <1>9, ScheduleProperties, ReadyLinked DEF Yield, Typed, TypeOK
  <2> QED BY <1>9, <2>1 DEF Typed, TypeOK, Yield, heap, locals
<1>10. ASSUME NEW set \in BOOLEAN, Interrupt(set) PROVE Typed'
  <2>1. running' \in Tcb /\ resched' \in BOOLEAN
    BY <1>10, InterruptProperties, ReadyLinked DEF Typed, TypeOK
  <2> QED BY <1>10, <2>1 DEF Typed, TypeOK, Interrupt, heap, locals
<1>11. CASE UNCHANGED vars
  BY <1>11 DEF Typed, TypeOK, vars
<1>12. Timer \/ OtherIrq => \E set \in BOOLEAN : Interrupt(set)
  BY DEF Timer, OtherIrq, TimerSets
<1> QED BY <1>1, <1>2, <1>3, <1>4, <1>5, <1>6, <1>7, <1>8, <1>9, <1>10, <1>11,
           <1>12 DEF Next

(* Every variable keeps its type, whether or not the store to *pcode_exit  *)
(* can fault: in particular every pointer a system call dereferences is a  *)
(* tcb, not NULL.                                                          *)
THEOREM TypeCorrect == Spec => []TypeOK
<1>1. Typed => TypeOK
  BY DEF Typed
<1> QED BY <1>1, TypedInit, TypedNext, PTL DEF Spec

--------------------------------------------------------------------------------
(* The safety of task_wait rests on its critical section: either the store *)
(* to *pcode_exit never faults, or a single thread ever waits.             *)
MayFault == TRUE \in StoreFaults
Guarded == MayFault => \A t, u \in Waiters : t = u

(* The inductive invariant.  Linked: the thread list.                      *)
Linked ==
  /\ list # <<>> /\ list[1] = task0
  /\ NoDuplicates(list)
  /\ \A t \in Range(list) : state[t] # "FREE"
  /\ tid[task0] = 0

(* Creating: a tcb that is allocated and not linked is the one that one    *)
(* sys_task_create is about to link.                                       *)
InCreate == {t \in Tcb : pc[t] \in {"tid", "link"}}
Creating ==
  /\ \A t \in InCreate : ptr[t] \notin Range(list) /\ state[ptr[t]] # "FREE"
  /\ \A t, u \in InCreate : ptr[t] = ptr[u] => t = u
  /\ \A t \in Tcb : state[t] # "FREE" /\ t \notin Range(list) =>
       \E u \in InCreate : ptr[u] = t

(* Calling: a thread in a system call is linked and has not exited; one in *)
(* sys_task_wait points to a linked thread, asleep until that exits.       *)
Calling ==
  \A t \in Tcb :
    /\ pc[t] # "user" => t \in Range(list) /\ state[t] # "ZOMBIE"
    /\ pc[t] \in {"asleep", "store"} =>
         t \in Waiters /\ ptr[t] \in Range(list) \ {task0}
    /\ pc[t] = "asleep" =>
         state[t] = IF state[ptr[t]] = "ZOMBIE" THEN "READY" ELSE "WAITING"
    /\ pc[t] = "store" => MayFault /\ state[ptr[t]] = "ZOMBIE"

IInv ==
  /\ Typed /\ Linked /\ Creating /\ Calling
  /\ QueuesHoldSleepers /\ CpuRunsReady

LEMMA IInvInit == Init => IInv
<1> SUFFICES ASSUME Init PROVE IInv
  OBVIOUS
<1> USE TaskAssumption DEF Init
<1>1. Typed
  BY TypedInit
<1>2. list \in Seq(Tcb) /\ DOMAIN list = {1} /\ Range(list) = {task0}
  BY DEF Range
<1>3. Linked
  BY <1>2 DEF Linked, NoDuplicates
<1>4. Creating /\ Calling
  BY <1>2 DEF Creating, InCreate, Calling
<1>5. QueuesHoldSleepers
  BY DEF QueuesHoldSleepers, NoDuplicates, Range
<1>6. CpuRunsReady
  BY <1>2 DEF CpuRunsReady
<1> QED BY <1>1, <1>3, <1>4, <1>5, <1>6 DEF IInv

(* The head of the list is task0.                                          *)
LEMMA TaskZeroLinked == IInv => task0 \in Range(list)
<1> SUFFICES ASSUME IInv PROVE task0 \in Range(list)
  OBVIOUS
<1>1. list \in Seq(Tcb) /\ list # <<>> /\ list[1] = task0
  BY DEF IInv, Typed, TypeOK, Linked
<1>2. 1 \in DOMAIN list
  BY <1>1
<1> QED BY <1>1, <1>2 DEF Range

(* sys_task_create.                                                        *)
LEMMA CreateAllocSafe ==
  ASSUME IInv, Typed', NEW t \in Tcb, NEW new \in Tcb, CreateAlloc(t, new)
  PROVE  IInv'
<1>1. /\ running = t /\ pc[t] = "user" /\ state[new] = "FREE"
      /\ state' = [state EXCEPT ![new] = "READY"]
      /\ wq_exit' = [wq_exit EXCEPT ![new] = <<>>]
      /\ pc' = [pc EXCEPT ![t] = "tid", ![new] = "user"]
      /\ ptr' = [ptr EXCEPT ![t] = new, ![new] = None]
      /\ UNCHANGED <<list, running, tid>>
  BY DEF CreateAlloc, InUser
<1>2. new \notin Range(list) /\ t # new
  BY <1>1 DEF IInv, Linked, CpuRunsReady
<1>3. pc[new] = "user"
  BY <1>2 DEF IInv, Calling
<1>4. /\ \A u \in Tcb \ {t} : pc'[u] = pc[u]
      /\ pc[t] = "user" /\ pc'[t] = "tid"
  <2>1. pc \in [Tcb -> PC]
    BY DEF IInv, Typed, TypeOK
  <2> QED BY <1>1, <1>2, <1>3, <2>1
<1>5. /\ \A u \in Tcb \ {t, new} : ptr'[u] = ptr[u]
      /\ ptr'[t] = new
  <2>1. ptr \in [Tcb -> Tcb \cup {None}]
    BY DEF IInv, Typed, TypeOK
  <2> QED BY <1>1, <1>2, <2>1
<1>6. /\ \A u \in Tcb \ {new} : state'[u] = state[u]
      /\ state[new] = "FREE" /\ state'[new] = "READY"
      /\ \A u \in Tcb \ {new} : wq_exit'[u] = wq_exit[u]
      /\ wq_exit'[new] = <<>>
  <2>1. state \in [Tcb -> {"FREE", "READY", "WAITING", "ZOMBIE"}]
    BY DEF IInv, Typed, TypeOK
  <2>2. wq_exit \in [Tcb -> Seq(Tcb)]
    BY DEF IInv, Typed, TypeOK
  <2> QED BY <1>1, <2>1, <2>2
<1>7. UNCHANGED <<list, running, tid>> /\ running = t
  BY <1>1
<1>8. Linked' /\ CpuRunsReady'
  <2>1. Range(list) \subseteq Tcb
    BY ReadyLinked DEF IInv, Typed, TypeOK
  <2>2. new # task0
    BY <1>6 DEF IInv, CpuRunsReady
  <2> QED BY <1>2, <1>6, <1>7, <2>1, <2>2, TaskAssumption
          DEF IInv, Linked, CpuRunsReady
<1>9. Creating'
  <2>1. InCreate' = InCreate \cup {t}
    BY <1>4 DEF InCreate
  <2>2. \A u \in InCreate :
          /\ ptr[u] # new /\ ptr[u] \in Tcb /\ ptr'[u] = ptr[u]
          /\ u \in Tcb \ {t, new}
    BY <1>3, <1>4, <1>5, <1>6 DEF IInv, Typed, Creating, InCreate
  <2>3. \A u \in InCreate' :
          ptr'[u] \notin Range(list') /\ state'[ptr'[u]] # "FREE"
    BY <1>2, <1>5, <1>6, <1>7, <2>1, <2>2 DEF IInv, Creating
  <2>4. \A u, v \in InCreate' : ptr'[u] = ptr'[v] => u = v
    BY <1>5, <2>1, <2>2 DEF IInv, Creating
  <2>5. ASSUME NEW x \in Tcb, state'[x] # "FREE", x \notin Range(list')
        PROVE  \E u \in InCreate' : ptr'[u] = x
    <3>1. CASE x = new
      BY <1>5, <2>1, <3>1
    <3>2. CASE x # new
      <4>1. PICK u \in InCreate : ptr[u] = x
        BY <1>6, <1>7, <2>5, <3>2 DEF IInv, Creating
      <4> QED BY <2>1, <2>2, <4>1
    <3> QED BY <3>1, <3>2
  <2> QED BY <2>3, <2>4, <2>5 DEF Creating
<1>10. Calling'
  <2>1. \A u \in Tcb : pc[u] \in {"asleep", "store"} => ptr[u] # new
    BY <1>2 DEF IInv, Calling
  <2>2. t \in Range(list) /\ state'[t] = "READY"
    BY <1>2, <1>6, <1>7 DEF IInv, CpuRunsReady
  <2>3. \A u \in Tcb : pc[u] # "user" => u \notin {t, new} /\ ptr[u] \in Tcb
    BY <1>3, <1>4 DEF IInv, Typed
  <2>4. \A u \in Tcb \ {t} : pc'[u] # "user" =>
          /\ pc'[u] = pc[u] /\ ptr'[u] = ptr[u] /\ state'[u] = state[u]
          /\ pc[u] \in {"asleep", "store"} => state'[ptr[u]] = state[ptr[u]]
    BY <1>4, <1>5, <1>6, <2>1, <2>3
  <2> QED BY <1>4, <1>7, <2>2, <2>4 DEF IInv, Calling
<1>11. QueuesHoldSleepers'
  <2>1. \A u, x \in Tcb :
          (pc'[u] = "asleep" /\ ptr'[u] = x) <=> (pc[u] = "asleep" /\ ptr[u] = x)
    BY <1>3, <1>4, <1>5
  <2>2. \A u \in Tcb : ~(pc[u] = "asleep" /\ ptr[u] = new)
    BY <1>2 DEF IInv, Calling
  <2>3. NoDuplicates(<<>>) /\ Range(<<>>) = {}
    BY DEF NoDuplicates, Range
  <2> QED BY <1>6, <2>1, <2>2, <2>3 DEF IInv, QueuesHoldSleepers
<1> QED BY <1>8, <1>9, <1>10, <1>11 DEF IInv

LEMMA CreateTidSafe ==
  ASSUME IInv, Typed', NEW t \in Tcb, CreateTid(t)
  PROVE  IInv'
<1>1. /\ pc[t] = "tid" /\ pc' = [pc EXCEPT ![t] = "link"]
      /\ tid' = [tid EXCEPT ![ptr[t]] = oldTid[t]]
      /\ UNCHANGED <<list, running, state, wq_exit, ptr>>
  BY DEF CreateTid
<1>2. \A u \in Tcb \ {t} : pc'[u] = pc[u]
  BY <1>1 DEF IInv, Typed, TypeOK
<1>3. pc'[t] = "link"
  BY <1>1 DEF IInv, Typed, TypeOK
<1>4. task0 \in Range(list) /\ ptr[t] # task0
  <2> QED BY <1>1, TaskZeroLinked DEF IInv, Creating, InCreate
<1>5. Linked' /\ CpuRunsReady'
  BY <1>1, <1>4, TaskAssumption DEF IInv, Linked, CpuRunsReady, Typed, TypeOK
<1>6. InCreate' = InCreate
  BY <1>1, <1>2, <1>3 DEF InCreate
<1>7. Creating'
  BY <1>1, <1>6 DEF IInv, Creating
<1>8. Calling' /\ QueuesHoldSleepers'
  BY <1>1, <1>2, <1>3 DEF IInv, Calling, QueuesHoldSleepers
<1> QED BY <1>5, <1>7, <1>8 DEF IInv

LEMMA CreateLinkSafe ==
  ASSUME IInv, Typed', NEW t \in Tcb, CreateLink(t)
  PROVE  IInv'
<1>1. /\ pc[t] = "link" /\ ptr[t] \in Tcb
      /\ pc' = [pc EXCEPT ![t] = "user"]
      /\ ptr' = [ptr EXCEPT ![t] = None]
      /\ list' = Append(list, ptr[t])
      /\ UNCHANGED <<running, tid, state, wq_exit>>
  BY DEF CreateLink, AddTask, IInv, Typed
<1>2. t \in InCreate /\ ptr[t] \notin Range(list) /\ state[ptr[t]] # "FREE"
  BY <1>1 DEF IInv, Creating, InCreate
<1>3. /\ Range(list') = Range(list) \cup {ptr[t]}
      /\ NoDuplicates(list')
      /\ list' # <<>> /\ list'[1] = task0
  <2>1. list \in Seq(Tcb)
    BY DEF IInv, Typed, TypeOK
  <2>2. NoDuplicates(list) /\ list # <<>> /\ list[1] = task0
    BY DEF IInv, Linked
  <2> QED BY <1>1, <1>2, <2>1, <2>2, AppendProperties
<1>4. /\ \A u \in Tcb \ {t} : pc'[u] = pc[u] /\ ptr'[u] = ptr[u]
      /\ pc'[t] = "user"
  BY <1>1 DEF IInv, Typed, TypeOK
<1>5. Linked' /\ CpuRunsReady'
  BY <1>1, <1>2, <1>3 DEF IInv, Linked, CpuRunsReady
<1>6. InCreate' = InCreate \ {t}
  BY <1>1, <1>4 DEF InCreate
<1>7. Creating'
  <2>1. \A u \in InCreate : u \in Tcb
    BY DEF InCreate
  <2> QED BY <1>1, <1>2, <1>3, <1>4, <1>6, <2>1 DEF IInv, Creating
<1>8. Calling' /\ QueuesHoldSleepers'
  BY <1>1, <1>3, <1>4 DEF IInv, Calling, QueuesHoldSleepers
<1> QED BY <1>5, <1>7, <1>8 DEF IInv

(* Whatever schedule() does, the CPU runs a READY linked thread.           *)
LEMMA ScheduleSafe ==
  ASSUME IInv, NEW st, st[task0] = "READY",
         running' \in Ready(st) \cup {task0}
  PROVE  running' \in Range(list) /\ st[running'] = "READY"
<1>1. \A t \in Ready(st) : t \in Range(list) /\ st[t] = "READY"
  BY DEF Ready
<1> QED BY <1>1, TaskZeroLinked

(* sys_task_exit.                                                          *)
LEMMA ExitSafe ==
  ASSUME IInv, Typed', NEW t \in Tcb, NEW code \in Codes, Exit(t, code)
  PROVE  IInv'
<1>1. /\ running = t /\ pc[t] = "user" /\ t # task0
      /\ state' = [u \in Tcb |->
                    IF u = t THEN "ZOMBIE"
                    ELSE IF u \in Woken(wq_exit[t], -1) THEN "READY"
                    ELSE state[u]]
      /\ Schedule(Ready(state'), resched)
      /\ UNCHANGED <<list, tid, wq_exit>>
      /\ UNCHANGED <<pc, ptr, oldTid, result>>
  BY DEF Exit, InUser, locals
<1>2. UNCHANGED <<list, tid, wq_exit, pc, ptr>>
  BY <1>1
<1>3. Woken(wq_exit[t], -1) = {u \in Tcb : pc[u] = "asleep" /\ ptr[u] = t}
  BY WokenProperties DEF IInv, QueuesHoldSleepers
<1>4. /\ state'[t] = "ZOMBIE"
      /\ \A u \in Tcb \ {t} :
           state'[u] = IF pc[u] = "asleep" /\ ptr[u] = t THEN "READY" ELSE state[u]
  BY <1>1, <1>3
<1>5. t \in Range(list) /\ state[t] = "READY" /\ pc[t] = "user"
  BY <1>1 DEF IInv, CpuRunsReady
<1>6. Linked'
  <2>1. Range(list) \subseteq Tcb
    BY ReadyLinked DEF IInv, Typed, TypeOK
  <2> QED BY <1>2, <1>4, <2>1 DEF IInv, Linked
<1>7. Creating'
  <2>1. InCreate' = InCreate
    BY <1>2 DEF InCreate
  <2>2. \A u \in InCreate : ptr[u] \in Tcb /\ ptr[u] # t
    BY <1>5 DEF IInv, Typed, Creating, InCreate
  <2>3. \A x \in Tcb \ {t} : state'[x] # "FREE" /\ x \notin Range(list) =>
          state[x] # "FREE"
    BY <1>4 DEF IInv, Calling
  <2>4. \A x \in Tcb : state[x] # "FREE" => state'[x] # "FREE"
    BY <1>4
  <2> QED BY <1>2, <1>5, <2>1, <2>2, <2>3, <2>4 DEF IInv, Creating
<1>8. Calling'
  <2>1. \A u \in Tcb : pc[u] # "user" => u # t /\ ptr[u] \in Tcb
    BY <1>5 DEF IInv, Typed
  <2>2. \A x \in Tcb : state'[x] = "ZOMBIE" <=> x = t \/ state[x] = "ZOMBIE"
    BY <1>4 DEF IInv, Calling
  <2>3. \A u \in Tcb : pc[u] # "user" => state'[u] # "ZOMBIE"
    BY <2>1, <2>2 DEF IInv, Calling
  <2>4. \A u \in Tcb : pc[u] = "asleep" =>
          state'[u] = IF state'[ptr[u]] = "ZOMBIE" THEN "READY" ELSE "WAITING"
    BY <1>4, <2>1, <2>2 DEF IInv, Calling
  <2>5. \A u \in Tcb : pc[u] = "store" => state'[ptr[u]] = "ZOMBIE"
    BY <2>1, <2>2 DEF IInv, Calling
  <2> QED BY <1>2, <2>3, <2>4, <2>5 DEF IInv, Calling
<1>9. QueuesHoldSleepers'
  BY <1>2 DEF IInv, QueuesHoldSleepers
<1>10. CpuRunsReady'
  <2>1. state'[task0] = "READY"
    BY <1>1, <1>4, TaskAssumption DEF IInv, CpuRunsReady
  <2>2. running' \in Ready(state') \cup {task0}
    BY <1>1, ScheduleProperties DEF IInv, Typed, TypeOK
  <2> QED BY <1>2, <2>1, <2>2, ScheduleSafe DEF CpuRunsReady
<1> QED BY <1>6, <1>7, <1>8, <1>9, <1>10 DEF IInv

(* The thread that task_wait looks up is linked and not task0.             *)
LEMMA GetTaskLinked ==
  ASSUME IInv, NEW id, id # 0, HasTask(id)
  PROVE  GetTask(id) \in Range(list) \ {task0} /\ GetTask(id) \in Tcb
<1>1. list \in Seq(Tcb) /\ tid[task0] = 0
  BY DEF IInv, Typed, TypeOK, Linked
<1> QED BY <1>1, GetTaskProperties

(* sys_task_wait of a live thread.                                         *)
LEMMA WaitSleepSafe ==
  ASSUME IInv, Typed', NEW t \in Tcb, NEW id \in 1 .. MaxTid, WaitSleep(t, id)
  PROVE  IInv'
<1> DEFINE tsk == GetTask(id)
<1>1. /\ running = t /\ pc[t] = "user" /\ t \in Waiters
      /\ HasTask(id) /\ id # 0 /\ state[tsk] # "ZOMBIE"
      /\ wq_exit' = [wq_exit EXCEPT ![tsk] = Link(@, t)]
      /\ ptr' = [ptr EXCEPT ![t] = tsk]
      /\ pc' = [pc EXCEPT ![t] = "asleep"]
      /\ state' = [state EXCEPT ![t] = "WAITING"]
      /\ Schedule(Ready(state'), resched)
      /\ UNCHANGED <<list, tid>>
  BY DEF WaitSleep, InUser
<1>2. tsk \in Range(list) \ {task0} /\ tsk \in Tcb
  BY <1>1, GetTaskLinked
<1> HIDE DEF tsk
<1>3. /\ \A u \in Tcb \ {t} : pc'[u] = pc[u] /\ ptr'[u] = ptr[u]
      /\ pc'[t] = "asleep" /\ ptr'[t] = tsk
  <2>1. pc \in [Tcb -> PC] /\ ptr \in [Tcb -> Tcb \cup {None}]
    BY DEF IInv, Typed, TypeOK
  <2> QED BY <1>1, <2>1
<1>4. /\ \A u \in Tcb \ {t} : state'[u] = state[u]
      /\ state'[t] = "WAITING"
  <2>1. state \in [Tcb -> {"FREE", "READY", "WAITING", "ZOMBIE"}]
    BY DEF IInv, Typed, TypeOK
  <2> QED BY <1>1, <2>1
<1>5. /\ \A u \in Tcb \ {tsk} : wq_exit'[u] = wq_exit[u]
      /\ wq_exit'[tsk] = Link(wq_exit[tsk], t)
  <2>1. wq_exit \in [Tcb -> Seq(Tcb)]
    BY DEF IInv, Typed, TypeOK
  <2> QED BY <1>1, <1>2, <2>1
<1>6. /\ t \in Range(list) /\ state[t] = "READY" /\ pc[t] = "user"
      /\ t # task0 /\ t \in Waiters
  BY <1>1, TaskAssumption DEF IInv, CpuRunsReady
<1>7. UNCHANGED <<list, tid>>
  BY <1>1
<1>8. Linked'
  <2>1. Range(list) \subseteq Tcb
    BY ReadyLinked DEF IInv, Typed, TypeOK
  <2> QED BY <1>4, <1>7, <2>1 DEF IInv, Linked
<1>9. Creating'
  <2>1. InCreate' = InCreate /\ t \notin InCreate /\ InCreate \subseteq Tcb
    BY <1>3, <1>6 DEF InCreate
  <2>2. \A u \in InCreate : ptr'[u] = ptr[u] /\ ptr[u] \in Tcb
    BY <1>3, <2>1 DEF IInv, Typed, InCreate
  <2>3. \A x \in Tcb : state'[x] # "FREE" <=> state[x] # "FREE"
    BY <1>4, <1>6
  <2> QED BY <1>7, <2>1, <2>2, <2>3 DEF IInv, Creating
<1>10. Calling'
  <2>1. \A x \in Tcb : state'[x] = "ZOMBIE" <=> state[x] = "ZOMBIE"
    BY <1>4, <1>6
  <2>2. \A u \in Tcb : pc[u] # "user" => ptr[u] \in Tcb
    BY DEF IInv, Typed
  <2>3. \A u \in Tcb \ {t} : pc'[u] # "user" =>
          /\ pc'[u] = pc[u] /\ ptr'[u] = ptr[u] /\ state'[u] = state[u]
          /\ state'[u] = "ZOMBIE" <=> state[u] = "ZOMBIE"
          /\ state'[ptr[u]] = "ZOMBIE" <=> state[ptr[u]] = "ZOMBIE"
    BY <1>3, <1>4, <2>1, <2>2
  <2>4. state[tsk] # "ZOMBIE" /\ state'[tsk] # "ZOMBIE"
    BY <1>1, <1>2, <2>1
  <2> QED BY <1>2, <1>3, <1>4, <1>6, <1>7, <2>3, <2>4 DEF IInv, Calling
<1>11. QueuesHoldSleepers'
  <2>1. wq_exit[tsk] \in Seq(Tcb) /\ NoDuplicates(wq_exit[tsk])
        /\ t \notin Range(wq_exit[tsk])
    BY <1>2, <1>6 DEF IInv, Typed, TypeOK, QueuesHoldSleepers
  <2>2. /\ NoDuplicates(wq_exit'[tsk])
        /\ Range(wq_exit'[tsk]) = Range(wq_exit[tsk]) \cup {t}
    BY <1>5, <2>1, LinkProperties
  <2>3. \A x \in Tcb \ {tsk} :
          {u \in Tcb : pc'[u] = "asleep" /\ ptr'[u] = x}
            = {u \in Tcb : pc[u] = "asleep" /\ ptr[u] = x}
    BY <1>3, <1>6
  <2>4. {u \in Tcb : pc'[u] = "asleep" /\ ptr'[u] = tsk}
          = {u \in Tcb : pc[u] = "asleep" /\ ptr[u] = tsk} \cup {t}
    BY <1>3, <1>6
  <2> QED BY <1>2, <1>5, <2>2, <2>3, <2>4 DEF IInv, QueuesHoldSleepers
<1>12. CpuRunsReady'
  <2>1. state'[task0] = "READY"
    BY <1>4, <1>6, TaskAssumption DEF IInv, CpuRunsReady
  <2>2. running' \in Ready(state') \cup {task0}
    BY <1>1, ScheduleProperties DEF IInv, Typed, TypeOK
  <2> QED BY <1>7, <2>1, <2>2, ScheduleSafe DEF CpuRunsReady
<1> QED BY <1>8, <1>9, <1>10, <1>11, <1>12 DEF IInv

(* A thread that is no longer asleep unlinks its node.                     *)
LEMMA LeaveQueue ==
  ASSUME IInv, NEW t \in Tcb, NEW tsk \in Tcb,
         pc[t] # "user" => ptr[t] = tsk, pc'[t] # "asleep",
         \A u \in Tcb \ {t} : pc'[u] = pc[u] /\ ptr'[u] = ptr[u],
         wq_exit'[tsk] = Unlink(wq_exit[tsk], t),
         \A u \in Tcb \ {tsk} : wq_exit'[u] = wq_exit[u]
  PROVE  QueuesHoldSleepers'
<1>1. wq_exit[tsk] \in Seq(Tcb) /\ NoDuplicates(wq_exit[tsk])
  BY DEF IInv, Typed, TypeOK, QueuesHoldSleepers
<1>2. /\ NoDuplicates(wq_exit'[tsk])
      /\ Range(wq_exit'[tsk]) = Range(wq_exit[tsk]) \ {t}
  BY <1>1, UnlinkProperties
<1>3. \A x \in Tcb \ {tsk} :
        {u \in Tcb : pc'[u] = "asleep" /\ ptr'[u] = x}
          = {u \in Tcb : pc[u] = "asleep" /\ ptr[u] = x}
  OBVIOUS
<1>4. {u \in Tcb : pc'[u] = "asleep" /\ ptr'[u] = tsk}
        = {u \in Tcb : pc[u] = "asleep" /\ ptr[u] = tsk} \ {t}
  OBVIOUS
<1> QED BY <1>2, <1>3, <1>4 DEF IInv, QueuesHoldSleepers

(* The three ways back from sys_task_wait: thread t leaves the exit queue  *)
(* of the zombie tsk if it is in it, and reaps tsk if the queue is empty.  *)
LEMMA ReturnSafe ==
  ASSUME IInv, Typed', NEW t \in Tcb, NEW tsk \in Tcb,
         running = t, pc[t] \in {"user", "asleep", "store"},
         pc[t] # "user" => ptr[t] = tsk,
         \A u \in Tcb \ {t} : pc[u] # "store",
         tsk \in Range(list) \ {task0}, state[tsk] = "ZOMBIE",
         wq_exit'[tsk] = Unlink(wq_exit[tsk], t),
         \A u \in Tcb \ {tsk} : wq_exit'[u] = wq_exit[u],
         pc' = [pc EXCEPT ![t] = "user"],
         ptr' = [ptr EXCEPT ![t] = None],
         Reap(tsk, wq_exit'[tsk]),
         running' = running, tid' = tid
  PROVE  IInv'
<1>1. /\ \A u \in Tcb \ {t} : pc'[u] = pc[u] /\ ptr'[u] = ptr[u]
      /\ pc'[t] = "user"
  <2>1. pc \in [Tcb -> PC] /\ ptr \in [Tcb -> Tcb \cup {None}]
    BY DEF IInv, Typed, TypeOK
  <2> QED BY <2>1
<1>2. t \in Range(list) /\ state[t] = "READY" /\ t # tsk
  BY DEF IInv, CpuRunsReady
<1>3. QueuesHoldSleepers'
  BY <1>1, LeaveQueue
<1>4. InCreate' = InCreate /\ InCreate \subseteq Tcb \ {t}
  BY <1>1 DEF InCreate
<1>5. \A u \in InCreate : ptr'[u] = ptr[u] /\ ptr[u] \in Tcb
  BY <1>1, <1>4 DEF IInv, Typed, InCreate
<1>6. \A u \in Tcb : pc[u] # "user" => ptr[u] \in Tcb /\ u # tsk
  BY DEF IInv, Typed, Calling
<1>7. \A u \in Tcb : pc'[u] # "user" =>
        u # t /\ pc'[u] = pc[u] /\ ptr'[u] = ptr[u] /\ pc[u] # "store"
  BY <1>1
<1>8. CASE wq_exit'[tsk] = <<>>
  <2>1. /\ list' = Unlink(list, tsk)
        /\ state' = [state EXCEPT ![tsk] = "FREE"]
    BY <1>8 DEF Reap, RemoveTask
  <2>2. /\ \A u \in Tcb \ {tsk} : state'[u] = state[u]
        /\ state'[tsk] = "FREE"
    <3>1. state \in [Tcb -> {"FREE", "READY", "WAITING", "ZOMBIE"}]
      BY DEF IInv, Typed, TypeOK
    <3> QED BY <2>1, <3>1
  <2>3. /\ Range(list') = Range(list) \ {tsk}
        /\ NoDuplicates(list')
        /\ list' # <<>> /\ list'[1] = task0
    <3>1. list \in Seq(Tcb) /\ NoDuplicates(list)
      BY DEF IInv, Typed, TypeOK, Linked
    <3>2. list # <<>> /\ list[1] = task0 /\ task0 # tsk
      BY DEF IInv, Linked
    <3> QED BY <2>1, <3>1, <3>2, UnlinkProperties
  <2>4. Linked'
    <3>1. Range(list) \subseteq Tcb
      BY ReadyLinked DEF IInv, Typed, TypeOK
    <3>2. tid'[task0] = 0
      BY DEF IInv, Linked
    <3> QED BY <2>2, <2>3, <3>1, <3>2 DEF IInv, Linked
  <2>5. Creating'
    <3>1. \A u \in InCreate : ptr[u] # tsk
      BY DEF IInv, Creating
    <3> QED BY <1>4, <1>5, <2>2, <2>3, <3>1 DEF IInv, Creating
  <2>6. \A u \in Tcb : ~(pc'[u] = "asleep" /\ ptr'[u] = tsk)
    <3>1. Range(<<>>) = {}
      BY DEF Range
    <3> QED BY <1>3, <1>8, <3>1 DEF QueuesHoldSleepers
  <2>7. Calling'
    <3>1. \A u \in Tcb : pc'[u] # "user" =>
            /\ u # tsk /\ state'[u] = state[u] /\ pc'[u] = pc[u]
            /\ ptr'[u] = ptr[u] /\ pc'[u] # "store"
            /\ pc'[u] = "asleep" => ptr[u] # tsk /\ state'[ptr[u]] = state[ptr[u]]
      BY <1>6, <1>7, <2>2, <2>6
    <3> QED BY <2>3, <3>1 DEF IInv, Calling
  <2>8. CpuRunsReady'
    BY <1>2, <2>2, <2>3, TaskAssumption DEF IInv, CpuRunsReady
  <2> QED BY <1>3, <2>4, <2>5, <2>7, <2>8 DEF IInv
<1>9. CASE wq_exit'[tsk] # <<>>
  <2>1. list' = list /\ state' = state
    BY <1>9 DEF Reap
  <2>2. Linked' /\ CpuRunsReady'
    BY <2>1 DEF IInv, Linked, CpuRunsReady
  <2>3. Creating'
    BY <1>4, <1>5, <2>1 DEF IInv, Creating
  <2>4. Calling'
    BY <1>7, <2>1 DEF IInv, Calling
  <2> QED BY <1>3, <2>2, <2>3, <2>4 DEF IInv
<1> QED BY <1>8, <1>9

(* sys_task_wait stopped by a page fault in the store to *pcode_exit.      *)
LEMMA FaultSafe ==
  ASSUME IInv, Typed', NEW t \in Tcb, NEW tsk \in Tcb,
         running = t, pc[t] \in {"user", "asleep"}, t \in Waiters, MayFault,
         pc[t] # "user" => ptr[t] = tsk,
         tsk \in Range(list) \ {task0}, state[tsk] = "ZOMBIE",
         wq_exit'[tsk] = Unlink(wq_exit[tsk], t),
         \A u \in Tcb \ {tsk} : wq_exit'[u] = wq_exit[u],
         pc' = [pc EXCEPT ![t] = "store"],
         ptr' = [ptr EXCEPT ![t] = tsk],
         UNCHANGED <<list, state, running, tid>>
  PROVE  IInv'
<1>1. /\ \A u \in Tcb \ {t} : pc'[u] = pc[u] /\ ptr'[u] = ptr[u]
      /\ pc'[t] = "store" /\ ptr'[t] = tsk
  <2>1. pc \in [Tcb -> PC] /\ ptr \in [Tcb -> Tcb \cup {None}]
    BY DEF IInv, Typed, TypeOK
  <2> QED BY <2>1
<1>2. t \in Range(list) /\ state[t] = "READY"
  BY DEF IInv, CpuRunsReady
<1>3. QueuesHoldSleepers'
  BY <1>1, LeaveQueue
<1>4. Linked' /\ CpuRunsReady'
  BY DEF IInv, Linked, CpuRunsReady
<1>5. Creating'
  <2>1. InCreate' = InCreate /\ InCreate \subseteq Tcb \ {t}
    BY <1>1 DEF InCreate
  <2>2. \A u \in InCreate : ptr'[u] = ptr[u]
    BY <1>1, <2>1
  <2> QED BY <2>1, <2>2 DEF IInv, Creating
<1>6. Calling'
  BY <1>1, <1>2 DEF IInv, Calling
<1> QED BY <1>3, <1>4, <1>5, <1>6 DEF IInv

(* With the critical section guarded, the thread that is in sys_task_wait  *)
(* is the only one that may be stopped in it by a page fault.              *)
LEMMA NobodyElseFaults ==
  ASSUME IInv, Guarded, NEW t \in Waiters
  PROVE  \A u \in Tcb \ {t} : pc[u] # "store"
BY DEF IInv, Calling, Guarded

(* The end of sys_task_wait, in one step or up to the fault.               *)
LEMMA StoreCodeSafe ==
  ASSUME IInv, Typed', Guarded, NEW t \in Tcb, NEW tsk \in Tcb,
         running = t, t \in Waiters, pc[t] \in {"user", "asleep"},
         pc[t] # "user" => ptr[t] = tsk,
         tsk \in Range(list) \ {task0}, state[tsk] = "ZOMBIE",
         wq_exit'[tsk] = Unlink(wq_exit[tsk], t),
         \A u \in Tcb \ {tsk} : wq_exit'[u] = wq_exit[u],
         StoreCode(t, tsk, wq_exit'[tsk]),
         running' = running, tid' = tid
  PROVE  IInv'
<1>1. PICK fault \in StoreFaults :
        IF fault
        THEN /\ pc' = [pc EXCEPT ![t] = "store"]
             /\ ptr' = [ptr EXCEPT ![t] = tsk]
             /\ UNCHANGED <<list, state>>
        ELSE /\ pc' = [pc EXCEPT ![t] = "user"]
             /\ ptr' = [ptr EXCEPT ![t] = None]
             /\ Reap(tsk, wq_exit'[tsk])
  BY DEF StoreCode
<1>2. CASE fault
  <2>1. MayFault
    BY <1>2, TaskAssumption DEF MayFault
  <2>2. /\ pc' = [pc EXCEPT ![t] = "store"]
        /\ ptr' = [ptr EXCEPT ![t] = tsk]
        /\ UNCHANGED <<list, state>>
    BY <1>1, <1>2
  <2> QED BY <2>1, <2>2, FaultSafe
<1>3. CASE ~fault
  <2>1. /\ pc' = [pc EXCEPT ![t] = "user"]
        /\ ptr' = [ptr EXCEPT ![t] = None]
        /\ Reap(tsk, wq_exit'[tsk])
    BY <1>1, <1>3
  <2> QED BY <2>1, NobodyElseFaults, ReturnSafe
<1> QED BY <1>2, <1>3

(* A thread that is not in a queue has nothing to unlink.                  *)
LEMMA NotQueued ==
  ASSUME IInv, NEW t \in Tcb, NEW tsk \in Tcb, pc[t] # "asleep"
  PROVE  Unlink(wq_exit[tsk], t) = wq_exit[tsk]
<1>1. t \notin Range(wq_exit[tsk])
  BY DEF IInv, QueuesHoldSleepers
<1> QED BY <1>1 DEF Unlink

LEMMA WaitZombieSafe ==
  ASSUME IInv, Typed', Guarded, NEW t \in Tcb, NEW id \in 1 .. MaxTid,
         WaitZombie(t, id)
  PROVE  IInv'
<1> DEFINE tsk == GetTask(id)
<1>1. /\ running = t /\ pc[t] = "user" /\ t \in Waiters
      /\ HasTask(id) /\ id # 0 /\ state[tsk] = "ZOMBIE"
      /\ StoreCode(t, tsk, wq_exit[tsk])
      /\ running' = running /\ tid' = tid /\ wq_exit' = wq_exit
  BY DEF WaitZombie, InUser
<1>2. tsk \in Range(list) \ {task0} /\ tsk \in Tcb
  BY <1>1, GetTaskLinked
<1> HIDE DEF tsk
<1>3. wq_exit'[tsk] = Unlink(wq_exit[tsk], t)
  BY <1>1, <1>2, NotQueued
<1> QED BY <1>1, <1>2, <1>3, StoreCodeSafe

(* A sleeper that runs was woken by the exit it waited for.                *)
LEMMA ResumeSafe ==
  ASSUME IInv, Typed', Guarded, NEW t \in Tcb, Resume(t)
  PROVE  IInv'
<1> DEFINE tsk == ptr[t]
<1>1. /\ running = t /\ pc[t] = "asleep"
      /\ wq_exit' = [wq_exit EXCEPT ![tsk] = Unlink(wq_exit[tsk], t)]
      /\ StoreCode(t, tsk, Unlink(wq_exit[tsk], t))
      /\ running' = running /\ tid' = tid
  BY DEF Resume
<1>2. /\ t \in Waiters /\ tsk \in Range(list) \ {task0} /\ tsk \in Tcb
      /\ state[tsk] = "ZOMBIE"
  BY <1>1 DEF IInv, Typed, Calling, CpuRunsReady
<1> HIDE DEF tsk
<1>3. /\ wq_exit'[tsk] = Unlink(wq_exit[tsk], t)
      /\ \A u \in Tcb \ {tsk} : wq_exit'[u] = wq_exit[u]
  <2>1. wq_exit \in [Tcb -> Seq(Tcb)]
    BY DEF IInv, Typed, TypeOK
  <2> QED BY <1>1, <1>2, <2>1
<1>4. pc[t] # "user" => ptr[t] = tsk
  BY DEF tsk
<1> QED BY <1>1, <1>2, <1>3, <1>4, StoreCodeSafe

LEMMA StoreDoneSafe ==
  ASSUME IInv, Typed', Guarded, NEW t \in Tcb, StoreDone(t)
  PROVE  IInv'
<1>1. /\ running = t /\ pc[t] = "store"
      /\ Reap(ptr[t], wq_exit[ptr[t]])
      /\ pc' = [pc EXCEPT ![t] = "user"]
      /\ ptr' = [ptr EXCEPT ![t] = None]
      /\ running' = running /\ tid' = tid /\ wq_exit' = wq_exit
  BY DEF StoreDone
<1>2. /\ t \in Waiters /\ ptr[t] \in Range(list) \ {task0} /\ ptr[t] \in Tcb
      /\ state[ptr[t]] = "ZOMBIE"
  BY <1>1 DEF IInv, Typed, Calling
<1>3. wq_exit'[ptr[t]] = Unlink(wq_exit[ptr[t]], t)
  BY <1>1, <1>2, NotQueued
<1>4. Reap(ptr[t], wq_exit'[ptr[t]])
  BY <1>1
<1> QED BY <1>1, <1>2, <1>3, <1>4, NobodyElseFaults, ReturnSafe

(* Steps that only move the CPU.                                           *)
LEMMA SwitchSafe ==
  ASSUME IInv, Typed', UNCHANGED <<heap, state, locals>>,
         running' = running \/ running' \in Ready(state) \cup {task0}
  PROVE  IInv'
<1>1. UNCHANGED <<list, tid, state, wq_exit, pc, ptr>>
  BY DEF heap, locals
<1>2. Linked' /\ Creating' /\ Calling' /\ QueuesHoldSleepers'
  BY <1>1 DEF IInv, Linked, Creating, InCreate, Calling, QueuesHoldSleepers
<1>3. CpuRunsReady'
  BY <1>1, ScheduleSafe DEF IInv, CpuRunsReady
<1> QED BY <1>2, <1>3 DEF IInv

LEMMA IInvNext == Guarded /\ IInv /\ [Next]_vars => IInv'
<1> SUFFICES ASSUME Guarded, IInv, [Next]_vars PROVE IInv'
  OBVIOUS
<1>1. Typed'
  BY TypedNext DEF IInv
<1>2. ASSUME NEW t \in Tcb, NEW new \in Tcb, CreateAlloc(t, new) PROVE IInv'
  BY <1>1, <1>2, CreateAllocSafe
<1>3. ASSUME NEW t \in Tcb, CreateTid(t) PROVE IInv'
  BY <1>1, <1>3, CreateTidSafe
<1>4. ASSUME NEW t \in Tcb, CreateLink(t) PROVE IInv'
  BY <1>1, <1>4, CreateLinkSafe
<1>5. ASSUME NEW t \in Tcb, NEW code \in Codes, Exit(t, code) PROVE IInv'
  BY <1>1, <1>5, ExitSafe
<1>6. ASSUME NEW t \in Tcb, NEW id \in 1 .. MaxTid, WaitZombie(t, id)
      PROVE  IInv'
  BY <1>1, <1>6, WaitZombieSafe
<1>7. ASSUME NEW t \in Tcb, NEW id \in 1 .. MaxTid, WaitSleep(t, id)
      PROVE  IInv'
  BY <1>1, <1>7, WaitSleepSafe
<1>8. ASSUME NEW t \in Tcb, Resume(t) PROVE IInv'
  BY <1>1, <1>8, ResumeSafe
<1>9. ASSUME NEW t \in Tcb, StoreDone(t) PROVE IInv'
  BY <1>1, <1>9, StoreDoneSafe
<1>10. ASSUME NEW t \in Tcb, Yield(t) PROVE IInv'
  <2>1. running' \in Ready(state) \cup {task0}
    BY <1>10, ScheduleProperties DEF Yield, IInv, Typed, TypeOK
  <2> QED BY <1>1, <1>10, <2>1, SwitchSafe DEF Yield
<1>11. ASSUME NEW set \in BOOLEAN, Interrupt(set) PROVE IInv'
  <2>1. resched \in BOOLEAN
    BY DEF IInv, Typed, TypeOK
  <2> QED BY <1>1, <1>11, <2>1, InterruptProperties, SwitchSafe
<1>12. CASE UNCHANGED vars
  <2>1. UNCHANGED <<heap, state, locals>> /\ running' = running
    BY <1>12 DEF vars, heap, locals
  <2> QED BY <1>1, <2>1, SwitchSafe
<1>13. Timer \/ OtherIrq => \E set \in BOOLEAN : Interrupt(set)
  BY DEF Timer, OtherIrq, TimerSets
<1> QED BY <1>2, <1>3, <1>4, <1>5, <1>6, <1>7, <1>8, <1>9, <1>10, <1>11,
           <1>12, <1>13 DEF Next

--------------------------------------------------------------------------------
(* The invariant holds if the critical section of task_wait is guarded.    *)
THEOREM TaskSafe == Guarded => (Spec => []IInv)
<1>1. ASSUME Guarded PROVE IInv /\ [Next]_vars => IInv'
  BY <1>1, IInvNext
<1> SUFFICES ASSUME Guarded PROVE Spec => []IInv
  OBVIOUS
<1>2. IInv /\ [Next]_vars => IInv'
  BY <1>1
<1> QED BY <1>2, IInvInit, PTL DEF Spec

(* Exit queues and sleepers are the same thing: no sleeper is missing from *)
(* the queue it will be woken through, no node outlives its stack.         *)
THEOREM SleepersQueued == Guarded => (Spec => []QueuesHoldSleepers)
<1>1. IInv => QueuesHoldSleepers
  BY DEF IInv
<1> QED BY <1>1, TaskSafe, PTL

(* A waiter is woken by the exit it waits for and by nothing else.         *)
THEOREM WokenByExitOnly == Guarded => (Spec => []WokenByExit)
<1>1. IInv => WokenByExit
  BY DEF IInv, Calling, WokenByExit
<1> QED BY <1>1, TaskSafe, PTL

(* No waiter's pointer dangles: what it points to is linked, and so is it. *)
THEOREM NoDanglingPointer == Guarded => (Spec => []NoDangling)
<1>1. IInv => NoDangling
  BY DEF IInv, Calling, NoDangling
<1> QED BY <1>1, TaskSafe, PTL

(* The CPU runs READY threads, and there is always one: task0.             *)
THEOREM CpuRunsReadyOnly == Guarded => (Spec => []CpuRunsReady)
<1>1. IInv => CpuRunsReady
  BY DEF IInv
<1> QED BY <1>1, TaskSafe, PTL

(* The list holds allocated tcbs, once each, behind task0; an allocated    *)
(* tcb outside it belongs to exactly one call of sys_task_create.          *)
THEOREM ThreadListSound == Guarded => (Spec => []ListSound)
<1>1. IInv => ListSound
  <2> SUFFICES ASSUME IInv PROVE ListSound
    OBVIOUS
  <2>1. /\ list # <<>> /\ list[1] = task0 /\ NoDuplicates(list)
        /\ \A t \in Range(list) : state[t] # "FREE"
    BY DEF IInv, Linked
  <2>2. ASSUME NEW t \in Tcb, state[t] # "FREE", t \notin Range(list)
        PROVE  \E u \in Tcb :
                 /\ pc[u] \in {"tid", "link"} /\ ptr[u] = t
                 /\ \A v \in Tcb \ {u} : pc[v] \in {"tid", "link"} => ptr[v] # t
    BY <2>2 DEF IInv, Creating, InCreate
  <2> QED BY <2>1, <2>2 DEF ListSound
<1> QED BY <1>1, TaskSafe, PTL

(* sys_task_wait removes from the list, and frees, only threads that have  *)
(* exited.                                                                 *)
LEMMA ReapStep ==
  ASSUME NEW tsk \in Tcb, NEW queue, Reap(tsk, queue) \/ UNCHANGED list,
         list \in Seq(Tcb), NoDuplicates(list), NEW t \in Range(list),
         t \notin Range(list')
  PROVE  t = tsk
<1>1. Range(Unlink(list, tsk)) = Range(list) \ {tsk}
  BY UnlinkProperties
<1> QED BY <1>1 DEF Reap, RemoveTask

LEMMA ReapOnlyExitedStep ==
  IInv /\ [Next]_vars =>
    \A t \in Tcb : t \in Range(list) /\ t \notin Range(list)' =>
      state[t] = "ZOMBIE"
<1> SUFFICES ASSUME IInv, [Next]_vars, NEW t \in Tcb,
                    t \in Range(list), t \notin Range(list')
             PROVE  state[t] = "ZOMBIE"
  OBVIOUS
<1>1. list \in Seq(Tcb) /\ NoDuplicates(list)
  BY DEF IInv, Typed, TypeOK, Linked
<1>2. list' # list
  OBVIOUS
<1>3. ASSUME NEW u \in Tcb, CreateLink(u) PROVE FALSE
  <2>1. ptr[u] \in Tcb /\ list' = Append(list, ptr[u])
    BY <1>3 DEF CreateLink, AddTask, IInv, Typed
  <2> QED BY <1>1, <2>1, AppendProperties
<1>4. ASSUME NEW u \in Tcb, NEW tsk \in Tcb, NEW queue, StoreCode(u, tsk, queue)
      PROVE  t = tsk
  <2>1. Reap(tsk, queue) \/ UNCHANGED list
    BY <1>4 DEF StoreCode
  <2> QED BY <1>1, <2>1, ReapStep
<1>5. ASSUME NEW u \in Tcb, NEW id \in 1 .. MaxTid, WaitZombie(u, id)
      PROVE  state[t] = "ZOMBIE"
  <2>1. GetTask(id) \in Tcb /\ state[GetTask(id)] = "ZOMBIE"
        /\ StoreCode(u, GetTask(id), wq_exit[GetTask(id)])
    BY <1>1, <1>5, GetTaskProperties DEF WaitZombie
  <2> QED BY <1>4, <2>1
<1>6. ASSUME NEW u \in Tcb, Resume(u) PROVE state[t] = "ZOMBIE"
  <2>1. ptr[u] \in Tcb /\ state[ptr[u]] = "ZOMBIE"
    BY <1>6 DEF Resume, IInv, Typed, Calling, CpuRunsReady
  <2>2. StoreCode(u, ptr[u], Unlink(wq_exit[ptr[u]], u))
    BY <1>6 DEF Resume
  <2> QED BY <1>4, <2>1, <2>2
<1>7. ASSUME NEW u \in Tcb, StoreDone(u) PROVE state[t] = "ZOMBIE"
  <2>1. ptr[u] \in Tcb /\ state[ptr[u]] = "ZOMBIE"
    BY <1>7 DEF StoreDone, IInv, Typed, Calling
  <2>2. Reap(ptr[u], wq_exit[ptr[u]])
    BY <1>7 DEF StoreDone
  <2> QED BY <1>1, <2>1, <2>2, ReapStep
<1>8. ASSUME NEW u \in Tcb,
             \/ \E new \in Tcb : CreateAlloc(u, new)
             \/ CreateTid(u)
             \/ \E code \in Codes : Exit(u, code)
             \/ \E id \in 1 .. MaxTid : WaitSleep(u, id)
             \/ Yield(u)
      PROVE  FALSE
  BY <1>2, <1>8 DEF CreateAlloc, CreateTid, Exit, WaitSleep, Yield, heap
<1>9. (Timer \/ OtherIrq \/ UNCHANGED vars) => FALSE
  BY <1>2 DEF Timer, OtherIrq, Interrupt, vars, heap
<1> QED BY <1>3, <1>5, <1>6, <1>7, <1>8, <1>9 DEF Next

(* A thread that leaves the list has exited.                               *)
THEOREM OnlyExitedReaped == Guarded => (Spec => ReapOnlyExited)
<1>1. IInv /\ [Next]_vars =>
        [\A t \in Tcb : t \in Range(list) /\ t \notin Range(list)' =>
           state[t] = "ZOMBIE"]_vars
  BY ReapOnlyExitedStep
<1> QED BY <1>1, TaskSafe, PTL DEF Spec, ReapOnlyExited

--------------------------------------------------------------------------------
(* sys_task_create() increments the counter of task ids with interrupts    *)
(* on.  Until two calls of it meet over the counter, it is ahead of every  *)
(* task id in the list.                                                    *)
TidsBelow == \A t \in Range(list) : tid[t] < nextTid

(* An id that is stored and not linked yet is below the counter too, and   *)
(* nobody else has it: no linked thread, no thread about to be linked.     *)
NewTid ==
  \A t \in Tcb : pc[t] = "link" =>
    /\ tid[ptr[t]] < nextTid
    /\ \A u \in Range(list) : tid[u] # tid[ptr[t]]
    /\ \A u \in Tcb \ {t} : pc[u] = "link" => tid[ptr[u]] # tid[ptr[t]]

TidsFresh == TidsBelow /\ UniqueTids /\ NewTid
TidInv == ~raced => TidsFresh

LEMMA TidInvInit == Init => TidInv /\ ~raced
<1> SUFFICES ASSUME Init PROVE TidInv /\ ~raced
  OBVIOUS
<1>1. Range(list) = {task0} /\ \A t \in Tcb : pc[t] # "link"
  BY DEF Init, Range
<1>2. tid[task0] = 0 /\ nextTid = 1 /\ ~raced
  BY TaskAssumption DEF Init
<1> QED BY <1>1, <1>2 DEF TidInv, TidsFresh, TidsBelow, UniqueTids, NewTid

--------------------------------------------------------------------------------
LEMMA CreateAllocTid ==
  ASSUME IInv, TidInv, NEW t \in Tcb, NEW new \in Tcb, CreateAlloc(t, new)
  PROVE  TidInv'
<1>1. /\ t \in Range(list) /\ pc[t] = "user" /\ state[new] = "FREE"
      /\ pc' = [pc EXCEPT ![t] = "tid", ![new] = "user"]
      /\ ptr' = [ptr EXCEPT ![t] = new, ![new] = None]
      /\ UNCHANGED <<list, nextTid, raced, tid>>
  BY DEF CreateAlloc, InUser, IInv, CpuRunsReady
<1>2. t # new
  BY <1>1 DEF IInv, Linked
<1>3. \A u \in Tcb : pc'[u] = "link" => pc[u] = "link" /\ ptr'[u] = ptr[u]
  BY <1>1, <1>2 DEF IInv, Typed, TypeOK
<1>4. TidsFresh => TidsBelow' /\ UniqueTids'
  BY <1>1 DEF TidsFresh, TidsBelow, UniqueTids
<1>5. TidsFresh => NewTid'
  <2>1. UNCHANGED <<list, nextTid, tid>>
    BY <1>1
  <2> QED BY ONLY <1>3, <2>1 DEF TidsFresh, NewTid
<1> QED BY <1>1, <1>4, <1>5 DEF TidInv, TidsFresh

(* What the call has loaded is still the counter: the id it stores is      *)
(* above all others.                                                       *)
LEMMA CreateTidTid ==
  ASSUME IInv, TidInv, NEW t \in Tcb, CreateTid(t)
  PROVE  TidInv'
<1> SUFFICES ASSUME ~raced' PROVE TidsFresh'
  BY DEF TidInv
<1>1. /\ pc[t] = "tid" /\ pc' = [pc EXCEPT ![t] = "link"]
      /\ nextTid' = nextTid + 1 /\ ~raced
      /\ tid' = [tid EXCEPT ![ptr[t]] = nextTid]
      /\ UNCHANGED <<list, ptr>>
  BY DEF CreateTid
<1>2. TidsFresh
  BY <1>1 DEF TidInv
<1>3. ptr[t] \in Tcb /\ ptr[t] \notin Range(list) /\ Range(list) \subseteq Tcb
  <2>1. Range(list) \subseteq Tcb
    BY ReadyLinked DEF IInv, Typed, TypeOK
  <2> QED BY <1>1, <2>1 DEF IInv, Typed, Creating, InCreate
<1>4. /\ tid'[ptr[t]] = nextTid /\ nextTid \in Nat
      /\ \A u \in Range(list) : tid'[u] = tid[u] /\ tid[u] \in Nat
  BY <1>1, <1>3 DEF IInv, Typed, TypeOK
<1>5. \A u \in Tcb \ {t} : /\ pc'[u] = pc[u]
                           /\ pc[u] = "link" => /\ ptr[u] \in Tcb /\ ptr[u] # ptr[t]
                                                /\ tid'[ptr[u]] = tid[ptr[u]]
                                                /\ tid[ptr[u]] \in Nat
  <2>1. \A u \in Tcb \ {t} : pc'[u] = pc[u]
    BY <1>1 DEF IInv, Typed, TypeOK
  <2>2. \A u \in Tcb \ {t} : pc[u] = "link" => ptr[u] \in Tcb /\ ptr[u] # ptr[t]
    BY <1>1 DEF IInv, Typed, Creating, InCreate
  <2> QED BY <1>1, <2>1, <2>2 DEF IInv, Typed, TypeOK
<1>6. TidsBelow' /\ UniqueTids'
  BY <1>1, <1>2, <1>4 DEF TidsFresh, TidsBelow, UniqueTids
<1>7. NewTid'
  <2>1. \A u \in Tcb \ {t} : pc[u] = "link" => tid[ptr[u]] < nextTid
    BY <1>2 DEF TidsFresh, NewTid
  <2>2. \A u \in Range(list) : tid[u] < nextTid
    BY <1>2 DEF TidsFresh, TidsBelow
  <2> SUFFICES ASSUME NEW u \in Tcb, pc'[u] = "link"
               PROVE  /\ tid'[ptr[u]] < nextTid'
                      /\ \A v \in Range(list) : tid'[v] # tid'[ptr[u]]
                      /\ \A v \in Tcb \ {u} : pc'[v] = "link" => tid'[ptr[v]] # tid'[ptr[u]]
    BY <1>1 DEF NewTid
  <2>3. CASE u = t
    BY <1>1, <1>4, <1>5, <2>1, <2>2, <2>3
  <2>4. CASE u # t
    <3>1. /\ pc[u] = "link" /\ tid'[ptr[u]] = tid[ptr[u]] /\ tid[ptr[u]] \in Nat
          /\ tid[ptr[u]] < nextTid
      BY <1>5, <2>1, <2>4
    <3>2. \A v \in Range(list) : tid[v] # tid[ptr[u]]
      BY <1>2, <3>1 DEF TidsFresh, NewTid
    <3>3. \A v \in Tcb \ {u} : pc[v] = "link" => tid[ptr[v]] # tid[ptr[u]]
      BY <1>2, <3>1 DEF TidsFresh, NewTid
    <3>4. \A v \in Tcb \ {u} : pc'[v] = "link" => tid'[ptr[v]] # tid'[ptr[u]]
      BY <1>4, <1>5, <3>1, <3>3
    <3>5. tid'[ptr[u]] < nextTid'
      BY <1>1, <1>4, <3>1
    <3> QED BY <1>4, <3>1, <3>2, <3>4, <3>5
  <2> QED BY <2>3, <2>4
<1> QED BY <1>6, <1>7 DEF TidsFresh

LEMMA CreateLinkTid ==
  ASSUME IInv, TidInv, NEW t \in Tcb, CreateLink(t)
  PROVE  TidInv'
<1> SUFFICES ASSUME ~raced' PROVE TidsFresh'
  BY DEF TidInv
<1>1. /\ pc[t] = "link" /\ pc' = [pc EXCEPT ![t] = "user"]
      /\ ptr' = [ptr EXCEPT ![t] = None]
      /\ list' = Append(list, ptr[t]) /\ ~raced
      /\ UNCHANGED <<nextTid, tid>>
  BY DEF CreateLink, AddTask
<1>2. TidsFresh
  BY <1>1 DEF TidInv
<1>3. Range(list') = Range(list) \cup {ptr[t]}
  <2>1. list \in Seq(Tcb) /\ ptr[t] \in Tcb
    BY <1>1 DEF IInv, Typed, TypeOK
  <2> QED BY <1>1, <2>1, AppendProperties
<1>4. /\ tid[ptr[t]] < nextTid
      /\ \A u \in Range(list) : tid[u] # tid[ptr[t]]
      /\ \A u \in Tcb \ {t} : pc[u] = "link" => tid[ptr[u]] # tid[ptr[t]]
  BY <1>1, <1>2 DEF TidsFresh, NewTid
<1>5. \A u \in Tcb : pc'[u] = "link" => /\ u # t /\ pc[u] = "link" /\ ptr'[u] = ptr[u]
  BY <1>1 DEF IInv, Typed, TypeOK
<1>6. TidsBelow'
  BY <1>1, <1>2, <1>3, <1>4 DEF TidsFresh, TidsBelow
<1>7. UniqueTids'
  BY <1>1, <1>2, <1>3, <1>4 DEF TidsFresh, UniqueTids
<1>8. NewTid'
  BY <1>1, <1>2, <1>3, <1>4, <1>5 DEF TidsFresh, NewTid
<1> QED BY <1>6, <1>7, <1>8 DEF TidsFresh

--------------------------------------------------------------------------------
(* All other steps leave task ids alone; they may unlink threads.          *)
LEMMA OtherTid ==
  ASSUME TidInv, UNCHANGED <<nextTid, raced, tid>>,
         Range(list') \subseteq Range(list),
         \A u \in Tcb : pc'[u] = "link" => pc[u] = "link" /\ ptr'[u] = ptr[u]
  PROVE  TidInv'
<1>1. TidsFresh => TidsBelow' /\ UniqueTids'
  BY DEF TidsFresh, TidsBelow, UniqueTids
<1>2. TidsFresh => NewTid'
  BY DEF TidsFresh, NewTid
<1> QED BY <1>1, <1>2 DEF TidInv, TidsFresh

LEMMA ReapShrinks ==
  ASSUME IInv, NEW tsk, NEW queue, Reap(tsk, queue) \/ UNCHANGED list
  PROVE  Range(list') \subseteq Range(list)
<1>1. list \in Seq(Tcb) /\ NoDuplicates(list)
  BY DEF IInv, Typed, TypeOK, Linked
<1>2. Range(Unlink(list, tsk)) = Range(list) \ {tsk}
  BY <1>1, UnlinkProperties
<1> QED BY <1>2 DEF Reap, RemoveTask

(* The steps of task_wait move one thread that is not in sys_task_create.  *)
LEMMA WaitTid ==
  ASSUME IInv, TidInv, NEW t \in Tcb, pc[t] \notin {"tid", "link"},
         NEW step \in {"user", "asleep", "store"}, NEW p,
         pc' = [pc EXCEPT ![t] = step], ptr' = [ptr EXCEPT ![t] = p],
         UNCHANGED <<nextTid, raced, tid, oldTid>>,
         Range(list') \subseteq Range(list)
  PROVE  TidInv' /\ InCreate' = InCreate
<1>1. \A u \in Tcb \ {t} : pc'[u] = pc[u] /\ ptr'[u] = ptr[u]
  BY DEF IInv, Typed, TypeOK
<1>2. pc'[t] = step
  BY DEF IInv, Typed, TypeOK
<1>3. InCreate' = InCreate
  BY <1>1, <1>2 DEF InCreate
<1> QED BY <1>1, <1>2, <1>3, OtherTid

LEMMA StoreCodeTid ==
  ASSUME IInv, TidInv, NEW t \in Tcb, pc[t] \notin {"tid", "link"},
         NEW tsk, NEW queue, StoreCode(t, tsk, queue),
         UNCHANGED <<nextTid, raced, tid, oldTid>>
  PROVE  TidInv' /\ InCreate' = InCreate /\ Range(list') \subseteq Range(list)
<1>1. Range(list') \subseteq Range(list)
  BY ReapShrinks DEF StoreCode
<1>2. CASE pc' = [pc EXCEPT ![t] = "store"] /\ ptr' = [ptr EXCEPT ![t] = tsk]
  BY <1>1, <1>2, WaitTid
<1>3. CASE pc' = [pc EXCEPT ![t] = "user"] /\ ptr' = [ptr EXCEPT ![t] = None]
  BY <1>1, <1>3, WaitTid
<1> QED BY <1>1, <1>2, <1>3 DEF StoreCode

(* Every step but those of sys_task_create keeps the ids, the calls of     *)
(* sys_task_create and what they have loaded.                              *)
OutsideCreate ==
  /\ TidInv' /\ InCreate' = InCreate /\ Range(list') \subseteq Range(list)
  /\ UNCHANGED <<nextTid, raced, tid, oldTid>>
  /\ \A u \in InCreate : pc'[u] = pc[u]

(* Steps that leave the list and the calls in progress alone.              *)
LEMMA StillTid ==
  ASSUME TidInv, UNCHANGED <<list, nextTid, raced, tid>>, UNCHANGED locals
  PROVE  OutsideCreate
<1>1. UNCHANGED <<list, nextTid, raced, tid, oldTid, pc, ptr>>
  BY DEF locals
<1>2. TidInv'
  BY <1>1 DEF TidInv, TidsFresh, TidsBelow, UniqueTids, NewTid
<1> QED BY <1>1, <1>2 DEF OutsideCreate, InCreate

LEMMA MoveTid ==
  ASSUME IInv, NEW t \in Tcb, pc[t] \notin {"tid", "link"}, NEW step,
         pc' = [pc EXCEPT ![t] = step]
  PROVE  \A u \in InCreate : pc'[u] = pc[u]
BY DEF InCreate, IInv, Typed, TypeOK

--------------------------------------------------------------------------------
LEMMA TidCases ==
  ASSUME IInv, TidInv, [Next]_vars
  PROVE  \/ \E t, new \in Tcb : CreateAlloc(t, new)
         \/ \E t \in Tcb : CreateTid(t) \/ CreateLink(t)
         \/ OutsideCreate
<1>1. ASSUME NEW t \in Tcb, NEW code \in Codes, Exit(t, code) PROVE OutsideCreate
  BY <1>1, StillTid DEF Exit
<1>2. ASSUME NEW t \in Tcb, NEW id \in 1 .. MaxTid, WaitZombie(t, id)
      PROVE  OutsideCreate
  <2>1. /\ pc[t] = "user" /\ UNCHANGED <<nextTid, raced, tid, oldTid>>
        /\ StoreCode(t, GetTask(id), wq_exit[GetTask(id)])
    BY <1>2 DEF WaitZombie, InUser
  <2>2. \A u \in InCreate : pc'[u] = pc[u]
    BY <2>1, MoveTid DEF StoreCode
  <2> QED BY <2>1, <2>2, StoreCodeTid DEF OutsideCreate
<1>3. ASSUME NEW t \in Tcb, NEW id \in 1 .. MaxTid, WaitSleep(t, id)
      PROVE  OutsideCreate
  <2>1. /\ pc[t] = "user" /\ pc' = [pc EXCEPT ![t] = "asleep"]
        /\ ptr' = [ptr EXCEPT ![t] = GetTask(id)]
        /\ UNCHANGED <<list, nextTid, raced, tid, oldTid>>
    BY <1>3 DEF WaitSleep, InUser
  <2>2. \A u \in InCreate : pc'[u] = pc[u]
    BY <2>1, MoveTid
  <2> QED BY <2>1, <2>2, WaitTid DEF OutsideCreate
<1>4. ASSUME NEW t \in Tcb, Resume(t) PROVE OutsideCreate
  <2>1. /\ pc[t] = "asleep" /\ UNCHANGED <<nextTid, raced, tid, oldTid>>
        /\ StoreCode(t, ptr[t], Unlink(wq_exit[ptr[t]], t))
    BY <1>4 DEF Resume
  <2>2. \A u \in InCreate : pc'[u] = pc[u]
    BY <2>1, MoveTid DEF StoreCode
  <2> QED BY <2>1, <2>2, StoreCodeTid DEF OutsideCreate
<1>5. ASSUME NEW t \in Tcb, StoreDone(t) PROVE OutsideCreate
  <2>1. /\ pc[t] = "store" /\ pc' = [pc EXCEPT ![t] = "user"]
        /\ ptr' = [ptr EXCEPT ![t] = None]
        /\ UNCHANGED <<nextTid, raced, tid, oldTid>>
        /\ Reap(ptr[t], wq_exit[ptr[t]])
    BY <1>5 DEF StoreDone
  <2>2. Range(list') \subseteq Range(list)
    BY <2>1, ReapShrinks
  <2>3. \A u \in InCreate : pc'[u] = pc[u]
    BY <2>1, MoveTid
  <2> QED BY <2>1, <2>2, <2>3, WaitTid DEF OutsideCreate
<1>6. ASSUME NEW t \in Tcb, Yield(t) PROVE OutsideCreate
  BY <1>6, StillTid DEF Yield, heap
<1>7. Timer \/ OtherIrq => OutsideCreate
  BY StillTid DEF Timer, OtherIrq, Interrupt, heap
<1>8. CASE UNCHANGED vars
  BY <1>8, StillTid DEF vars, locals
<1> QED BY <1>1, <1>2, <1>3, <1>4, <1>5, <1>6, <1>7, <1>8 DEF Next

LEMMA TidInvNext == IInv /\ TidInv /\ [Next]_vars => TidInv'
BY TidCases, CreateAllocTid, CreateTidTid, CreateLinkTid DEF OutsideCreate

(* However many threads create threads (and task_wait guarded), two linked *)
(* threads have the same task id only after a sys_task_create has stored a *)
(* counter that another call had changed since it was loaded.              *)
THEOREM IdsSharedOnlyAfterRace == Guarded => (Spec => []SharedOnlyAfterRace)
<1>1. Guarded => (Spec => []IInv)
  BY TaskSafe
<1>2. TidInv => SharedOnlyAfterRace
  BY DEF TidInv, TidsFresh, SharedOnlyAfterRace
<1>3. Init => TidInv
  BY TidInvInit
<1> QED BY <1>1, <1>2, <1>3, TidInvNext, PTL DEF Spec

--------------------------------------------------------------------------------
(* If one thread makes all threads but the first there is no such race:    *)
(* one sys_task_create at a time, that of task0, alone in the list, or     *)
(* that of the creator, and what it has loaded is still the counter.       *)
OneCreator == \A t, u \in Creators : t = u

OneInCreate ==
  /\ InCreate \subseteq Creators \cup {task0}
  /\ \A t, u \in InCreate : t = u
  /\ task0 \in InCreate => Range(list) \subseteq {task0}
  /\ \A t \in InCreate : pc[t] = "tid" => oldTid[t] = nextTid
  /\ ~raced

(* Whoever starts a sys_task_create is linked, so it finds none going on.  *)
LEMMA NobodyInCreate ==
  ASSUME OneCreator, IInv, TidInv, OneInCreate, NEW t \in Tcb, NEW new \in Tcb,
         CreateAlloc(t, new)
  PROVE  /\ InCreate = {}
         /\ t = task0 => Range(list) \subseteq {task0}
<1>1. /\ t \in Range(list) /\ pc[t] = "user"
      /\ t \in Creators \/ (t = task0 /\ nextTid = 1)
  BY DEF CreateAlloc, InUser, IInv, CpuRunsReady
<1>2. Range(list) \subseteq Tcb
  BY ReadyLinked DEF IInv, Typed, TypeOK
<1>3. t = task0 => Range(list) \subseteq {task0}
  <2> SUFFICES ASSUME t = task0, NEW u \in Range(list) PROVE u = task0
    OBVIOUS
  <2>1. nextTid = 1 /\ tid[task0] = 0
    BY <1>1, TaskAssumption DEF IInv, Linked
  <2>2. tid[u] \in Nat /\ tid[u] < nextTid
    BY <1>2 DEF IInv, Typed, TypeOK, TidInv, TidsFresh, TidsBelow, OneInCreate
  <2>3. tid[u] = 0
    BY <2>1, <2>2
  <2> QED BY <2>1, <2>3, TaskZeroLinked DEF TidInv, TidsFresh, UniqueTids, OneInCreate
<1>4. ASSUME NEW u \in InCreate PROVE FALSE
  <2>1. u \in Range(list) /\ u # t /\ u \in Creators \cup {task0}
    BY <1>1, <1>4 DEF IInv, Calling, InCreate, OneInCreate
  <2>2. CASE u = task0
    BY <1>1, <1>4, <2>1, <2>2 DEF OneInCreate
  <2>3. CASE u # task0
    <3>1. t = task0
      BY <1>1, <2>1, <2>3 DEF OneCreator
    <3> QED BY <1>3, <2>1, <2>3, <3>1
  <2> QED BY <2>2, <2>3
<1> QED BY <1>3, <1>4

LEMMA OneInCreateNext ==
  ASSUME OneCreator, IInv, TidInv, OneInCreate, [Next]_vars
  PROVE  OneInCreate'
<1>1. ASSUME NEW t \in Tcb, NEW new \in Tcb, CreateAlloc(t, new)
      PROVE  OneInCreate'
  <2>1. /\ t \in Range(list) /\ pc[t] = "user" /\ state[new] = "FREE"
        /\ t \in Creators \cup {task0}
        /\ pc' = [pc EXCEPT ![t] = "tid", ![new] = "user"]
        /\ oldTid' = [oldTid EXCEPT ![t] = nextTid, ![new] = 0]
        /\ UNCHANGED <<list, nextTid, raced, tid>>
    BY <1>1 DEF CreateAlloc, InUser, IInv, CpuRunsReady
  <2>2. t # new
    BY <2>1 DEF IInv, Linked
  <2>3. pc'[t] = "tid" /\ oldTid'[t] = nextTid
    BY <2>1, <2>2 DEF IInv, Typed, TypeOK
  <2>4. InCreate = {} /\ (t = task0 => Range(list) \subseteq {task0})
    BY <1>1, NobodyInCreate
  <2>5. InCreate' = {t}
    <3>1. \A u \in Tcb : pc[u] \notin {"tid", "link"}
      BY <2>4 DEF InCreate
    <3>2. \A u \in Tcb \ {t} : pc'[u] \notin {"tid", "link"}
      BY <2>1, <3>1 DEF IInv, Typed, TypeOK
    <3> QED BY <2>3, <3>2 DEF InCreate
  <2> QED BY <2>1, <2>3, <2>4, <2>5 DEF OneInCreate
<1>2. ASSUME NEW t \in Tcb, CreateTid(t) PROVE OneInCreate'
  <2>1. /\ pc[t] = "tid" /\ pc' = [pc EXCEPT ![t] = "link"]
        /\ raced' = (raced \/ oldTid[t] # nextTid) /\ UNCHANGED list
    BY <1>2 DEF CreateTid
  <2>2. t \in InCreate /\ InCreate = {t} /\ oldTid[t] = nextTid
    BY <2>1 DEF InCreate, OneInCreate
  <2>3. InCreate' = {t} /\ pc'[t] = "link"
    <3>1. pc'[t] = "link" /\ \A u \in Tcb \ {t} : pc'[u] = pc[u]
      BY <2>1 DEF IInv, Typed, TypeOK
    <3> QED BY <2>2, <3>1 DEF InCreate
  <2> QED BY <2>1, <2>2, <2>3 DEF OneInCreate
<1>3. ASSUME NEW t \in Tcb, CreateLink(t) PROVE OneInCreate'
  <2>1. /\ pc[t] = "link" /\ pc' = [pc EXCEPT ![t] = "user"]
        /\ UNCHANGED raced
    BY <1>3 DEF CreateLink
  <2>2. t \in InCreate /\ InCreate = {t}
    BY <2>1 DEF InCreate, OneInCreate
  <2>3. InCreate' = {}
    <3>1. pc'[t] = "user" /\ \A u \in Tcb \ {t} : pc'[u] = pc[u]
      BY <2>1 DEF IInv, Typed, TypeOK
    <3> QED BY <2>2, <3>1 DEF InCreate
  <2> QED BY <2>1, <2>3 DEF OneInCreate
<1>4. CASE OutsideCreate
  BY <1>4 DEF OutsideCreate, OneInCreate
<1> QED BY <1>1, <1>2, <1>3, <1>4, TidCases

(* With one creator (and task_wait guarded) no two linked threads have the *)
(* same task id, although sys_task_create() loads, increments and stores   *)
(* the counter with interrupts on.                                         *)
THEOREM TidsUnique == Guarded /\ OneCreator => (Spec => []UniqueTids)
<1> SUFFICES ASSUME Guarded, OneCreator PROVE Spec => []UniqueTids
  OBVIOUS
<1>1. IInv /\ TidInv /\ OneInCreate /\ [Next]_vars => TidInv' /\ OneInCreate'
  BY TidInvNext, OneInCreateNext
<1>2. Spec => []IInv
  BY TaskSafe
<1>3. Init => TidInv /\ OneInCreate
  <2> SUFFICES ASSUME Init PROVE OneInCreate
    BY TidInvInit
  <2>1. InCreate = {}
    BY DEF Init, InCreate
  <2> QED BY <2>1, TidInvInit DEF OneInCreate
<1>4. TidInv /\ OneInCreate => UniqueTids
  BY DEF TidInv, TidsFresh, OneInCreate
<1> QED BY <1>1, <1>2, <1>3, <1>4, PTL DEF Spec

--------------------------------------------------------------------------------
(* Task implements Lifecycle, for every instance in which the critical     *)
(* section of sys_task_wait is not cut by a page fault.                    *)
(* Beside IInv: a thread that is not linked yet has no result of its own   *)
(* and has not exited.                                                     *)
NewIsBlank ==
  \A t \in Tcb : t \notin Range(list) =>
    /\ state[t] # "ZOMBIE"
    /\ state[t] # "FREE" => result[t] = None

LInv == IInv /\ ~MayFault /\ NewIsBlank

(* The mapping, thread by thread.                                          *)
LEMMA Mapping ==
  /\ DOMAIN lifePhase = Tcb /\ DOMAIN lifeCode = Tcb
  /\ DOMAIN lifeWaitsFor = Tcb /\ DOMAIN lifeGot = Tcb
BY DEF lifePhase, lifeCode, lifeWaitsFor, lifeGot

LEMMA LInvInit == ~MayFault /\ Init => LInv
<1> SUFFICES ASSUME ~MayFault, Init PROVE LInv
  OBVIOUS
<1>1. NewIsBlank
  <2>1. Range(list) = {task0}
    BY DEF Init, Range
  <2> QED BY <2>1 DEF Init, NewIsBlank
<1> QED BY <1>1, IInvInit DEF LInv

LEMMA MappedInit == Init => LC!Init
<1> SUFFICES ASSUME Init PROVE LC!Init
  OBVIOUS
<1>1. list = <<task0>> /\ Range(list) = {task0}
  BY DEF Init, Range
<1>2. \A t \in Tcb : Phase(t) = IF t = task0 THEN "alive" ELSE "absent"
  BY <1>1, TaskAssumption DEF Init, Phase
<1>3. lifePhase = [t \in Tcb |-> IF t = task0 THEN "alive" ELSE "absent"]
  BY <1>2 DEF lifePhase
<1>4. lifeCode = [t \in Tcb |-> None] /\ lifeGot = [t \in Tcb |-> None]
  BY <1>2 DEF Init, lifeCode, lifeGot
<1>5. lifeWaitsFor = [t \in Tcb |-> None]
  BY DEF Init, lifeWaitsFor
<1> QED BY <1>3, <1>4, <1>5 DEF LC!Init

(* Steps Lifecycle does not see: creation before the linking, the CPU.     *)
LEMMA CreateAllocStutters ==
  ASSUME LInv, NEW t \in Tcb, NEW new \in Tcb, CreateAlloc(t, new)
  PROVE  UNCHANGED LC!vars /\ NewIsBlank'
<1>1. /\ state[new] = "FREE" /\ running = t /\ pc[t] = "user"
      /\ state' = [state EXCEPT ![new] = "READY"]
      /\ result' = [result EXCEPT ![new] = None]
      /\ list' = list /\ code_exit' = [code_exit EXCEPT ![new] = None]
      /\ pc' = [pc EXCEPT ![t] = "tid", ![new] = "user"]
      /\ ptr' = [ptr EXCEPT ![t] = new, ![new] = None]
  BY DEF CreateAlloc, InUser
<1>2. new \notin Range(list) /\ pc[new] = "user" /\ t # new
  BY <1>1 DEF LInv, IInv, Linked, Calling, CpuRunsReady
<1>3. /\ \A u \in Tcb \ {new} : /\ state'[u] = state[u] /\ result'[u] = result[u]
                                /\ code_exit'[u] = code_exit[u]
      /\ result'[new] = None
  <2>1. state \in [Tcb -> {"FREE", "READY", "WAITING", "ZOMBIE"}]
    BY DEF LInv, IInv, Typed, TypeOK
  <2>2. /\ code_exit \in [Tcb -> Codes \cup {None}]
        /\ result \in [Tcb -> Codes \cup {None}]
    BY DEF LInv, IInv, Typed, TypeOK
  <2> QED BY <1>1, <2>1, <2>2
<1>4. \A u \in Tcb : (pc'[u] = "asleep" <=> pc[u] = "asleep")
                  /\ (pc[u] = "asleep" => ptr'[u] = ptr[u])
  <2>1. pc \in [Tcb -> PC] /\ ptr \in [Tcb -> Tcb \cup {None}]
    BY DEF LInv, IInv, Typed, TypeOK
  <2> QED BY <1>1, <1>2, <2>1
<1>5. \A u \in Tcb : Phase(u)' = Phase(u) /\ (Phase(u) # "absent" => u # new)
  BY <1>1, <1>2, <1>3 DEF Phase
<1>6. UNCHANGED <<lifePhase, lifeCode, lifeGot>>
  BY <1>3, <1>5 DEF lifePhase, lifeCode, lifeGot
<1>7. UNCHANGED lifeWaitsFor
  BY <1>4 DEF lifeWaitsFor
<1>8. NewIsBlank'
  BY <1>1, <1>3 DEF LInv, NewIsBlank
<1> QED BY <1>6, <1>7, <1>8 DEF LC!vars

LEMMA CreateTidStutters ==
  ASSUME LInv, NEW t \in Tcb, CreateTid(t)
  PROVE  UNCHANGED LC!vars /\ NewIsBlank'
<1>1. /\ UNCHANGED <<list, state, code_exit, result, ptr>>
      /\ pc[t] = "tid" /\ pc' = [pc EXCEPT ![t] = "link"]
  BY DEF CreateTid
<1>2. \A u \in Tcb : pc'[u] = "asleep" <=> pc[u] = "asleep"
  BY <1>1 DEF LInv, IInv, Typed, TypeOK
<1>3. \A u \in Tcb : Phase(u)' = Phase(u)
  BY <1>1 DEF Phase
<1>4. UNCHANGED <<lifePhase, lifeCode, lifeGot, lifeWaitsFor>>
  BY <1>1, <1>2, <1>3 DEF lifePhase, lifeCode, lifeGot, lifeWaitsFor
<1> QED BY <1>1, <1>4 DEF LC!vars, LInv, NewIsBlank

LEMMA CpuStutters ==
  ASSUME LInv, UNCHANGED <<heap, state, locals>>
  PROVE  UNCHANGED LC!vars /\ NewIsBlank'
<1>1. UNCHANGED <<list, state, code_exit, result, pc, ptr>>
  BY DEF heap, locals
<1>2. \A u \in Tcb : Phase(u)' = Phase(u)
  BY <1>1 DEF Phase
<1>3. UNCHANGED <<lifePhase, lifeCode, lifeGot, lifeWaitsFor>>
  BY <1>1, <1>2 DEF lifePhase, lifeCode, lifeGot, lifeWaitsFor
<1> QED BY <1>1, <1>3 DEF LC!vars, LInv, NewIsBlank

--------------------------------------------------------------------------------
(* Linking the new thread is its creation.                                 *)
LEMMA CreateLinkCreates ==
  ASSUME LInv, NEW t \in Tcb, CreateLink(t)
  PROVE  LC!Create(ptr[t]) /\ ptr[t] \in Tcb /\ NewIsBlank'
<1>0. PICK new \in Tcb : new = ptr[t]
  BY DEF CreateLink, LInv, IInv, Typed
<1>1. /\ pc[t] = "link"
      /\ list' = Append(list, new)
      /\ pc' = [pc EXCEPT ![t] = "user"] /\ ptr' = [ptr EXCEPT ![t] = None]
      /\ UNCHANGED <<state, code_exit, result>>
  BY <1>0 DEF CreateLink, AddTask
<1>2. new \notin Range(list) /\ state[new] # "FREE" /\ t \in InCreate
  BY <1>0, <1>1 DEF LInv, IInv, Creating, InCreate
<1>3. Range(list') = Range(list) \cup {new}
  <2>1. list \in Seq(Tcb)
    BY DEF LInv, IInv, Typed, TypeOK
  <2> QED BY <1>1, <2>1, AppendProperties
<1>4. state[new] # "ZOMBIE"
  BY <1>1, <1>2 DEF LInv, NewIsBlank
<1>5. result[new] = None
  BY <1>1, <1>2 DEF LInv, NewIsBlank
<1>6. /\ Phase(new) = "absent" /\ Phase(new)' = "alive"
      /\ \A u \in Tcb \ {new} : Phase(u)' = Phase(u)
  BY <1>1, <1>2, <1>3, <1>4 DEF Phase
<1>7. lifePhase' = [lifePhase EXCEPT ![new] = "alive"] /\ lifePhase[new] = "absent"
  BY <1>1, <1>6 DEF lifePhase
<1>8. UNCHANGED <<lifeCode, lifeGot>>
  BY <1>1, <1>5, <1>6 DEF lifeCode, lifeGot
<1>9. UNCHANGED lifeWaitsFor
  <2>1. \A u \in Tcb : (pc'[u] = "asleep" <=> pc[u] = "asleep")
                    /\ (pc[u] = "asleep" => ptr'[u] = ptr[u])
    BY <1>1 DEF LInv, IInv, Typed, TypeOK
  <2> QED BY <2>1 DEF lifeWaitsFor
<1>10. NewIsBlank'
  BY <1>1, <1>3 DEF LInv, NewIsBlank
<1> QED BY <1>0, <1>7, <1>8, <1>9, <1>10 DEF LC!Create

(* sys_task_exit is the exit.                                              *)
LEMMA ExitExits ==
  ASSUME LInv, NEW t \in Tcb, NEW code \in Codes, Exit(t, code)
  PROVE  LC!Exit(t, code) /\ NewIsBlank'
<1>1. /\ running = t /\ pc[t] = "user" /\ t # task0
      /\ state' = [u \in Tcb |->
                    IF u = t THEN "ZOMBIE"
                    ELSE IF u \in Woken(wq_exit[t], -1) THEN "READY"
                    ELSE state[u]]
      /\ code_exit' = [code_exit EXCEPT ![t] = code]
      /\ UNCHANGED <<list, pc, ptr, result>>
  BY DEF Exit, InUser, locals
<1>2. \A u \in Woken(wq_exit[t], -1) :
        u \in Range(list) /\ state[u] \notin {"ZOMBIE", "FREE"}
  <2>1. Woken(wq_exit[t], -1) = {u \in Tcb : pc[u] = "asleep" /\ ptr[u] = t}
    BY WokenProperties DEF LInv, IInv, QueuesHoldSleepers
  <2> QED BY <2>1 DEF LInv, IInv, Calling, Linked
<1>3. t \in Range(list) /\ state[t] = "READY"
  BY <1>1 DEF LInv, IInv, CpuRunsReady
<1>4. \A u \in Tcb \ {t} : state'[u] = "ZOMBIE" <=> state[u] = "ZOMBIE"
  BY <1>1, <1>2
<1>5. /\ Phase(t) = "alive" /\ Phase(t)' = "exited"
      /\ \A u \in Tcb \ {t} : Phase(u)' = Phase(u)
  BY <1>1, <1>3, <1>4 DEF Phase
<1>6. lifePhase' = [lifePhase EXCEPT ![t] = "exited"] /\ lifePhase[t] = "alive"
  BY <1>5 DEF lifePhase
<1>7. code_exit'[t] = code /\ \A u \in Tcb \ {t} : code_exit'[u] = code_exit[u]
  BY <1>1 DEF LInv, IInv, Typed, TypeOK
<1>8. lifeCode' = [lifeCode EXCEPT ![t] = code]
  BY <1>5, <1>7 DEF lifeCode
<1>9. UNCHANGED lifeGot
  BY <1>1, <1>5 DEF lifeGot
<1>10. UNCHANGED lifeWaitsFor /\ lifeWaitsFor[t] = None
  BY <1>1 DEF lifeWaitsFor
<1>11. NewIsBlank'
  BY <1>1, <1>2, <1>3 DEF LInv, NewIsBlank
<1> QED BY <1>6, <1>8, <1>9, <1>10, <1>11 DEF LC!Exit

(* Falling asleep in sys_task_wait is the beginning of the wait.           *)
LEMMA WaitSleepBegins ==
  ASSUME LInv, NEW t \in Tcb, NEW id \in 1 .. MaxTid, WaitSleep(t, id)
  PROVE  LC!BeginWait(t, GetTask(id)) /\ GetTask(id) \in Tcb /\ NewIsBlank'
<1> DEFINE tsk == GetTask(id)
<1>1. /\ running = t /\ pc[t] = "user"
      /\ HasTask(id) /\ id # 0 /\ state[tsk] # "ZOMBIE"
      /\ ptr' = [ptr EXCEPT ![t] = tsk]
      /\ pc' = [pc EXCEPT ![t] = "asleep"]
      /\ state' = [state EXCEPT ![t] = "WAITING"]
      /\ UNCHANGED <<list, code_exit, result>>
  BY DEF WaitSleep, InUser
<1>2. tsk \in Range(list) \ {task0} /\ tsk \in Tcb
  BY <1>1, GetTaskLinked DEF LInv
<1> HIDE DEF tsk
<1>3. t \in Range(list) /\ state[t] = "READY"
  BY <1>1 DEF LInv, IInv, CpuRunsReady
<1>4. state'[t] = "WAITING" /\ \A u \in Tcb \ {t} : state'[u] = state[u]
  BY <1>1 DEF LInv, IInv, Typed, TypeOK
<1>5. \A u \in Tcb : Phase(u)' = Phase(u)
  BY <1>1, <1>3, <1>4 DEF Phase
<1>6. Phase(t) = "alive" /\ Phase(tsk) = "alive"
  BY <1>1, <1>2, <1>3 DEF Phase
<1>7. UNCHANGED <<lifePhase, lifeCode, lifeGot>>
  BY <1>1, <1>5 DEF lifePhase, lifeCode, lifeGot
<1>8. lifePhase[t] = "alive" /\ lifePhase[tsk] = "alive"
  BY <1>2, <1>6 DEF lifePhase
<1>9. /\ lifeWaitsFor[t] = None
      /\ lifeWaitsFor' = [lifeWaitsFor EXCEPT ![t] = tsk]
  <2>1. pc \in [Tcb -> PC] /\ ptr \in [Tcb -> Tcb \cup {None}]
    BY DEF LInv, IInv, Typed, TypeOK
  <2> QED BY <1>1, <2>1 DEF lifeWaitsFor
<1>10. NewIsBlank'
  BY <1>1, <1>3, <1>4 DEF LInv, NewIsBlank
<1> QED BY <1>2, <1>7, <1>8, <1>9, <1>10 DEF LC!BeginWait, tsk

(* Coming back from sys_task_wait is the end of the wait.                  *)
LEMMA ReturnEnds ==
  ASSUME LInv, NEW t \in Tcb, NEW tsk \in Tcb,
         running = t, pc[t] \in {"user", "asleep"},
         pc[t] = "asleep" => ptr[t] = tsk,
         tsk \in Range(list) \ {task0}, state[tsk] = "ZOMBIE",
         StoreCode(t, tsk, Unlink(wq_exit[tsk], t)), code_exit' = code_exit
  PROVE  LC!EndWait(t, tsk) /\ NewIsBlank'
<1> DEFINE queue == Unlink(wq_exit[tsk], t)
<1>1. /\ result' = [result EXCEPT ![t] = code_exit[tsk]]
      /\ pc' = [pc EXCEPT ![t] = "user"]
      /\ ptr' = [ptr EXCEPT ![t] = None]
      /\ Reap(tsk, queue)
  <2>1. PICK fault \in StoreFaults :
          IF fault
          THEN /\ pc' = [pc EXCEPT ![t] = "store"]
               /\ ptr' = [ptr EXCEPT ![t] = tsk]
               /\ UNCHANGED <<list, state>>
          ELSE /\ pc' = [pc EXCEPT ![t] = "user"]
               /\ ptr' = [ptr EXCEPT ![t] = None]
               /\ Reap(tsk, queue)
    BY DEF StoreCode
  <2>2. ~fault
    BY TaskAssumption DEF LInv, MayFault
  <2> QED BY <2>1, <2>2 DEF StoreCode
<1>2. queue = <<>> <=> ~\E u \in Tcb \ {t} : lifeWaitsFor[u] = tsk
  <2>1. wq_exit[tsk] \in Seq(Tcb) /\ NoDuplicates(wq_exit[tsk])
    BY DEF LInv, IInv, Typed, TypeOK, QueuesHoldSleepers
  <2>2. queue \in Seq(Tcb) /\ Range(queue) = Range(wq_exit[tsk]) \ {t}
    BY <2>1, UnlinkProperties
  <2>3. Range(queue) = {u \in Tcb \ {t} : pc[u] = "asleep" /\ ptr[u] = tsk}
    BY <2>2 DEF LInv, IInv, QueuesHoldSleepers
  <2> HIDE DEF queue
  <2>4. queue = <<>> <=> Range(queue) = {}
    BY <2>2, EmptyRange
  <2>5. \A u \in Tcb : lifeWaitsFor[u] = tsk <=> pc[u] = "asleep" /\ ptr[u] = tsk
    BY TaskAssumption DEF lifeWaitsFor
  <2> QED BY <2>3, <2>4, <2>5
<1> HIDE DEF queue
<1>3. t \in Range(list) /\ state[t] = "READY" /\ t # tsk
  BY DEF LInv, IInv, CpuRunsReady
<1>4. /\ \A u \in Tcb \ {t} : result'[u] = result[u]
      /\ result'[t] = code_exit[tsk]
  BY <1>1 DEF LInv, IInv, Typed, TypeOK
<1>5. /\ Phase(t) = "alive" /\ Phase(tsk) = "exited"
      /\ lifePhase[t] = "alive" /\ lifePhase[tsk] = "exited"
      /\ lifeCode[tsk] = code_exit[tsk]
  BY <1>3 DEF Phase, lifePhase, lifeCode
<1>6. /\ lifeWaitsFor[t] \in {None, tsk}
      /\ lifeWaitsFor' = [lifeWaitsFor EXCEPT ![t] = None]
  <2>1. pc \in [Tcb -> PC] /\ ptr \in [Tcb -> Tcb \cup {None}]
    BY DEF LInv, IInv, Typed, TypeOK
  <2> QED BY <1>1, <2>1 DEF lifeWaitsFor
<1>7. CASE queue = <<>>
  <2>1. list' = Unlink(list, tsk) /\ state' = [state EXCEPT ![tsk] = "FREE"]
    BY <1>1, <1>7 DEF Reap, RemoveTask
  <2>2. /\ Range(list') = Range(list) \ {tsk}
        /\ \A u \in Tcb \ {tsk} : state'[u] = state[u]
        /\ state'[tsk] = "FREE"
    <3>1. list \in Seq(Tcb) /\ NoDuplicates(list)
      BY DEF LInv, IInv, Typed, TypeOK, Linked
    <3>2. state \in [Tcb -> {"FREE", "READY", "WAITING", "ZOMBIE"}]
      BY DEF LInv, IInv, Typed, TypeOK
    <3> QED BY <2>1, <3>1, <3>2, UnlinkProperties
  <2>3. /\ Phase(tsk)' = "absent"
        /\ \A u \in Tcb \ {tsk} : Phase(u)' = Phase(u)
    BY <2>2 DEF Phase
  <2>4. /\ lifePhase' = [lifePhase EXCEPT ![tsk] = "absent"]
        /\ lifeCode' = [lifeCode EXCEPT ![tsk] = None]
    BY <2>3 DEF lifePhase, lifeCode
  <2>5. lifeGot' = [lifeGot EXCEPT ![t] = lifeCode[tsk], ![tsk] = None]
    BY <1>3, <1>4, <1>5, <2>3 DEF lifeGot
  <2>6. NewIsBlank'
    BY <1>3, <1>4, <2>2 DEF LInv, NewIsBlank
  <2> QED BY <1>2, <1>5, <1>6, <1>7, <2>4, <2>5, <2>6 DEF LC!EndWait
<1>8. CASE queue # <<>>
  <2>1. list' = list /\ state' = state
    BY <1>1, <1>8 DEF Reap
  <2>2. \A u \in Tcb : Phase(u)' = Phase(u)
    BY <2>1 DEF Phase
  <2>3. UNCHANGED <<lifePhase, lifeCode>>
    BY <2>2 DEF lifePhase, lifeCode
  <2>4. lifeGot' = [lifeGot EXCEPT ![t] = lifeCode[tsk]]
    BY <1>4, <1>5, <2>2 DEF lifeGot
  <2>5. NewIsBlank'
    BY <1>3, <1>4, <2>1 DEF LInv, NewIsBlank
  <2> QED BY <1>2, <1>5, <1>6, <1>8, <2>3, <2>4, <2>5 DEF LC!EndWait
<1> QED BY <1>7, <1>8

LEMMA WaitZombieEnds ==
  ASSUME LInv, NEW t \in Tcb, NEW id \in 1 .. MaxTid, WaitZombie(t, id)
  PROVE  LC!EndWait(t, GetTask(id)) /\ GetTask(id) \in Tcb /\ NewIsBlank'
<1>1. /\ running = t /\ pc[t] = "user"
      /\ HasTask(id) /\ id # 0 /\ state[GetTask(id)] = "ZOMBIE"
      /\ StoreCode(t, GetTask(id), wq_exit[GetTask(id)])
      /\ code_exit' = code_exit
  BY DEF WaitZombie, InUser
<1>2. GetTask(id) \in Range(list) \ {task0} /\ GetTask(id) \in Tcb
  BY <1>1, GetTaskLinked DEF LInv
<1>3. Unlink(wq_exit[GetTask(id)], t) = wq_exit[GetTask(id)]
  BY <1>1, <1>2, NotQueued DEF LInv
<1>4. StoreCode(t, GetTask(id), Unlink(wq_exit[GetTask(id)], t))
  BY <1>1, <1>3
<1> QED BY <1>1, <1>2, <1>4, ReturnEnds

LEMMA ResumeEnds ==
  ASSUME LInv, NEW t \in Tcb, Resume(t)
  PROVE  LC!EndWait(t, ptr[t]) /\ ptr[t] \in Tcb /\ NewIsBlank'
<1>1. /\ running = t /\ pc[t] = "asleep"
      /\ StoreCode(t, ptr[t], Unlink(wq_exit[ptr[t]], t))
      /\ code_exit' = code_exit
  BY DEF Resume
<1>2. /\ ptr[t] \in Range(list) \ {task0} /\ ptr[t] \in Tcb
      /\ state[ptr[t]] = "ZOMBIE"
  BY <1>1 DEF LInv, IInv, Typed, Calling, CpuRunsReady
<1> QED BY <1>1, <1>2, ReturnEnds

--------------------------------------------------------------------------------
LEMMA StepImplements ==
  LInv /\ [Next]_vars => [LC!Next]_(LC!vars) /\ LInv'
<1> SUFFICES ASSUME LInv, [Next]_vars
             PROVE  (LC!Next \/ UNCHANGED LC!vars) /\ NewIsBlank' /\ IInv' /\ ~MayFault'
  BY DEF LInv
<1>1. IInv' /\ ~MayFault'
  BY IInvNext DEF LInv, Guarded, MayFault
<1>2. ASSUME NEW t \in Tcb, NEW new \in Tcb, CreateAlloc(t, new)
      PROVE  UNCHANGED LC!vars /\ NewIsBlank'
  BY <1>2, CreateAllocStutters
<1>3. ASSUME NEW t \in Tcb, CreateTid(t)
      PROVE  UNCHANGED LC!vars /\ NewIsBlank'
  BY <1>3, CreateTidStutters
<1>4. ASSUME NEW t \in Tcb, CreateLink(t) PROVE LC!Next /\ NewIsBlank'
  BY <1>4, CreateLinkCreates DEF LC!Next
<1>5. ASSUME NEW t \in Tcb, NEW code \in Codes, Exit(t, code)
      PROVE  LC!Next /\ NewIsBlank'
  BY <1>5, ExitExits DEF LC!Next
<1>6. ASSUME NEW t \in Tcb, NEW id \in 1 .. MaxTid, WaitZombie(t, id)
      PROVE  LC!Next /\ NewIsBlank'
  BY <1>6, WaitZombieEnds DEF LC!Next
<1>7. ASSUME NEW t \in Tcb, NEW id \in 1 .. MaxTid, WaitSleep(t, id)
      PROVE  LC!Next /\ NewIsBlank'
  BY <1>7, WaitSleepBegins DEF LC!Next
<1>8. ASSUME NEW t \in Tcb, Resume(t) PROVE LC!Next /\ NewIsBlank'
  BY <1>8, ResumeEnds DEF LC!Next
<1>9. ASSUME NEW t \in Tcb, StoreDone(t) PROVE FALSE
  BY <1>9 DEF StoreDone, LInv, IInv, Calling
<1>10. ASSUME \/ \E t \in Tcb : Yield(t)
              \/ Timer \/ OtherIrq \/ UNCHANGED vars
       PROVE  UNCHANGED LC!vars /\ NewIsBlank'
  <2>1. UNCHANGED <<heap, state, locals>>
    BY <1>10 DEF Yield, Timer, OtherIrq, Interrupt, vars, heap, locals
  <2> QED BY <2>1, CpuStutters
<1> QED BY <1>1, <1>2, <1>3, <1>4, <1>5, <1>6, <1>7, <1>8, <1>9, <1>10 DEF Next

(* task_create, task_exit and task_wait keep their promise (Lifecycle)     *)
(* whatever the interleaving, as long as the store to *pcode_exit does not *)
(* fault: task_wait returns the code of a thread that has exited, and the  *)
(* last of its waiters reaps it.                                           *)
THEOREM TaskImplementsLifecycle == ~MayFault => (Spec => ImplementsLifecycle)
<1> SUFFICES ASSUME ~MayFault PROVE Spec => LC!Spec
  BY DEF ImplementsLifecycle
<1>1. Init => LInv /\ LC!Init
  BY LInvInit, MappedInit
<1>2. LInv /\ [Next]_vars => [LC!Next]_(LC!vars) /\ LInv'
  BY StepImplements
<1> QED BY <1>1, <1>2, PTL DEF Spec, LC!Spec

================================================================================
