------------------------------ MODULE Semaphore_proofs ------------------------------
(***************************************************************************)
(* Proofs about module Semaphore: for any number of threads, semaphores,   *)
(* signals and initial values, a number leads to its semaphore, the value  *)
(* accounts for the calls, and a negative value counts the sleepers.       *)
(***************************************************************************)
EXTENDS Semaphore, WaitQueue_proofs, FiniteSetTheorems, TLAPS

Asleep(s) == {t \in Thread : In(t, s, "asleep")}

Types ==
  /\ running \in Thread \cup {task0}
  /\ state \in [Thread -> {"READY", "WAITING"}]
  /\ sems \in Seq(Sem)
  /\ semid \in [Sem -> Nat \cup {None}]
  /\ nextid \in Nat
  /\ value \in [Sem -> Int]
  /\ waitqueue \in [Sem -> Seq(Thread)]
  /\ pc \in [Thread -> {"user", "create", "destroy", "wait", "signal", "asleep"}]
  /\ sem \in [Thread -> Sem \cup {None}]
  /\ \A t \in Thread : sem[t] = None <=> pc[t] = "user"
  /\ DOMAIN known \subseteq Nat
  /\ initial \in [Sem -> Nat]
  /\ posted \in [Sem -> Nat]
  /\ passed \in [Sem -> Nat]
  /\ wasted \in [Sem -> Nat]

(* The list and the numbers in use name each other, and a thread that      *)
(* creates or destroys a semaphore has it for itself.                      *)
Listed ==
  /\ NoDuplicates(sems)
  /\ \A id \in DOMAIN known : known[id] \in Range(sems) /\ semid[known[id]] = id /\ id < nextid
  /\ \A s \in Range(sems) : semid[s] \in DOMAIN known /\ known[semid[s]] = s
Private ==
  \A t \in Thread : pc[t] \in {"create", "destroy"} =>
    /\ t = Owner
    /\ sem[t] \notin Range(sems)
    /\ \A u \in Thread : u # t => sem[u] # sem[t]
    /\ semid[sem[t]] \in Nat
    /\ pc[t] = "create" => semid[sem[t]] \notin DOMAIN known /\ semid[sem[t]] < nextid
Shared ==
  \A t \in Thread : pc[t] \in {"wait", "signal", "asleep"} => sem[t] \in Range(sems)
TableInv == Listed /\ Private /\ Shared

(* A queue holds the threads asleep for its semaphore, each once, until    *)
(* they run; and only a READY thread runs.                                 *)
QueueInv ==
  /\ \A s \in Sem : NoDuplicates(waitqueue[s]) /\ Range(waitqueue[s]) = Asleep(s)
  /\ \A t \in Thread : pc[t] # "asleep" => state[t] = "READY"
  /\ running \in Thread => state[running] = "READY"

Inv == Types /\ TableInv /\ QueueInv /\ ValueAccounts /\ SleepersExact

--------------------------------------------------------------------------------
(* wake_up(&q, 1) tells the head of a queue that is not empty.             *)
LEMMA WokenHead ==
  ASSUME NEW S, NEW q \in Seq(S), Range(q) # {}
  PROVE  \E h : Woken(q, 1) = {h}
<1>1. 1 \in DOMAIN q
  BY EmptyRange
<1>2. q[1] \in Woken(q, 1)
  BY <1>1 DEF Woken
<1>3. \A t, u \in Woken(q, 1) : t = u
  BY WokenOne
<1>4. Woken(q, 1) = {q[1]}
  BY <1>2, <1>3
<1> QED BY <1>4

(* Sets of threads are finite.                                             *)
LEMMA AsleepFinite ==
  ASSUME NEW s
  PROVE  /\ IsFiniteSet(Asleep(s)) /\ Cardinality(Asleep(s)) \in Nat
         /\ IsFiniteSet(Sleepers(s)) /\ Cardinality(Sleepers(s)) \in Nat
<1>1. Asleep(s) \subseteq Thread /\ Sleepers(s) \subseteq Thread
  BY DEF Asleep, Sleepers
<1>2. IsFiniteSet(Asleep(s)) /\ IsFiniteSet(Sleepers(s))
  BY <1>1, FS_Subset, SemaphoreAssumption
<1> QED BY <1>2, FS_CardinalityType

(* get_semaphore() walks the list to the only semaphore of this number.    *)
LEMMA GetSemaphore ==
  ASSUME Types, Listed, NEW id \in DOMAIN known
  PROVE  get_semaphore(id) = known[id]
<1> DEFINE found == {i \in DOMAIN sems : semid[sems[i]] = id}
<1>1. PICK i \in DOMAIN sems : sems[i] = known[id]
  BY DEF Listed, Range
<1>2. i \in found
  BY <1>1 DEF Listed
<1>3. ASSUME NEW j \in found PROVE j = i
  <2>1. sems[j] \in Range(sems) /\ semid[sems[j]] = id
    BY <1>3 DEF Range
  <2>2. sems[j] = known[id]
    BY <2>1 DEF Listed
  <2> QED BY <1>1, <2>2 DEF Listed, NoDuplicates
<1>4. found = {i}
  BY <1>2, <1>3
<1>5. i \in Nat
  <2>1. DOMAIN sems = 1 .. Len(sems)
    BY DEF Types
  <2> QED BY <1>1, <2>1
<1>6. (CHOOSE k \in found : \A j \in found : k <= j) = i
  BY <1>4, <1>5
<1>7. get_semaphore(id) = sems[i]
  BY <1>2, <1>6 DEF get_semaphore
<1> QED BY <1>1, <1>7

(* schedule() gives the CPU to a READY thread or to task0.                 *)
LEMMA ScheduleReady ==
  ASSUME NEW ready, NEW flag, Schedule(ready, flag)
  PROVE  running' \in ready \cup {task0}
BY DEF Schedule, Selectable

--------------------------------------------------------------------------------
LEMMA SemaphoreInit == Init => Inv
<1> SUFFICES ASSUME Init PROVE Inv
  OBVIOUS
<1> USE SemaphoreAssumption
<1>1. Types
  BY DEF Init, Types
<1>2. TableInv
  BY NoElements DEF Init, TableInv, Listed, Private, Shared
<1>3. \A s \in Sem : Asleep(s) = {} /\ Sleepers(s) = {}
  BY DEF Init, Asleep, Sleepers, In
<1>4. QueueInv
  BY <1>3, NoElements DEF Init, QueueInv
<1>5. ValueAccounts
  <2>1. \A s \in Sem : value[s] = 0 /\ initial[s] = 0 /\ posted[s] = 0 /\ passed[s] = 0
    BY DEF Init
  <2>2. \A s \in Sem : Cardinality({t \in Thread : In(t, s, "asleep")}) = 0
    BY <1>3, FS_EmptySet DEF Asleep
  <2> QED BY <2>1, <2>2 DEF ValueAccounts
<1>6. SleepersExact
  <2>1. \A s \in Sem : value[s] = 0 /\ wasted[s] = 0
    BY DEF Init
  <2>2. \A s \in Sem : Cardinality(Sleepers(s)) = 0
    BY <1>3, FS_EmptySet
  <2> QED BY <2>1, <2>2 DEF SleepersExact
<1> QED BY <1>1, <1>2, <1>4, <1>5, <1>6 DEF Inv

--------------------------------------------------------------------------------
(* Beginning and ending a call.                                            *)
Calls == {"user", "create", "destroy", "wait", "signal", "asleep"}
CallTypes ==
  /\ pc \in [Thread -> Calls]
  /\ sem \in [Thread -> Sem \cup {None}]
  /\ \A t \in Thread : sem[t] = None <=> pc[t] = "user"

LEMMA GoesType ==
  ASSUME Types, NEW t \in Thread, NEW call \in Calls, NEW s \in Sem \cup {None},
         s = None <=> call = "user", Goes(t, call, s)
  PROVE  /\ CallTypes'
         /\ pc'[t] = call /\ sem'[t] = s
         /\ \A u \in Thread : u # t => pc'[u] = pc[u] /\ sem'[u] = sem[u]
<1>1. pc' = [pc EXCEPT ![t] = call] /\ sem' = [sem EXCEPT ![t] = s]
  BY DEF Goes
<1>2. pc \in [Thread -> Calls] /\ sem \in [Thread -> Sem \cup {None}]
  BY DEF Types, Calls
<1>3. pc' \in [Thread -> Calls] /\ sem' \in [Thread -> Sem \cup {None}]
  BY <1>1, <1>2
<1>4. /\ pc'[t] = call /\ sem'[t] = s
      /\ \A u \in Thread : u # t => pc'[u] = pc[u] /\ sem'[u] = sem[u]
  BY <1>1, <1>2
<1>5. \A u \in Thread : sem[u] = None <=> pc[u] = "user"
  BY DEF Types
<1>6. \A u \in Thread : sem'[u] = None <=> pc'[u] = "user"
  BY <1>4, <1>5
<1> QED BY <1>3, <1>4, <1>6 DEF CallTypes

(* What the two actions that look a number up do with it.                  *)
LEMMA RangeSems == Types => Range(sems) \subseteq Sem
BY RangeOfQueue DEF Types

LEMMA LookedUp ==
  ASSUME Types, Listed, NEW id \in DOMAIN known
  PROVE  /\ known[id] \in Sem /\ known[id] \in Range(sems) /\ known[id] # None
         /\ \A t \in Thread : DestroyUnlink(t, id) =>
              sems' = Unlink(sems, known[id]) /\ Goes(t, "destroy", known[id])
         /\ \A t \in Thread, call \in {"wait", "signal"} : Find(t, call, id) => Goes(t, call, known[id])
<1>1. known[id] \in Sem /\ known[id] \in Range(sems) /\ known[id] # None
  BY RangeSems, SemaphoreAssumption DEF Listed
<1>2. get_semaphore(id) = known[id]
  BY GetSemaphore
<1>3. ASSUME NEW t \in Thread, DestroyUnlink(t, id)
      PROVE  sems' = Unlink(sems, known[id]) /\ Goes(t, "destroy", known[id])
  BY <1>1, <1>2, <1>3 DEF DestroyUnlink, remove_semaphore
<1>4. ASSUME NEW t \in Thread, NEW call \in {"wait", "signal"}, Find(t, call, id)
      PROVE  Goes(t, call, known[id])
  BY <1>2, <1>4 DEF Find
<1> QED BY <1>1, <1>3, <1>4

LEMMA TypesNext == Types /\ TableInv /\ [Next]_vars => Types'
<1> SUFFICES ASSUME Types, TableInv, [Next]_vars PROVE Types'
  OBVIOUS
<1> USE SemaphoreAssumption
<1>0. Types' <=> /\ (running \in Thread \cup {task0} /\ state \in [Thread -> {"READY", "WAITING"}])'
                 /\ (sems \in Seq(Sem) /\ semid \in [Sem -> Nat \cup {None}] /\ nextid \in Nat)'
                 /\ (value \in [Sem -> Int] /\ waitqueue \in [Sem -> Seq(Thread)])'
                 /\ CallTypes'
                 /\ (DOMAIN known \subseteq Nat /\ initial \in [Sem -> Nat])'
                 /\ (posted \in [Sem -> Nat] /\ passed \in [Sem -> Nat] /\ wasted \in [Sem -> Nat])'
  BY DEF Types, CallTypes, Calls
<1>1. ASSUME NEW t \in Thread, NEW s \in Sem, NEW v \in Values, CreateFill(t, s, v) PROVE Types'
  <2>1. CallTypes'
    BY <1>1, GoesType DEF CreateFill, Calls
  <2>2. waitqueue' \in [Sem -> Seq(Thread)]
    <3>1. waitqueue' = [waitqueue EXCEPT ![s] = <<>>] /\ <<>> \in Seq(Thread)
      BY <1>1 DEF CreateFill
    <3> QED BY <3>1 DEF Types
  <2>3. v \in Nat /\ v \in Int
    OBVIOUS
  <2>4. value' \in [Sem -> Int] /\ initial' \in [Sem -> Nat]
    BY <1>1, <2>3 DEF CreateFill, Types
  <2>5. posted' \in [Sem -> Nat] /\ passed' \in [Sem -> Nat] /\ wasted' \in [Sem -> Nat]
    BY <1>1 DEF CreateFill, Types
  <2>6. semid' \in [Sem -> Nat \cup {None}] /\ nextid' \in Nat
    BY <1>1 DEF CreateFill, Types
  <2>7. UNCHANGED <<running, state, sems, known>>
    BY <1>1 DEF CreateFill, cpu
  <2> QED BY <1>0, <2>1, <2>2, <2>4, <2>5, <2>6, <2>7 DEF Types
<1>2. ASSUME NEW t \in Thread, CreateLink(t) PROVE Types'
  <2>1. CallTypes'
    BY <1>2, GoesType DEF CreateLink, Calls
  <2>2. sem[t] \in Sem
    BY <1>2 DEF CreateLink, At, Types
  <2>3. sems' \in Seq(Sem)
    BY <1>2, <2>2, AppendProperties DEF CreateLink, add_semaphore, Types
  <2>4. DOMAIN known' \subseteq Nat
    <3>1. semid[sem[t]] \in Nat
      BY <1>2 DEF CreateLink, At, TableInv, Private
    <3> QED BY <1>2, <3>1 DEF CreateLink, Types
  <2> QED BY <1>0, <1>2, <2>1, <2>3, <2>4 DEF CreateLink, Types, cpu, counts
<1>3. ASSUME NEW t \in Thread, DestroyFree(t) PROVE Types'
  <2>1. CallTypes'
    BY <1>3, GoesType DEF DestroyFree, Calls
  <2>2. semid' \in [Sem -> Nat \cup {None}]
    BY <1>3 DEF DestroyFree, Types
  <2> QED BY <1>0, <1>3, <2>1, <2>2 DEF DestroyFree, Types, cpu, counts
<1>4. ASSUME NEW t \in Thread, NEW id \in DOMAIN known, DestroyUnlink(t, id) PROVE Types'
  <2>1. known[id] \in Sem /\ known[id] # None /\ sems' = Unlink(sems, known[id]) /\ Goes(t, "destroy", known[id])
    BY <1>4, LookedUp DEF TableInv
  <2>2. CallTypes'
    BY <2>1, GoesType DEF Calls
  <2>3. sems' \in Seq(Sem)
    BY <2>1, UnlinkType DEF Types
  <2>4. DOMAIN known' \subseteq Nat
    BY <1>4 DEF DestroyUnlink, Types
  <2> QED BY <1>0, <1>4, <2>2, <2>3, <2>4 DEF DestroyUnlink, Types, cpu, counts
<1>5. ASSUME NEW t \in Thread, NEW id \in DOMAIN known, NEW call \in {"wait", "signal"}, Find(t, call, id)
      PROVE  Types'
  <2>1. known[id] \in Sem /\ known[id] # None /\ Goes(t, call, known[id])
    BY <1>5, LookedUp DEF TableInv
  <2>2. CallTypes'
    BY <2>1, GoesType DEF Calls
  <2> QED BY <1>0, <1>5, <2>2 DEF Find, Types, cpu, table, counts
<1>6. ASSUME NEW t \in Thread, WaitPass(t) PROVE Types'
  <2>1. CallTypes'
    BY <1>6, GoesType DEF WaitPass, Calls
  <2>2. sem[t] \in Sem
    BY <1>6 DEF WaitPass, At, Types
  <2>3. value' \in [Sem -> Int] /\ passed' \in [Sem -> Nat]
    BY <1>6, <2>2 DEF WaitPass, Types
  <2> QED BY <1>0, <1>6, <2>1, <2>3 DEF WaitPass, Types, cpu, table
<1>7. ASSUME NEW t \in Thread, WaitSleep(t) PROVE Types'
  <2>1. sem[t] \in Sem /\ sem[t] # None
    BY <1>7 DEF WaitSleep, At, Types
  <2>2. CallTypes'
    BY <1>7, <2>1, GoesType DEF WaitSleep, Calls
  <2>3. Link(waitqueue[sem[t]], t) \in Seq(Thread)
    BY <2>1, LinkProperties DEF Types
  <2>4. value' \in [Sem -> Int] /\ waitqueue' \in [Sem -> Seq(Thread)]
    BY <1>7, <2>1, <2>3 DEF WaitSleep, Types
  <2>5. state' \in [Thread -> {"READY", "WAITING"}]
    BY <1>7 DEF WaitSleep, Types
  <2>6. running' \in Thread \cup {task0}
    BY <1>7, ScheduleReady DEF WaitSleep, Ready, At
  <2> QED BY <1>0, <1>7, <2>2, <2>4, <2>5, <2>6 DEF WaitSleep, Types, table, counts
<1>8. ASSUME NEW t \in Thread, Resume(t) PROVE Types'
  <2>1. CallTypes'
    BY <1>8, GoesType DEF Resume, Calls
  <2>2. sem[t] \in Sem
    BY <1>8 DEF Resume, At, Types
  <2>3. Unlink(waitqueue[sem[t]], t) \in Seq(Thread)
    BY <2>2, UnlinkType DEF Types
  <2>4. waitqueue' \in [Sem -> Seq(Thread)] /\ passed' \in [Sem -> Nat]
    BY <1>8, <2>2, <2>3 DEF Resume, Types
  <2> QED BY <1>0, <1>8, <2>1, <2>4 DEF Resume, Types, cpu, table
<1>9. ASSUME NEW t \in Thread, Signal(t) PROVE Types'
  <2>1. CallTypes'
    BY <1>9, GoesType DEF Signal, Calls
  <2>2. sem[t] \in Sem
    BY <1>9 DEF Signal, At, Types
  <2>3. value' \in [Sem -> Int] /\ posted' \in [Sem -> Nat]
    BY <1>9, <2>2 DEF Signal, Types
  <2>4. state' \in [Thread -> {"READY", "WAITING"}]
    BY <1>9 DEF Signal, Types
  <2>5. wasted' \in [Sem -> Nat]
    <3> DEFINE told == IF value'[sem[t]] <= 0 THEN Woken(waitqueue[sem[t]], 1) ELSE {}
               again == {u \in told : state[u] = "READY"}
    <3>1. told \subseteq Thread
      <4>1. Woken(waitqueue[sem[t]], 1) \subseteq Range(waitqueue[sem[t]])
        BY WokenProperties
      <4>2. Range(waitqueue[sem[t]]) \subseteq Thread
        BY <2>2, RangeOfQueue DEF Types
      <4> QED BY <4>1, <4>2
    <3>2. Cardinality(again) \in Nat
      <4>1. IsFiniteSet(again)
        BY <3>1, FS_Subset, SemaphoreAssumption
      <4> QED BY <4>1, FS_CardinalityType
    <3>3. wasted' = [wasted EXCEPT ![sem[t]] = @ + Cardinality(again)]
      BY <1>9 DEF Signal
    <3> HIDE DEF again
    <3> QED BY <2>2, <3>2, <3>3 DEF Types
  <2> QED BY <1>0, <1>9, <2>1, <2>3, <2>4, <2>5 DEF Signal, Types, table
<1>10. ASSUME NEW t \in Thread, Yield(t) PROVE Types'
  <2>1. running' \in Thread \cup {task0}
    BY <1>10, ScheduleReady DEF Yield, Ready, At
  <2> QED BY <1>0, <1>10, <2>1 DEF Yield, Types, CallTypes, Calls, table, counts
<1>11. ASSUME NEW set \in BOOLEAN, Interrupt(set) PROVE Types'
  <2>1. Schedule(Ready(state), TRUE) \/ running' = running
    BY <1>11 DEF Interrupt, ReturnFromInterrupt
  <2>2. running' \in Thread \cup {task0}
    <3>1. Schedule(Ready(state), TRUE) => running' \in Ready(state) \cup {task0}
      BY ScheduleReady
    <3> QED BY <2>1, <3>1 DEF Ready, Types
  <2> QED BY <1>0, <1>11, <2>2 DEF Interrupt, Types, CallTypes, Calls, table, counts
<1>12. CASE UNCHANGED vars
  BY <1>0, <1>12 DEF vars, cpu, table, counts, Types, CallTypes, Calls
<1> QED BY <1>1, <1>2, <1>3, <1>4, <1>5, <1>6, <1>7, <1>8, <1>9, <1>10, <1>11, <1>12
        DEF Next, Timer, TimerSets, OtherIrq, DestroyUnlink, Find
--------------------------------------------------------------------------------
(* The table: only the owner's steps change it.                            *)
LEMMA TableNext == Types /\ TableInv /\ [Next]_vars => TableInv'
<1> SUFFICES ASSUME Types, TableInv, [Next]_vars PROVE TableInv'
  OBVIOUS
<1> USE SemaphoreAssumption
<1>0. Range(sems) \subseteq Sem
  BY RangeSems
<1>1. ASSUME NEW t \in Thread, NEW s \in Sem, NEW v \in Values, CreateFill(t, s, v) PROVE TableInv'
  <2>1. /\ semid[s] = None /\ semid' = [semid EXCEPT ![s] = nextid] /\ nextid' = nextid + 1
        /\ sems' = sems /\ known' = known /\ Goes(t, "create", s) /\ t = Owner
    BY <1>1 DEF CreateFill
  <2>2. /\ pc'[t] = "create" /\ sem'[t] = s
        /\ \A u \in Thread : u # t => pc'[u] = pc[u] /\ sem'[u] = sem[u]
    BY <2>1, GoesType DEF Calls
  <2>3. s \notin Range(sems)
    BY <2>1 DEF TableInv, Listed, Types
  <2>4. semid'[s] = nextid /\ \A r \in Sem : r # s => semid'[r] = semid[r]
    BY <2>1 DEF Types
  <2>5. Listed'
    <3>1. \A r \in Range(sems) : semid'[r] = semid[r]
      BY <1>0, <2>3, <2>4
    <3>2. \A id \in DOMAIN known : id < nextid'
      BY <2>1 DEF TableInv, Listed, Types
    <3> QED BY <2>1, <3>1, <3>2 DEF TableInv, Listed
  <2>6. \A u \in Thread : u # t => sem[u] # s
    <3> SUFFICES ASSUME NEW u \in Thread, u # t, sem[u] = s PROVE FALSE
      OBVIOUS
    <3>1. pc[u] # "user"
      BY DEF Types
    <3>2. CASE pc[u] \in {"create", "destroy"}
      BY <2>1, <3>2 DEF TableInv, Private
    <3>3. CASE pc[u] \in {"wait", "signal", "asleep"}
      BY <2>3, <3>3 DEF TableInv, Shared
    <3> QED BY <3>1, <3>2, <3>3 DEF Types
  <2>7. nextid \notin DOMAIN known /\ nextid \in Nat /\ nextid < nextid'
    BY <2>1 DEF TableInv, Listed, Types
  <2>8. Private'
    BY <2>1, <2>2, <2>3, <2>4, <2>6, <2>7 DEF TableInv, Private
  <2>9. Shared'
    BY <2>1, <2>2 DEF TableInv, Shared
  <2> QED BY <2>5, <2>8, <2>9 DEF TableInv
<1>2. ASSUME NEW t \in Thread, CreateLink(t) PROVE TableInv'
  <2> DEFINE s == sem[t]
             id == semid[s]
  <2>1. /\ pc[t] = "create" /\ t = Owner /\ s \in Sem /\ s \notin Range(sems)
        /\ id \in Nat /\ id \notin DOMAIN known /\ id < nextid
    BY <1>2 DEF CreateLink, At, TableInv, Private, Types
  <2>2. /\ sems' = Append(sems, s) /\ semid' = semid /\ nextid' = nextid /\ Goes(t, "user", None)
        /\ known' = [i \in DOMAIN known \cup {id} |-> IF i = id THEN s ELSE known[i]]
    BY <1>2 DEF CreateLink, add_semaphore
  <2>3. Range(sems') = Range(sems) \cup {s} /\ NoDuplicates(sems')
    BY <2>1, <2>2, AppendProperties DEF Types, TableInv, Listed
  <2>4. /\ pc'[t] = "user"
        /\ \A u \in Thread : u # t => pc'[u] = pc[u] /\ sem'[u] = sem[u]
    BY <2>2, GoesType DEF Calls
  <2> HIDE DEF s, id
  <2>5. DOMAIN known' = DOMAIN known \cup {id} /\ known'[id] = s
        /\ \A i \in DOMAIN known : known'[i] = known[i]
    BY <2>1, <2>2
  <2>6. Listed'
    <3>1. \A i \in DOMAIN known' :
            known'[i] \in Range(sems') /\ semid'[known'[i]] = i /\ i < nextid'
      BY <2>1, <2>2, <2>3, <2>5 DEF TableInv, Listed, id
    <3>2. \A r \in Range(sems') : semid'[r] \in DOMAIN known' /\ known'[semid'[r]] = r
      BY <2>2, <2>3, <2>5 DEF TableInv, Listed, id
    <3> QED BY <2>3, <3>1, <3>2 DEF Listed
  <2>7. Private'
    <3> SUFFICES ASSUME NEW u \in Thread, pc'[u] \in {"create", "destroy"} PROVE FALSE
      BY DEF Private
    <3>1. u # t /\ pc[u] \in {"create", "destroy"}
      BY <2>4
    <3> QED BY <2>1, <3>1 DEF TableInv, Private
  <2>8. Shared'
    BY <2>3, <2>4 DEF TableInv, Shared
  <2> QED BY <2>6, <2>7, <2>8 DEF TableInv
<1>3. ASSUME NEW t \in Thread, DestroyFree(t) PROVE TableInv'
  <2>1. /\ pc[t] = "destroy" /\ t = Owner /\ sem[t] \in Sem /\ sem[t] \notin Range(sems)
    BY <1>3 DEF DestroyFree, At, TableInv, Private, Types
  <2>2. /\ semid' = [semid EXCEPT ![sem[t]] = None] /\ UNCHANGED <<sems, nextid, known>>
        /\ Goes(t, "user", None)
    BY <1>3 DEF DestroyFree
  <2>3. /\ pc'[t] = "user"
        /\ \A u \in Thread : u # t => pc'[u] = pc[u] /\ sem'[u] = sem[u]
    BY <2>2, GoesType DEF Calls
  <2>4. \A r \in Range(sems) : semid'[r] = semid[r]
    BY <1>0, <2>1, <2>2 DEF Types
  <2>5. Listed'
    BY <2>2, <2>4 DEF TableInv, Listed
  <2>6. Private'
    <3> SUFFICES ASSUME NEW u \in Thread, pc'[u] \in {"create", "destroy"} PROVE FALSE
      BY DEF Private
    <3>1. u # t /\ pc[u] \in {"create", "destroy"}
      BY <2>3
    <3> QED BY <2>1, <3>1 DEF TableInv, Private
  <2>7. Shared'
    BY <2>2, <2>3 DEF TableInv, Shared
  <2> QED BY <2>5, <2>6, <2>7 DEF TableInv
<1>4. ASSUME NEW t \in Thread, NEW id \in DOMAIN known, DestroyUnlink(t, id) PROVE TableInv'
  <2> DEFINE s == known[id]
  <2>1. /\ s \in Sem /\ s # None /\ s \in Range(sems)
        /\ sems' = Unlink(sems, s) /\ Goes(t, "destroy", s)
    BY <1>4, LookedUp DEF TableInv
  <2>2. /\ t = Owner /\ semid' = semid /\ nextid' = nextid
        /\ known' = [i \in DOMAIN known \ {id} |-> known[i]]
        /\ \A u \in Thread : sem[u] # s
    BY <1>4 DEF DestroyUnlink
  <2>3. Range(sems') = Range(sems) \ {s} /\ NoDuplicates(sems')
    BY <2>1, UnlinkProperties DEF Types, TableInv, Listed
  <2>4. /\ pc'[t] = "destroy" /\ sem'[t] = s
        /\ \A u \in Thread : u # t => pc'[u] = pc[u] /\ sem'[u] = sem[u]
    BY <2>1, GoesType DEF Calls
  <2>5. semid[s] = id /\ semid[s] \in Nat
    BY DEF TableInv, Listed, Types
  <2> HIDE DEF s
  <2>6. Listed'
    <3>1. DOMAIN known' = DOMAIN known \ {id} /\ \A i \in DOMAIN known' : known'[i] = known[i]
      BY <2>2
    <3>2. \A i \in DOMAIN known' : known[i] # s
      BY <2>5, <3>1 DEF TableInv, Listed
    <3>3. \A r \in Range(sems') : semid[r] # id
      BY <2>3 DEF TableInv, Listed, s
    <3> QED BY <2>2, <2>3, <3>1, <3>2, <3>3 DEF TableInv, Listed
  <2>7. Private'
    BY <2>2, <2>3, <2>4, <2>5 DEF TableInv, Private
  <2>8. Shared'
    BY <2>2, <2>3, <2>4 DEF TableInv, Shared
  <2> QED BY <2>6, <2>7, <2>8 DEF TableInv
<1>5. ASSUME NEW t \in Thread, NEW call \in Calls, NEW s \in Range(sems) \cup {None},
             Goes(t, call, s), UNCHANGED <<sems, semid, nextid, known>>,
             pc[t] \notin {"create", "destroy"},
             s = None <=> call = "user", call \notin {"create", "destroy"}
      PROVE  TableInv'
  <2>1. /\ pc'[t] = call /\ sem'[t] = s
        /\ \A u \in Thread : u # t => pc'[u] = pc[u] /\ sem'[u] = sem[u]
    BY <1>0, <1>5, GoesType
  <2>2. Listed'
    BY <1>5 DEF TableInv, Listed
  <2>3. Private'
    BY <1>5, <2>1 DEF TableInv, Private, Types
  <2>4. Shared'
    BY <1>5, <2>1 DEF TableInv, Shared
  <2> QED BY <2>2, <2>3, <2>4 DEF TableInv
<1>6. ASSUME UNCHANGED <<sems, semid, nextid, known, pc, sem>> PROVE TableInv'
  BY <1>6 DEF TableInv, Listed, Private, Shared
<1>7. ASSUME NEW t \in Thread, NEW id \in DOMAIN known, NEW call \in {"wait", "signal"}, Find(t, call, id)
      PROVE  TableInv'
  <2>1. known[id] \in Range(sems) /\ known[id] # None /\ Goes(t, call, known[id])
    BY <1>7, LookedUp DEF TableInv
  <2> QED BY <1>5, <1>7, <2>1 DEF Find, At, table, Calls
<1>8. ASSUME NEW t \in Thread, WaitPass(t) \/ Resume(t) \/ Signal(t) PROVE TableInv'
  BY <1>5, <1>8 DEF WaitPass, Resume, Signal, At, table, Calls
<1>9. ASSUME NEW t \in Thread, WaitSleep(t) PROVE TableInv'
  <2>1. sem[t] \in Range(sems) /\ sem[t] # None
    BY <1>9 DEF WaitSleep, At, TableInv, Shared, Types
  <2> QED BY <1>5, <1>9, <2>1 DEF WaitSleep, At, table, Calls
<1>10. ASSUME NEW t \in Thread, Yield(t) PROVE TableInv'
  BY <1>6, <1>10 DEF Yield, table
<1>11. ASSUME NEW set \in BOOLEAN, Interrupt(set) PROVE TableInv'
  BY <1>6, <1>11 DEF Interrupt, table
<1>12. CASE UNCHANGED vars
  BY <1>6, <1>12 DEF vars, table
<1> QED BY <1>1, <1>2, <1>3, <1>4, <1>7, <1>8, <1>9, <1>10, <1>11, <1>12
        DEF Next, Timer, TimerSets, OtherIrq, DestroyUnlink, Find

--------------------------------------------------------------------------------
(* Who sleeps for what before and after a call is begun or ended.          *)
LEMMA AsleepSame ==
  ASSUME Types, NEW t \in Thread, NEW call \in Calls \ {"asleep"}, NEW r \in Sem \cup {None},
         r = None <=> call = "user", Goes(t, call, r), pc[t] # "asleep"
  PROVE  \A s : Asleep(s)' = Asleep(s)
<1>1. /\ pc'[t] = call /\ sem'[t] = r
      /\ \A u \in Thread : u # t => pc'[u] = pc[u] /\ sem'[u] = sem[u]
  BY GoesType
<1> QED BY <1>1 DEF Asleep, In

LEMMA AsleepMore ==
  ASSUME Types, NEW t \in Thread, NEW r \in Sem, r # None,
         Goes(t, "asleep", r), pc[t] # "asleep"
  PROVE  /\ t \notin Asleep(r) /\ Asleep(r)' = Asleep(r) \cup {t}
         /\ \A s \in Sem : s # r => Asleep(s)' = Asleep(s) /\ t \notin Asleep(s)
         /\ \A u \in Thread : u # t => pc'[u] = pc[u]
<1>1. /\ pc'[t] = "asleep" /\ sem'[t] = r
      /\ \A u \in Thread : u # t => pc'[u] = pc[u] /\ sem'[u] = sem[u]
  BY GoesType DEF Calls
<1> QED BY <1>1 DEF Asleep, In

LEMMA AsleepLess ==
  ASSUME Types, NEW t \in Thread, NEW r \in Sem, r = sem[t],
         Goes(t, "user", None), pc[t] = "asleep"
  PROVE  /\ t \in Asleep(r) /\ Asleep(r)' = Asleep(r) \ {t}
         /\ \A s \in Sem : s # r => Asleep(s)' = Asleep(s) /\ t \notin Asleep(s)
         /\ pc'[t] = "user" /\ \A u \in Thread : u # t => pc'[u] = pc[u]
<1>1. /\ pc'[t] = "user" /\ sem'[t] = None
      /\ \A u \in Thread : u # t => pc'[u] = pc[u] /\ sem'[u] = sem[u]
  BY GoesType DEF Calls
<1> QED BY <1>1, SemaphoreAssumption DEF Asleep, In

LEMMA UnlistedUnused ==
  ASSUME Types, TableInv, NEW s \in Sem, semid[s] = None
  PROVE  Asleep(s) = {}
<1>1. s \notin Range(sems)
  BY SemaphoreAssumption DEF TableInv, Listed, Types
<1> QED BY <1>1 DEF Asleep, In, TableInv, Shared

(* A thread asleep in a queue is in it once; when it is told, it stays.    *)
LEMMA QueueNext == Types /\ TableInv /\ QueueInv /\ [Next]_vars => QueueInv'
<1> SUFFICES ASSUME Types, TableInv, QueueInv, [Next]_vars PROVE QueueInv'
  OBVIOUS
<1> USE SemaphoreAssumption
<1>0. QueueInv' <=>
        /\ \A s \in Sem : NoDuplicates(waitqueue'[s]) /\ Range(waitqueue'[s]) = Asleep(s)'
        /\ \A t \in Thread : pc'[t] # "asleep" => state'[t] = "READY"
        /\ running' \in Thread => state'[running'] = "READY"
  BY DEF QueueInv
<1>1. ASSUME NEW t \in Thread, NEW call \in Calls \ {"asleep"}, NEW r \in Sem \cup {None},
             r = None <=> call = "user", Goes(t, call, r), pc[t] # "asleep",
             UNCHANGED <<running, state>>
      PROVE  /\ \A u \in Thread : pc'[u] # "asleep" => state'[u] = "READY"
             /\ running' \in Thread => state'[running'] = "READY"
             /\ \A s : Asleep(s)' = Asleep(s)
  <2>1. \A u \in Thread : u # t => pc'[u] = pc[u]
    BY <1>1, GoesType
  <2> QED BY <1>1, <2>1, AsleepSame DEF QueueInv
<1>2. ASSUME NEW t \in Thread, NEW s \in Sem, NEW v \in Values, CreateFill(t, s, v) PROVE QueueInv'
  <2>1. /\ \A u \in Thread : pc'[u] # "asleep" => state'[u] = "READY"
        /\ running' \in Thread => state'[running'] = "READY"
        /\ \A r : Asleep(r)' = Asleep(r)
    BY <1>1, <1>2 DEF CreateFill, At, cpu, Calls
  <2>2. Asleep(s) = {}
    BY <1>2, UnlistedUnused DEF CreateFill
  <2>3. waitqueue' = [waitqueue EXCEPT ![s] = <<>>]
    BY <1>2 DEF CreateFill
  <2>4. waitqueue'[s] = <<>> /\ \A r \in Sem : r # s => waitqueue'[r] = waitqueue[r]
    BY <2>3 DEF Types
  <2>5. \A r \in Sem : NoDuplicates(waitqueue'[r]) /\ Range(waitqueue'[r]) = Asleep(r)'
    BY <2>1, <2>2, <2>4, NoElements DEF QueueInv
  <2> QED BY <1>0, <2>1, <2>5
<1>3. ASSUME NEW t \in Thread, CreateLink(t) \/ DestroyFree(t) \/ WaitPass(t) PROVE QueueInv'
  <2>1. /\ \A u \in Thread : pc'[u] # "asleep" => state'[u] = "READY"
        /\ running' \in Thread => state'[running'] = "READY"
        /\ \A r : Asleep(r)' = Asleep(r)
        /\ waitqueue' = waitqueue
    BY <1>1, <1>3 DEF CreateLink, DestroyFree, WaitPass, At, cpu, Calls
  <2> QED BY <1>0, <2>1 DEF QueueInv
<1>4. ASSUME NEW t \in Thread, NEW id \in DOMAIN known,
             DestroyUnlink(t, id) \/ \E call \in {"wait", "signal"} : Find(t, call, id)
      PROVE  QueueInv'
  <2>1. PICK call \in {"destroy", "wait", "signal"} : Goes(t, call, known[id])
    BY <1>4, LookedUp DEF TableInv
  <2>2. /\ pc[t] = "user" /\ UNCHANGED <<running, state, waitqueue>>
        /\ known[id] \in Sem /\ known[id] # None
    BY <1>4, LookedUp DEF DestroyUnlink, Find, At, cpu, TableInv
  <2>3. /\ \A u \in Thread : pc'[u] # "asleep" => state'[u] = "READY"
        /\ running' \in Thread => state'[running'] = "READY"
        /\ \A r : Asleep(r)' = Asleep(r)
    BY <1>1, <2>1, <2>2 DEF Calls
  <2> QED BY <1>0, <2>2, <2>3 DEF QueueInv
<1>5. ASSUME NEW t \in Thread, WaitSleep(t) PROVE QueueInv'
  <2>1. PICK r \in Sem : r = sem[t] /\ r # None
    BY <1>5 DEF WaitSleep, At, Types
  <2>2. /\ pc[t] # "asleep" /\ Goes(t, "asleep", r)
        /\ waitqueue' = [waitqueue EXCEPT ![r] = Link(waitqueue[r], t)]
        /\ state' = [state EXCEPT ![t] = "WAITING"]
        /\ Schedule(Ready(state'), resched)
    BY <1>5, <2>1 DEF WaitSleep, At
  <2>3. /\ t \notin Asleep(r) /\ Asleep(r)' = Asleep(r) \cup {t}
        /\ \A s \in Sem : s # r => Asleep(s)' = Asleep(s)
        /\ \A u \in Thread : u # t => pc'[u] = pc[u]
    BY <2>1, <2>2, AsleepMore
  <2>4. /\ waitqueue'[r] = Link(waitqueue[r], t)
        /\ \A s \in Sem : s # r => waitqueue'[s] = waitqueue[s]
    BY <2>1, <2>2 DEF Types
  <2>5. NoDuplicates(waitqueue'[r]) /\ Range(waitqueue'[r]) = Asleep(r)'
    <3>1. waitqueue[r] \in Seq(Thread) /\ NoDuplicates(waitqueue[r]) /\ Range(waitqueue[r]) = Asleep(r)
      BY DEF Types, QueueInv
    <3>2. /\ NoDuplicates(Link(waitqueue[r], t))
          /\ Range(Link(waitqueue[r], t)) = Range(waitqueue[r]) \cup {t}
      <4>1. PICK q \in Seq(Thread) : q = waitqueue[r]
        BY <3>1
      <4>2. NoDuplicates(q) /\ t \notin Range(q)
        BY <2>3, <3>1, <4>1
      <4>3. NoDuplicates(Link(q, t)) /\ Range(Link(q, t)) = Range(q) \cup {t}
        BY <4>2, LinkProperties
      <4> QED BY <4>1, <4>3
    <3>3. Range(waitqueue'[r]) = Asleep(r)'
      BY <2>3, <2>4, <3>1, <3>2
    <3> QED BY <2>4, <3>2, <3>3
  <2>6. \A s \in Sem : NoDuplicates(waitqueue'[s]) /\ Range(waitqueue'[s]) = Asleep(s)'
    BY <2>3, <2>4, <2>5 DEF QueueInv
  <2>7. pc'[t] = "asleep"
    BY <2>1, <2>2, GoesType DEF Calls
  <2>8. \A u \in Thread : pc'[u] # "asleep" => state'[u] = "READY"
    BY <2>2, <2>3, <2>7 DEF QueueInv, Types
  <2>9. running' \in Ready(state') \cup {task0}
    BY <2>2, ScheduleReady
  <2>10. running' \in Thread => state'[running'] = "READY"
    BY <2>9 DEF Ready
  <2> QED BY <1>0, <2>6, <2>8, <2>10
<1>6. ASSUME NEW t \in Thread, Resume(t) PROVE QueueInv'
  <2>1. PICK r \in Sem : r = sem[t]
    BY <1>6 DEF Resume, At, Types
  <2>2. /\ pc[t] = "asleep" /\ running = t /\ Goes(t, "user", None)
        /\ waitqueue' = [waitqueue EXCEPT ![r] = Unlink(waitqueue[r], t)]
        /\ UNCHANGED <<running, state>>
    BY <1>6, <2>1 DEF Resume, At, cpu
  <2>3. /\ Asleep(r)' = Asleep(r) \ {t}
        /\ \A s \in Sem : s # r => Asleep(s)' = Asleep(s)
        /\ \A u \in Thread : u # t => pc'[u] = pc[u]
    BY <2>1, <2>2, AsleepLess
  <2>4. /\ waitqueue'[r] = Unlink(waitqueue[r], t)
        /\ \A s \in Sem : s # r => waitqueue'[s] = waitqueue[s]
    BY <2>1, <2>2 DEF Types
  <2>5. NoDuplicates(waitqueue'[r]) /\ Range(waitqueue'[r]) = Asleep(r)'
    <3>1. waitqueue[r] \in Seq(Thread) /\ NoDuplicates(waitqueue[r]) /\ Range(waitqueue[r]) = Asleep(r)
      BY DEF Types, QueueInv
    <3>2. /\ NoDuplicates(Unlink(waitqueue[r], t))
          /\ Range(Unlink(waitqueue[r], t)) = Range(waitqueue[r]) \ {t}
      BY <3>1, UnlinkProperties
    <3>3. Range(waitqueue'[r]) = Asleep(r)'
      BY <2>3, <2>4, <3>1, <3>2
    <3> QED BY <2>4, <3>2, <3>3
  <2>6. \A s \in Sem : NoDuplicates(waitqueue'[s]) /\ Range(waitqueue'[s]) = Asleep(s)'
    BY <2>3, <2>4, <2>5 DEF QueueInv
  <2>7. \A u \in Thread : pc'[u] # "asleep" => state'[u] = "READY"
    BY <2>2, <2>3 DEF QueueInv
  <2> QED BY <1>0, <2>2, <2>6, <2>7 DEF QueueInv
<1>7. ASSUME NEW t \in Thread, Signal(t) PROVE QueueInv'
  <2>1. /\ pc[t] # "asleep" /\ Goes(t, "user", None) /\ UNCHANGED <<running, waitqueue>>
    BY <1>7 DEF Signal, At
  <2>2. \A u \in Thread : state[u] = "READY" => state'[u] = "READY"
    BY <1>7 DEF Signal
  <2>3. \A s : Asleep(s)' = Asleep(s)
    BY <2>1, AsleepSame DEF Calls
  <2>4. \A u \in Thread : u # t => pc'[u] = pc[u]
    BY <2>1, GoesType DEF Calls
  <2> QED BY <1>0, <2>1, <2>2, <2>3, <2>4 DEF QueueInv
<1>8. ASSUME UNCHANGED <<state, waitqueue, pc, sem>>,
             Schedule(Ready(state), TRUE) \/ Schedule(Ready(state), resched) \/ running' = running
      PROVE  QueueInv'
  <2>1. \A s : Asleep(s)' = Asleep(s)
    BY <1>8 DEF Asleep, In
  <2>2. running' \in Ready(state) \cup {task0} \/ running' = running
    BY <1>8, ScheduleReady
  <2>3. running' \in Thread => state[running'] = "READY"
    BY <2>2 DEF Ready, QueueInv
  <2> QED BY <1>0, <1>8, <2>1, <2>3 DEF QueueInv
<1>9. ASSUME NEW t \in Thread, Yield(t) PROVE QueueInv'
  BY <1>8, <1>9 DEF Yield
<1>10. ASSUME NEW set \in BOOLEAN, Interrupt(set) PROVE QueueInv'
  BY <1>8, <1>10 DEF Interrupt, ReturnFromInterrupt
<1>11. CASE UNCHANGED vars
  BY <1>8, <1>11 DEF vars, cpu
<1> QED BY <1>2, <1>3, <1>4, <1>5, <1>6, <1>7, <1>9, <1>10, <1>11
        DEF Next, Timer, TimerSets, OtherIrq, DestroyUnlink, Find

--------------------------------------------------------------------------------
(* The two counts, semaphore by semaphore.                                 *)
Accounted(s) == value[s] = initial[s] + posted[s] - passed[s] - Cardinality(Asleep(s))
Exact(s) == Cardinality(Sleepers(s)) = (IF value[s] < 0 THEN -value[s] ELSE 0) + wasted[s]

LEMMA SleepersNext ==
  Inv /\ [Next]_vars => \A s \in Sem : Accounted(s)' /\ Exact(s)'
<1> SUFFICES ASSUME Inv, [Next]_vars, NEW s \in Sem PROVE Accounted(s)' /\ Exact(s)'
  OBVIOUS
<1> USE SemaphoreAssumption
<1>1. Types /\ TableInv /\ QueueInv /\ Types'
  BY TypesNext DEF Inv
<1>2. Accounted(s) /\ Exact(s)
  BY DEF Inv, ValueAccounts, SleepersExact, Accounted, Exact, Asleep
<1>3. /\ value[s] \in Int /\ initial[s] \in Nat
      /\ posted[s] \in Nat /\ passed[s] \in Nat /\ wasted[s] \in Nat
  BY <1>1 DEF Types
<1>4. /\ Sleepers(s) = {t \in Asleep(s) : state[t] = "WAITING"}
      /\ Sleepers(s)' = {t \in Asleep(s)' : state'[t] = "WAITING"}
  BY DEF Sleepers, Asleep
<1>5. /\ IsFiniteSet(Asleep(s)) /\ Cardinality(Asleep(s)) \in Nat
      /\ IsFiniteSet(Sleepers(s)) /\ Cardinality(Sleepers(s)) \in Nat
  BY AsleepFinite
<1>6. ASSUME value'[s] = value[s], initial'[s] = initial[s], posted'[s] = posted[s],
             passed'[s] = passed[s], wasted'[s] = wasted[s],
             Asleep(s)' = Asleep(s), Sleepers(s)' = Sleepers(s)
      PROVE  Accounted(s)' /\ Exact(s)'
  BY <1>2, <1>6 DEF Accounted, Exact
<1>7. ASSUME UNCHANGED <<value, initial, counts, state>>, Asleep(s)' = Asleep(s)
      PROVE  Accounted(s)' /\ Exact(s)'
  BY <1>4, <1>6, <1>7 DEF counts
<1>8. ASSUME NEW t \in Thread, NEW r \in Sem, NEW v \in Values, CreateFill(t, r, v)
      PROVE  Accounted(s)' /\ Exact(s)'
  <2>1. Asleep(s)' = Asleep(s) /\ Sleepers(s)' = Sleepers(s)
    <3>1. Asleep(s)' = Asleep(s)
      BY <1>1, <1>8, AsleepSame DEF CreateFill, At, Calls
    <3> QED BY <1>4, <1>8, <3>1 DEF CreateFill, cpu
  <2>2. CASE r = s
    <3>1. Asleep(s) = {} /\ Sleepers(s) = {}
      BY <1>1, <1>4, <1>8, <2>2, UnlistedUnused DEF CreateFill
    <3>2. /\ value'[s] = v /\ initial'[s] = v /\ v \in Nat
          /\ posted'[s] = 0 /\ passed'[s] = 0 /\ wasted'[s] = 0
      BY <1>1, <1>8, <2>2 DEF CreateFill, Types
    <3> QED BY <2>1, <3>1, <3>2, FS_EmptySet DEF Accounted, Exact
  <2>3. CASE r # s
    BY <1>1, <1>6, <1>8, <2>1, <2>3 DEF CreateFill, Types
  <2> QED BY <2>2, <2>3
<1>9. ASSUME NEW t \in Thread, CreateLink(t) \/ DestroyFree(t) PROVE Accounted(s)' /\ Exact(s)'
  <2>1. Asleep(s)' = Asleep(s)
    BY <1>1, <1>9, AsleepSame DEF CreateLink, DestroyFree, At, Calls
  <2> QED BY <1>7, <1>9, <2>1 DEF CreateLink, DestroyFree, cpu
<1>10. ASSUME NEW t \in Thread, NEW id \in DOMAIN known,
              DestroyUnlink(t, id) \/ \E call \in {"wait", "signal"} : Find(t, call, id)
       PROVE  Accounted(s)' /\ Exact(s)'
  <2>1. PICK call \in {"destroy", "wait", "signal"} : Goes(t, call, known[id])
    BY <1>1, <1>10, LookedUp DEF TableInv
  <2>2. pc[t] = "user" /\ known[id] \in Sem /\ known[id] # None
    BY <1>1, <1>10, LookedUp DEF DestroyUnlink, Find, At, TableInv
  <2>3. Asleep(s)' = Asleep(s)
    BY <1>1, <2>1, <2>2, AsleepSame DEF Calls
  <2> QED BY <1>7, <1>10, <2>3 DEF DestroyUnlink, Find, cpu, table
<1>11. ASSUME NEW t \in Thread, WaitPass(t) PROVE Accounted(s)' /\ Exact(s)'
  <2>1. Asleep(s)' = Asleep(s) /\ Sleepers(s)' = Sleepers(s)
    <3>1. Asleep(s)' = Asleep(s)
      BY <1>1, <1>11, AsleepSame DEF WaitPass, At, Calls
    <3> QED BY <1>4, <1>11, <3>1 DEF WaitPass, cpu
  <2>2. CASE sem[t] = s
    <3>1. /\ value[s] > 0 /\ value'[s] = value[s] - 1 /\ passed'[s] = passed[s] + 1
          /\ initial'[s] = initial[s] /\ posted'[s] = posted[s] /\ wasted'[s] = wasted[s]
      BY <1>1, <1>11, <2>2 DEF WaitPass, table, Types
    <3> QED BY <1>2, <1>3, <1>5, <2>1, <3>1 DEF Accounted, Exact
  <2>3. CASE sem[t] # s
    BY <1>1, <1>6, <1>11, <2>1, <2>3 DEF WaitPass, table, Types
  <2> QED BY <2>2, <2>3
<1>12. ASSUME NEW t \in Thread, WaitSleep(t) PROVE Accounted(s)' /\ Exact(s)'
  <2>1. PICK r \in Sem : r = sem[t] /\ r # None
    BY <1>1, <1>12 DEF WaitSleep, At, Types
  <2>2. /\ pc[t] # "asleep" /\ Goes(t, "asleep", r) /\ state' = [state EXCEPT ![t] = "WAITING"]
        /\ value[r] <= 0 /\ value' = [value EXCEPT ![r] = value[r] - 1]
        /\ UNCHANGED <<initial, posted, passed, wasted>>
    BY <1>12, <2>1 DEF WaitSleep, At, table, counts
  <2>3. /\ t \notin Asleep(r) /\ Asleep(r)' = Asleep(r) \cup {t}
        /\ \A q \in Sem : q # r => Asleep(q)' = Asleep(q) /\ t \notin Asleep(q)
    BY <1>1, <2>1, <2>2, AsleepMore
  <2>4. state'[t] = "WAITING" /\ \A u \in Thread : u # t => state'[u] = state[u]
    BY <1>1, <2>2 DEF Types
  <2>5. Asleep(s) \subseteq Thread
    BY DEF Asleep
  <2>6. CASE r = s
    <3>1. t \notin Sleepers(s) /\ Sleepers(s)' = Sleepers(s) \cup {t}
      BY <1>4, <2>3, <2>4, <2>5, <2>6
    <3>2. /\ Cardinality(Asleep(s)') = Cardinality(Asleep(s)) + 1
          /\ Cardinality(Sleepers(s)') = Cardinality(Sleepers(s)) + 1
      <4>1. t \notin Asleep(s) /\ Asleep(s)' = Asleep(s) \cup {t}
        BY <2>3, <2>6
      <4>2. Cardinality(Asleep(s)') = Cardinality(Asleep(s)) + 1
        BY <1>5, <4>1, FS_AddElement
      <4>3. Cardinality(Sleepers(s)') = Cardinality(Sleepers(s)) + 1
        BY <1>5, <3>1, FS_AddElement
      <4> QED BY <4>2, <4>3
    <3>3. value[s] <= 0 /\ value'[s] = value[s] - 1
      BY <1>1, <2>2, <2>6 DEF Types
    <3> QED BY <1>2, <1>3, <1>5, <2>2, <3>2, <3>3 DEF Accounted, Exact
  <2>7. CASE r # s
    <3>1. Asleep(s)' = Asleep(s) /\ Sleepers(s)' = Sleepers(s)
      BY <1>4, <2>3, <2>4, <2>5, <2>7
    <3>2. value'[s] = value[s]
      BY <1>1, <2>2, <2>7 DEF Types
    <3> QED BY <1>6, <2>2, <3>1, <3>2
  <2> QED BY <2>6, <2>7
<1>13. ASSUME NEW t \in Thread, Resume(t) PROVE Accounted(s)' /\ Exact(s)'
  <2>1. PICK r \in Sem : r = sem[t]
    BY <1>1, <1>13 DEF Resume, At, Types
  <2>2. /\ pc[t] = "asleep" /\ running = t /\ Goes(t, "user", None)
        /\ passed' = [passed EXCEPT ![r] = passed[r] + 1]
        /\ UNCHANGED <<state, value, initial, posted, wasted>>
    BY <1>13, <2>1 DEF Resume, At, table, cpu
  <2>3. /\ t \in Asleep(r) /\ Asleep(r)' = Asleep(r) \ {t}
        /\ \A q \in Sem : q # r => Asleep(q)' = Asleep(q) /\ t \notin Asleep(q)
    BY <1>1, <2>1, <2>2, AsleepLess
  <2>4. state[t] = "READY"
    BY <1>1, <2>2 DEF QueueInv
  <2>5. Sleepers(s)' = Sleepers(s)
    BY <1>4, <2>2, <2>3, <2>4
  <2>6. CASE r = s
    <3>1. Cardinality(Asleep(s)') = Cardinality(Asleep(s)) - 1
      BY <1>5, <2>3, <2>6, FS_RemoveElement
    <3>2. passed'[s] = passed[s] + 1
      BY <1>1, <2>2, <2>6 DEF Types
    <3> QED BY <1>2, <1>3, <1>5, <2>2, <2>5, <3>1, <3>2 DEF Accounted, Exact
  <2>7. CASE r # s
    <3>1. passed'[s] = passed[s]
      BY <1>1, <2>2, <2>7 DEF Types
    <3> QED BY <1>6, <2>2, <2>3, <2>5, <2>7, <3>1
  <2> QED BY <2>6, <2>7
<1>14. ASSUME NEW t \in Thread, Signal(t) PROVE Accounted(s)' /\ Exact(s)'
  <2>1. PICK r \in Sem : r = sem[t]
    BY <1>1, <1>14 DEF Signal, At, Types
  <2>2. /\ pc[t] # "asleep" /\ Goes(t, "user", None)
        /\ value' = [value EXCEPT ![r] = value[r] + 1]
        /\ posted' = [posted EXCEPT ![r] = posted[r] + 1]
        /\ UNCHANGED <<initial, passed>>
    BY <1>14, <2>1 DEF Signal, At, table
  <2>3. PICK told : told = IF value'[r] <= 0 THEN Woken(waitqueue[r], 1) ELSE {}
    OBVIOUS
  <2>4. /\ state' = [u \in Thread |-> IF u \in told THEN "READY" ELSE state[u]]
        /\ wasted' = [wasted EXCEPT ![r] = wasted[r] + Cardinality({u \in told : state[u] = "READY"})]
    BY <1>14, <2>1, <2>3 DEF Signal
  <2>5. Asleep(s)' = Asleep(s)
    BY <1>1, <2>2, AsleepSame DEF Calls
  <2>6. told \subseteq Asleep(r) /\ Asleep(r) \subseteq Thread /\ Asleep(s) \subseteq Thread
    BY <1>1, <2>3, WokenProperties DEF QueueInv, Asleep
  <2>7. CASE r # s
    <3>1. \A u \in Asleep(s) : u \notin told
      BY <2>6, <2>7 DEF Asleep, In
    <3>2. Sleepers(s)' = Sleepers(s)
      BY <1>4, <2>4, <2>5, <2>6, <3>1
    <3>3. value'[s] = value[s] /\ posted'[s] = posted[s] /\ wasted'[s] = wasted[s]
      BY <1>1, <2>2, <2>4, <2>7 DEF Types
    <3> QED BY <1>6, <2>2, <2>5, <3>2, <3>3
  <2>8. CASE r = s
    <3>1. /\ value'[s] = value[s] + 1 /\ posted'[s] = posted[s] + 1
          /\ initial'[s] = initial[s] /\ passed'[s] = passed[s]
      BY <1>1, <2>2, <2>8 DEF Types
    <3>2. Accounted(s)'
      BY <1>2, <1>3, <1>5, <2>5, <3>1 DEF Accounted
    <3> DEFINE again == {u \in told : state[u] = "READY"}
    <3>3. wasted'[s] = wasted[s] + Cardinality(again)
      BY <1>1, <2>4, <2>8 DEF Types
    <3>4. CASE value[s] >= 0
      <4>1. told = {}
        BY <1>3, <2>3, <2>8, <3>1, <3>4
      <4>2. Sleepers(s)' = Sleepers(s)
        BY <1>4, <2>4, <2>5, <2>6, <4>1
      <4>3. Cardinality(again) = 0
        BY <4>1, FS_EmptySet
      <4> QED BY <1>2, <1>3, <1>5, <3>1, <3>2, <3>3, <3>4, <4>2, <4>3 DEF Exact
    <3>5. CASE value[s] < 0
      <4>1. waitqueue[s] \in Seq(Thread) /\ Range(waitqueue[s]) = Asleep(s)
        BY <1>1 DEF Types, QueueInv
      <4>2. Asleep(s) # {}
        <5>1. Cardinality(Sleepers(s)) > 0
          BY <1>2, <1>3, <1>5, <3>5 DEF Exact
        <5>2. Sleepers(s) # {}
          BY <5>1, FS_EmptySet
        <5> QED BY <1>4, <5>2
      <4>3. told = Woken(waitqueue[s], 1)
        BY <1>3, <2>3, <2>8, <3>1, <3>5
      <4>4. PICK h : told = {h}
        BY <4>1, <4>2, <4>3, WokenHead
      <4>5. h \in Asleep(s) /\ h \in Thread
        BY <2>6, <2>8, <4>4
      <4>6. /\ state'[h] = "READY"
            /\ \A u \in Thread : u # h => state'[u] = state[u]
        BY <2>4, <4>4, <4>5
      <4>7. Sleepers(s)' = Sleepers(s) \ {h}
        BY <1>4, <2>5, <2>6, <4>6
      <4>8. CASE state[h] = "READY"
        <5>1. again = {h} /\ Sleepers(s)' = Sleepers(s)
          BY <1>4, <4>4, <4>7, <4>8
        <5>2. Cardinality(again) = 1
          BY <5>1, FS_Singleton
        <5> QED BY <1>2, <1>3, <1>5, <3>1, <3>2, <3>3, <3>5, <5>1, <5>2 DEF Exact
      <4>9. CASE state[h] # "READY"
        <5>1. again = {} /\ h \in Sleepers(s)
          BY <1>1, <1>4, <4>4, <4>5, <4>9 DEF Types
        <5>2. Cardinality(again) = 0 /\ Cardinality(Sleepers(s)') = Cardinality(Sleepers(s)) - 1
          <6>1. Cardinality(again) = 0
            BY <5>1, FS_EmptySet
          <6>2. Cardinality(Sleepers(s)') = Cardinality(Sleepers(s)) - 1
            BY <1>5, <4>7, <5>1, FS_RemoveElement
          <6> QED BY <6>1, <6>2
        <5> QED BY <1>2, <1>3, <1>5, <3>1, <3>2, <3>3, <3>5, <5>2 DEF Exact
      <4> QED BY <4>8, <4>9
    <3> QED BY <1>3, <3>4, <3>5
  <2> QED BY <2>7, <2>8
<1>15. ASSUME UNCHANGED <<state, value, initial, counts, pc, sem>> PROVE Accounted(s)' /\ Exact(s)'
  <2>1. Asleep(s)' = Asleep(s)
    BY <1>15 DEF Asleep, In
  <2> QED BY <1>7, <1>15, <2>1
<1>16. ASSUME NEW t \in Thread, Yield(t) PROVE Accounted(s)' /\ Exact(s)'
  BY <1>15, <1>16 DEF Yield, table
<1>17. ASSUME NEW set \in BOOLEAN, Interrupt(set) PROVE Accounted(s)' /\ Exact(s)'
  BY <1>15, <1>17 DEF Interrupt, table
<1>18. CASE UNCHANGED vars
  BY <1>15, <1>18 DEF vars, cpu, table
<1> QED BY <1>8, <1>9, <1>10, <1>11, <1>12, <1>13, <1>14, <1>16, <1>17, <1>18
        DEF Next, Timer, TimerSets, OtherIrq, DestroyUnlink, Find

LEMMA SemaphoreNext == Inv /\ [Next]_vars => Inv'
<1> SUFFICES ASSUME Inv, [Next]_vars PROVE Inv'
  OBVIOUS
<1>1. Types' /\ TableInv' /\ QueueInv'
  BY TypesNext, TableNext, QueueNext DEF Inv
<1>2. \A s \in Sem : Accounted(s)' /\ Exact(s)'
  BY SleepersNext
<1>3. ValueAccounts'
  BY <1>2 DEF ValueAccounts, Accounted, Asleep
<1>4. SleepersExact'
  BY <1>2 DEF SleepersExact, Exact
<1> QED BY <1>1, <1>3, <1>4 DEF Inv

LEMMA InvAlways == Spec => []Inv
BY SemaphoreInit, SemaphoreNext, PTL DEF Spec

--------------------------------------------------------------------------------
(* sem->value accounts for every call (sem.c:42, 56), whatever the         *)
(* interleaving of the calls and however many semaphores come and go.      *)
THEOREM ValueAlwaysAccounts == Spec => []ValueAccounts
<1>1. Inv => ValueAccounts
  BY DEF Inv
<1> QED BY <1>1, InvAlways, PTL

(* No wake-up of a semaphore is lost but those spent on a thread that had  *)
(* been woken already (task.c:125), and none is given twice.               *)
THEOREM SleepersAlwaysExact == Spec => []SleepersExact
<1>1. Inv => SleepersExact
  BY DEF Inv
<1> QED BY <1>1, InvAlways, PTL

(* A number leads to the semaphore it was given for (sem.c:82), however    *)
(* the list has grown and shrunk.                                          *)
THEOREM AlwaysFindsItsOwn == Spec => []FindsItsOwn
<1>1. Inv => FindsItsOwn
  BY GetSemaphore DEF Inv, TableInv, FindsItsOwn
<1> QED BY <1>1, InvAlways, PTL

(* A semaphore never lets more calls of sys_sem_wait pass than its initial *)
(* value and the signals allow, although wake_up may be spent in vain.     *)
NeverOvergrants == \A s \in Sem : passed[s] <= initial[s] + posted[s]

(* sys_sem_wait grants no permit that was not there or signalled.          *)
THEOREM GrantsBounded == Spec => []NeverOvergrants
<1>1. Inv => NeverOvergrants
  <2> SUFFICES ASSUME Inv, NEW s \in Sem PROVE passed[s] <= initial[s] + posted[s]
    BY DEF NeverOvergrants
  <2>1. /\ value[s] = initial[s] + posted[s] - passed[s] - Cardinality(Asleep(s))
        /\ Cardinality(Sleepers(s)) = (IF value[s] < 0 THEN -value[s] ELSE 0) + wasted[s]
    BY DEF Inv, ValueAccounts, SleepersExact, Asleep
  <2>2. /\ value[s] \in Int /\ initial[s] \in Nat
        /\ posted[s] \in Nat /\ passed[s] \in Nat /\ wasted[s] \in Nat
    BY DEF Inv, Types
  <2>3. Cardinality(Sleepers(s)) <= Cardinality(Asleep(s))
    <3>1. Sleepers(s) \subseteq Asleep(s)
      BY DEF Sleepers, Asleep
    <3> QED BY <3>1, AsleepFinite, FS_Subset
  <2>4. Cardinality(Asleep(s)) \in Nat /\ Cardinality(Sleepers(s)) \in Nat
    BY AsleepFinite
  <2> QED BY <2>1, <2>2, <2>3, <2>4
<1> QED BY <1>1, InvAlways, PTL

================================================================================
