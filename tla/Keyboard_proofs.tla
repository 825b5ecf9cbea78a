------------------------------ MODULE Keyboard_proofs ------------------------------
(***************************************************************************)
(* Proofs about module Keyboard: for any number of threads and of keys, a  *)
(* key pressed while a call of sys_getchar waits reaches a call or is      *)
(* overtaken by the next one, and no key lets two calls return.            *)
(***************************************************************************)
EXTENDS Keyboard, WaitQueue_proofs, FiniteSetTheorems, TLAPS

Types ==
  /\ running \in Thread \cup {task0}
  /\ state \in [Thread -> {"READY", "WAITING"}]
  /\ wq_kbd \in Seq(Thread)
  /\ pc \in [Thread -> {"user", "asleep", "return"}]
  /\ keys \in Nat
  /\ calls \in Nat

(* The buffer holds the last key.                                          *)
BufferInv == buf_kbd = keys

(* The queue holds the sleepers, each once, until they run; a thread that  *)
(* does not sleep is READY, and only a READY thread runs: so a sleeper     *)
(* that gets the CPU has been woken by a key.                              *)
Asleep == {t \in Thread : pc[t] = "asleep"}
QueueInv ==
  /\ NoDuplicates(wq_kbd)
  /\ Range(wq_kbd) = Asleep
  /\ \A t \in Thread : pc[t] # "asleep" => state[t] = "READY"
  /\ running \in Thread => state[running] = "READY"

Inv == Types /\ BufferInv /\ QueueInv /\ KeyReachesCall /\ AtMostOneCallPerKey

Leavers == {t \in Thread : Leaving(t)}

--------------------------------------------------------------------------------
(* schedule(), called from the program or from an interrupt, gives the CPU *)
(* to a READY thread or to task0.                                          *)
LEMMA ScheduleReady ==
  ASSUME NEW ready, NEW flag, Schedule(ready, flag)
  PROVE  running' \in ready \cup {task0}
BY DEF Schedule, Selectable

LEMMA InterruptReady ==
  ASSUME NEW ready, NEW set, ReturnFromInterrupt(ready, set)
  PROVE  running' = running \/ running' \in ready \cup {task0}
<1>1. CASE resched \/ set
  <2>1. Schedule(ready, TRUE)
    BY <1>1 DEF ReturnFromInterrupt
  <2> QED BY <2>1, ScheduleReady
<1>2. CASE ~(resched \/ set)
  BY <1>2 DEF ReturnFromInterrupt
<1> QED BY <1>1, <1>2

LEMMA LeaversFinite == IsFiniteSet(Leavers) /\ Cardinality(Leavers) \in Nat
<1>1. Leavers \subseteq Thread
  BY DEF Leavers
<1>2. IsFiniteSet(Leavers)
  BY <1>1, FS_Subset, KeyboardAssumption
<1> QED BY <1>2, FS_CardinalityType

(* A set that gains one element at most.                                   *)
LEMMA GainsOne ==
  ASSUME NEW A, IsFiniteSet(A), NEW B, NEW x, B = A \/ B = A \cup {x}
  PROVE  Cardinality(B) <= Cardinality(A) + 1
<1>1. Cardinality(A) \in Nat
  BY FS_CardinalityType
<1>2. Cardinality(A \cup {x}) = IF x \in A THEN Cardinality(A) ELSE Cardinality(A) + 1
  BY FS_AddElement
<1> QED BY <1>1, <1>2

LEMMA KeyboardInit == Init => Inv
<1> SUFFICES ASSUME Init PROVE Inv
  OBVIOUS
<1>1. Types /\ BufferInv /\ KeyReachesCall
  BY DEF Init, Types, BufferInv, KeyReachesCall
<1>2. QueueInv
  BY NoElements, KeyboardAssumption DEF Init, QueueInv, Asleep
<1>3. AtMostOneCallPerKey
  <2>1. {t \in Thread : Leaving(t)} = {}
    BY DEF Init, Leaving
  <2> QED BY <2>1, FS_EmptySet DEF Init, AtMostOneCallPerKey
<1> QED BY <1>1, <1>2, <1>3 DEF Inv

--------------------------------------------------------------------------------
(* A step after which nobody is leaving who was not before, and which      *)
(* counts no call, keeps the bound.                                        *)
LEMMA SameLeavers ==
  ASSUME Inv, Leavers' = Leavers, UNCHANGED <<keys, calls>>
  PROVE  AtMostOneCallPerKey'
BY DEF Inv, AtMostOneCallPerKey, Leavers

LEMMA SleepSafe ==
  ASSUME Inv, NEW t \in Thread, GetcharSleep(t)
  PROVE  Inv'
<1> USE DEF GetcharSleep
<1>1. /\ pc' = [pc EXCEPT ![t] = "asleep"] /\ pc[t] = "user"
      /\ state' = [state EXCEPT ![t] = "WAITING"]
      /\ UNCHANGED <<buf_kbd, keys, calls, owed>>
      /\ pc \in [Thread -> {"user", "asleep", "return"}]
      /\ state \in [Thread -> {"READY", "WAITING"}]
  BY DEF Inv, Types, history
<1>2. /\ pc'[t] = "asleep" /\ state'[t] = "WAITING"
      /\ \A u \in Thread \ {t} : pc'[u] = pc[u] /\ state'[u] = state[u]
  BY <1>1
<1>3. t \notin Range(wq_kbd) /\ wq_kbd \in Seq(Thread)
  BY <1>1 DEF Inv, QueueInv, Asleep, Types
<1>4. /\ wq_kbd' \in Seq(Thread) /\ NoDuplicates(wq_kbd')
      /\ Range(wq_kbd') = Range(wq_kbd) \cup {t}
  BY <1>3, LinkProperties DEF Inv, QueueInv
<1>5. running' \in Ready(state') \cup {task0}
  BY ScheduleReady
<1>6. Types'
  BY <1>1, <1>4, <1>5 DEF Inv, Types, Ready
<1>7. BufferInv'
  BY <1>1 DEF Inv, BufferInv
<1>8. QueueInv'
  <2>1. Asleep' = Asleep \cup {t}
    BY <1>2 DEF Asleep
  <2>2. \A u \in Thread : pc'[u] # "asleep" => state'[u] = "READY"
    BY <1>2 DEF Inv, QueueInv
  <2>3. running' \in Thread => state'[running'] = "READY"
    BY <1>5, KeyboardAssumption DEF Ready
  <2> QED BY <1>4, <2>1, <2>2, <2>3 DEF Inv, QueueInv
<1>9. \A u \in Thread : Leaving(u)' <=> Leaving(u)
  BY <1>1, <1>2 DEF Leaving
<1>10. KeyReachesCall'
  BY <1>1, <1>9 DEF Inv, KeyReachesCall
<1>11. AtMostOneCallPerKey'
  <2>1. Leavers' = Leavers
    BY <1>9 DEF Leavers
  <2> QED BY <1>1, <2>1, SameLeavers
<1> QED BY <1>6, <1>7, <1>8, <1>10, <1>11 DEF Inv

(* The thread was leaving before it ran, because somebody woke it.         *)
LEMMA ResumeSafe ==
  ASSUME Inv, NEW t \in Thread, Resume(t)
  PROVE  Inv'
<1> USE DEF Resume
<1>1. /\ pc' = [pc EXCEPT ![t] = "return"] /\ pc[t] = "asleep" /\ state[t] = "READY"
      /\ UNCHANGED <<state, buf_kbd, keys, calls, owed>>
      /\ pc \in [Thread -> {"user", "asleep", "return"}]
  BY DEF Inv, Types, QueueInv, history
<1>2. pc'[t] = "return" /\ \A u \in Thread \ {t} : pc'[u] = pc[u]
  BY <1>1
<1>3. /\ wq_kbd' \in Seq(Thread) /\ NoDuplicates(wq_kbd')
      /\ Range(wq_kbd') = Range(wq_kbd) \ {t}
  BY UnlinkProperties DEF Inv, QueueInv, Types
<1>4. Types' /\ BufferInv'
  BY <1>1, <1>3 DEF Inv, Types, BufferInv
<1>5. QueueInv'
  <2>1. Asleep' = Asleep \ {t}
    BY <1>2 DEF Asleep
  <2>2. \A u \in Thread : pc'[u] # "asleep" => state'[u] = "READY"
    BY <1>1, <1>2 DEF Inv, QueueInv
  <2> QED BY <1>3, <2>1, <2>2 DEF Inv, QueueInv
<1>6. \A u \in Thread : Leaving(u)' <=> Leaving(u)
  BY <1>1, <1>2 DEF Leaving
<1>7. KeyReachesCall'
  BY <1>1, <1>6 DEF Inv, KeyReachesCall
<1>8. AtMostOneCallPerKey'
  <2>1. Leavers' = Leavers
    BY <1>6 DEF Leavers
  <2> QED BY <1>1, <2>1, SameLeavers
<1> QED BY <1>4, <1>5, <1>7, <1>8 DEF Inv

(* A call that returns leaves the threads that are leaving.                *)
LEMMA ReturnSafe ==
  ASSUME Inv, NEW t \in Thread, GetcharReturn(t)
  PROVE  Inv'
<1> USE DEF GetcharReturn
<1>1. /\ pc' = [pc EXCEPT ![t] = "user"] /\ pc[t] = "return"
      /\ pc \in [Thread -> {"user", "asleep", "return"}]
  BY DEF Inv, Types
<1>2. /\ pc'[t] = "user"
      /\ \A u \in Thread \ {t} : pc'[u] = pc[u]
  BY <1>1
<1>3. Types' /\ BufferInv'
  BY <1>1 DEF Inv, Types, BufferInv
<1>4. QueueInv'
  <2>1. Asleep' = Asleep
    BY <1>1, <1>2 DEF Asleep
  <2>2. \A u \in Thread : pc'[u] # "asleep" => state'[u] = "READY"
    BY <1>1, <1>2 DEF Inv, QueueInv
  <2> QED BY <2>1, <2>2 DEF Inv, QueueInv
<1>5. ~Leaving(t)' /\ Leaving(t) /\ \A u \in Thread \ {t} : Leaving(u)' <=> Leaving(u)
  BY <1>1, <1>2 DEF Leaving
<1>6. KeyReachesCall'
  <2>1. \A k \in owed : k = buf_kbd
    BY DEF Inv, KeyReachesCall
  <2> QED BY <2>1 DEF KeyReachesCall
<1>7. AtMostOneCallPerKey'
  <2>1. t \in Leavers /\ Leavers' = Leavers \ {t}
    BY <1>5 DEF Leavers
  <2>2. Cardinality(Leavers') = Cardinality(Leavers) - 1
    BY <2>1, LeaversFinite, FS_RemoveElement
  <2>3. calls + Cardinality(Leavers) <= keys /\ calls \in Nat /\ keys \in Nat
    BY DEF Inv, AtMostOneCallPerKey, Leavers, Types
  <2>4. calls' + Cardinality(Leavers') <= keys'
    BY <2>2, <2>3, LeaversFinite
  <2> QED BY <2>4 DEF AtMostOneCallPerKey, Leavers
<1> QED BY <1>3, <1>4, <1>6, <1>7 DEF Inv

(* A key wakes the head of the queue: at most one thread more is leaving,  *)
(* and if any call waits at all, some call is leaving and finds the key.   *)
LEMMA KeySafe ==
  ASSUME Inv, Key
  PROVE  Inv'
<1> DEFINE woken == Woken(wq_kbd, 1)
<1>1. /\ keys' = keys + 1 /\ buf_kbd' = keys + 1 /\ keys \in Nat
      /\ state' = [t \in Thread |-> IF t \in woken THEN "READY" ELSE state[t]]
      /\ UNCHANGED <<wq_kbd, pc, calls>>
      /\ state \in [Thread -> {"READY", "WAITING"}]
  BY DEF Inv, Types, Key, Pressed
<1>9. owed' = (IF \E t \in Thread : Leaving(t) THEN {} ELSE owed) \cup
              (IF \E t \in Thread : pc[t] # "user" THEN {keys'} ELSE {})
  BY DEF Key, Pressed
<1> HIDE DEF woken
<1>2. \A t \in Thread : /\ t \in woken => state'[t] = "READY"
                        /\ t \notin woken => state'[t] = state[t]
                        /\ state[t] = "READY" => state'[t] = "READY"
  BY <1>1
<1>3. running' = running \/ running' \in Ready(state') \cup {task0}
  BY InterruptReady DEF Key
<1>4. Types'
  BY <1>1, <1>3 DEF Inv, Types, Ready
<1>5. BufferInv'
  BY <1>1 DEF BufferInv
<1>6. QueueInv'
  <2>1. Asleep' = Asleep
    BY <1>1 DEF Asleep
  <2>2. \A t \in Thread : pc'[t] # "asleep" => state'[t] = "READY"
    BY <1>1, <1>2 DEF Inv, QueueInv
  <2>3. running' \in Thread => state'[running'] = "READY"
    BY <1>2, <1>3, KeyboardAssumption DEF Ready, Inv, QueueInv
  <2> QED BY <1>1, <2>1, <2>2, <2>3 DEF Inv, QueueInv
<1>7. KeyReachesCall'
  <2>1. (IF \E t \in Thread : Leaving(t) THEN {} ELSE owed) = {}
    BY DEF Inv, KeyReachesCall
  <2> SUFFICES ASSUME NEW u \in Thread, pc[u] # "user"
               PROVE  \E t \in Thread : Leaving(t)'
    BY <1>1, <1>9, <2>1 DEF KeyReachesCall
  <2>2. CASE pc[u] = "return"
    BY <1>1, <2>2 DEF Leaving
  <2>3. CASE pc[u] = "asleep"
    <3>1. u \in Range(wq_kbd) /\ wq_kbd \in Seq(Thread)
      BY <2>3 DEF Inv, QueueInv, Asleep, Types
    <3>2. 1 \in DOMAIN wq_kbd
      BY <3>1 DEF Range
    <3>3. wq_kbd[1] \in woken /\ wq_kbd[1] \in Range(wq_kbd)
      BY <3>1, <3>2 DEF woken, Woken, Range
    <3>4. wq_kbd[1] \in Thread /\ pc[wq_kbd[1]] = "asleep"
      BY <3>3 DEF Inv, QueueInv, Asleep
    <3> QED BY <1>1, <1>2, <3>3, <3>4 DEF Leaving
  <2> QED BY <2>2, <2>3 DEF Inv, Types
<1>8. AtMostOneCallPerKey'
  <2>1. \A t, u \in woken : t = u
    BY WokenOne DEF woken, Inv, Types
  <2>2. woken \subseteq Asleep
    BY WokenProperties DEF woken, Inv, QueueInv
  <2>3. Leavers' = Leavers \cup woken
    <3>1. \A t \in Thread : Leaving(t)' <=> Leaving(t) \/ t \in woken
      BY <1>1, <1>2, <2>2 DEF Leaving, Asleep
    <3> QED BY <3>1, <2>2 DEF Leavers, Asleep
  <2>4. PICK x : Leavers' = Leavers \/ Leavers' = Leavers \cup {x}
    <3>1. CASE woken = {}
      BY <3>1, <2>3
    <3>2. CASE woken # {}
      <4>1. PICK x : x \in woken
        BY <3>2
      <4>2. woken = {x}
        BY <4>1, <2>1
      <4> QED BY <4>2, <2>3
    <3> QED BY <3>1, <3>2
  <2>5. /\ Cardinality(Leavers) \in Nat /\ Cardinality(Leavers') \in Nat
        /\ Cardinality(Leavers') <= Cardinality(Leavers) + 1
    <3>1. IsFiniteSet(Leavers) /\ Cardinality(Leavers) \in Nat
      BY LeaversFinite
    <3>2. IsFiniteSet(Leavers')
      BY <2>4, <3>1, FS_AddElement
    <3> QED BY <2>4, <3>1, <3>2, GainsOne, FS_CardinalityType
  <2>6. calls + Cardinality(Leavers) <= keys /\ calls \in Nat
    BY DEF Inv, AtMostOneCallPerKey, Leavers, Types
  <2>7. calls' + Cardinality(Leavers') <= keys'
    BY <2>5, <2>6, <1>1
  <2> QED BY <2>7 DEF AtMostOneCallPerKey, Leavers
<1> QED BY <1>4, <1>5, <1>6, <1>7, <1>8 DEF Inv

(* Giving up the CPU, and interrupts that touch no thread.                 *)
LEMMA SwitchSafe ==
  ASSUME Inv, UNCHANGED <<state, wq_kbd, buf_kbd, pc, keys, calls, owed>>,
         running' = running \/ running' \in Ready(state) \cup {task0}
  PROVE  Inv'
<1>1. Types' /\ BufferInv'
  BY DEF Inv, Types, BufferInv, Ready
<1>2. QueueInv'
  <2>1. Asleep' = Asleep
    BY DEF Asleep
  <2>2. running' \in Thread => state'[running'] = "READY"
    BY KeyboardAssumption DEF Ready, Inv, QueueInv
  <2> QED BY <2>1, <2>2 DEF Inv, QueueInv
<1>3. \A t \in Thread : Leaving(t)' <=> Leaving(t)
  BY DEF Leaving
<1>4. KeyReachesCall'
  BY <1>3 DEF Inv, KeyReachesCall
<1>5. AtMostOneCallPerKey'
  <2>1. Leavers' = Leavers
    BY <1>3 DEF Leavers
  <2> QED BY <2>1, SameLeavers
<1> QED BY <1>1, <1>2, <1>4, <1>5 DEF Inv

LEMMA KeyboardNext == Inv /\ [Next]_vars => Inv'
<1> SUFFICES ASSUME Inv, [Next]_vars PROVE Inv'
  OBVIOUS
<1>1. ASSUME NEW t \in Thread, GetcharSleep(t) PROVE Inv'
  BY <1>1, SleepSafe
<1>2. ASSUME NEW t \in Thread, Resume(t) PROVE Inv'
  BY <1>2, ResumeSafe
<1>3. ASSUME NEW t \in Thread, GetcharReturn(t) PROVE Inv'
  BY <1>3, ReturnSafe
<1>4. CASE Key
  BY <1>4, KeySafe
<1>5. ASSUME NEW t \in Thread, Yield(t) PROVE Inv'
  <2>1. Schedule(Ready(state), resched)
    BY <1>5 DEF Yield
  <2> QED BY <2>1, <1>5, ScheduleReady, SwitchSafe DEF Yield, history
<1>6. ASSUME NEW set, Interrupt(set) PROVE Inv'
  <2>1. ReturnFromInterrupt(Ready(state), set)
    BY <1>6 DEF Interrupt
  <2> QED BY <2>1, <1>6, InterruptReady, SwitchSafe DEF Interrupt, history
<1>7. CASE UNCHANGED vars
  BY <1>7, SwitchSafe DEF vars
<1> QED BY <1>1, <1>2, <1>3, <1>4, <1>5, <1>6, <1>7 DEF Next, Timer, IgnoredScan

LEMMA KeyboardInv == Spec => []Inv
BY KeyboardInit, KeyboardNext, PTL DEF Spec

(* However many threads wait and however fast keys come: a key pressed     *)
(* while a call of sys_getchar waits stays in the buffer until a call that *)
(* has been woken returns it, or until the next key overtakes that call.   *)
THEOREM KeysReachCalls == Spec => []KeyReachesCall
<1>1. Inv => KeyReachesCall
  BY DEF Inv
<1> QED BY <1>1, KeyboardInv, PTL

(* isr_keyboard wakes one thread per key, and nobody else wakes a sleeper  *)
(* of wq_kbd: the calls that return are no more than the keys.             *)
THEOREM OneCallPerKey == Spec => []AtMostOneCallPerKey
<1>1. Inv => AtMostOneCallPerKey
  BY DEF Inv
<1> QED BY <1>1, KeyboardInv, PTL

================================================================================
