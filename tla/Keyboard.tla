-------------------------------- MODULE Keyboard --------------------------------
(***************************************************************************)
(* The keyboard (src/kernel/kbd.c): the interrupt handler, its one-key     *)
(* buffer, and the threads blocked in sys_getchar.  A key is the number of *)
(* its press; which scan codes make a key is left to kbd_translate.        *)
(***************************************************************************)
EXTENDS Scheduler, FiniteSets

CONSTANTS
  Thread,     (* the user threads                                          *)
  MaxKeys     (* bound: keys pressed                                       *)

ASSUME KeyboardAssumption ==
  /\ IsFiniteSet(Thread)
  /\ task0 \notin Thread
  /\ MaxKeys \in Nat

VARIABLES
  state,      (* tcb.state of the user threads                             *)
  wq_kbd,     (* the threads in sys_getchar's sleep_on                     *)
  buf_kbd,    (* the last key, 0 at start                                  *)
  pc,         (* "user", "asleep", or "return": awake, buffer not yet read *)
  keys,       (* history: keys pressed                                     *)
  calls,      (* history: calls of sys_getchar that have returned          *)
  owed        (* history: keys pressed while some call was waiting that no *)
              (* call has returned, those excepted that another key came   *)
              (* after while a call was on its way to the buffer           *)

history == <<keys, calls, owed>>
vars == <<running, resched, state, wq_kbd, buf_kbd, pc, keys, calls, owed>>

Init ==
  /\ running = task0
  /\ resched = FALSE
  /\ state = [t \in Thread |-> "READY"]
  /\ wq_kbd = <<>>
  /\ buf_kbd = 0
  /\ pc = [t \in Thread |-> "user"]
  /\ keys = 0
  /\ calls = 0
  /\ owed = {}

Ready(st) == {t \in Thread : st[t] = "READY"}

InterruptsOn == running \in Thread => pc[running] # "asleep"

--------------------------------------------------------------------------------
(* sys_getchar() sleeps whatever the buffer holds.                         *)
GetcharSleep(t) ==
  /\ running = t /\ pc[t] = "user"
  /\ wq_kbd' = Link(wq_kbd, t)
  /\ pc' = [pc EXCEPT ![t] = "asleep"]
  /\ state' = [state EXCEPT ![t] = "WAITING"]
  /\ Schedule(Ready(state'), resched)
  /\ UNCHANGED <<buf_kbd, history>>

(* schedule() returns: unlink the node, turn interrupts on again.          *)
Resume(t) ==
  /\ running = t /\ pc[t] = "asleep"
  /\ wq_kbd' = Unlink(wq_kbd, t)
  /\ pc' = [pc EXCEPT ![t] = "return"]
  /\ UNCHANGED <<running, resched, state, buf_kbd, history>>

(* return buf_kbd, outside the critical section.                           *)
GetcharReturn(t) ==
  /\ running = t /\ pc[t] = "return"
  /\ pc' = [pc EXCEPT ![t] = "user"]
  /\ calls' = calls + 1
  /\ owed' = owed \ {buf_kbd}
  /\ UNCHANGED <<running, resched, state, wq_kbd, buf_kbd, keys>>

(* A thread on its way out of sys_getchar, from the moment it is woken.    *)
Leaving(t) == pc[t] = "return" \/ (pc[t] = "asleep" /\ state[t] = "READY")

(* What a new key does to the history.                                     *)
Pressed ==
  /\ keys' = keys + 1
  /\ owed' = (IF \E t \in Thread : Leaving(t) THEN {} ELSE owed) \cup
             (IF \E t \in Thread : pc[t] # "user" THEN {keys'} ELSE {})
  /\ UNCHANGED calls

(* Faulty: isr_keyboard() wakes nobody while there is a key in the buffer. *)
KeyQuiet ==
  /\ InterruptsOn
  /\ keys < MaxKeys
  /\ Pressed
  /\ buf_kbd' = keys'
  /\ state' = [t \in Thread |->
                 IF buf_kbd = 0 /\ t \in Woken(wq_kbd, 1) THEN "READY" ELSE state[t]]
  /\ ReturnFromInterrupt(Ready(state'), FALSE)
  /\ UNCHANGED <<wq_kbd, pc>>

(* isr_keyboard() for a scan code that makes a key: overwrite the buffer,  *)
(* wake the thread at the head of the queue, even if it has been woken.    *)
Key ==
  /\ InterruptsOn
  /\ keys < MaxKeys
  /\ Pressed
  /\ buf_kbd' = keys'
  /\ state' = [t \in Thread |->
                 IF t \in Woken(wq_kbd, 1) THEN "READY" ELSE state[t]]
  /\ ReturnFromInterrupt(Ready(state'), FALSE)
  /\ UNCHANGED <<wq_kbd, pc>>

Yield(t) ==
  /\ running = t /\ pc[t] = "user"
  /\ Schedule(Ready(state), resched)
  /\ UNCHANGED <<state, wq_kbd, buf_kbd, pc, history>>

(* Shift, control and the like, and the scan codes kbd_translate ignores,  *)
(* end the handler early: an interrupt that touches no thread.             *)
Interrupt(set) ==
  /\ InterruptsOn
  /\ ReturnFromInterrupt(Ready(state), set)
  /\ UNCHANGED <<state, wq_kbd, buf_kbd, pc, history>>

Timer == \E set \in TimerSets : Interrupt(set)
IgnoredScan == Interrupt(FALSE)

Next ==
  \/ \E t \in Thread :
       GetcharSleep(t) \/ Resume(t) \/ GetcharReturn(t) \/ Yield(t)
  \/ Key
  \/ Timer
  \/ IgnoredScan

Spec == Init /\ [][Next]_vars

--------------------------------------------------------------------------------
(* isr_keyboard and sys_getchar share one slot, read with interrupts on    *)
(* (kbd.c:249, 270).  A key pressed while a call waits reaches a call,     *)
(* unless the next key overtakes it: as long as it is owed it is the one   *)
(* in the buffer, and some call has been woken and will read it.  Of a key *)
(* pressed while nobody waits nothing is said: kbd.c:259 has the call wait *)
(* only "if there is no key", but sys_getchar() sleeps all the same        *)
(* (kbd.c:267), and the next key overwrites the one in the buffer.         *)
KeyReachesCall ==
  \A k \in owed : k = buf_kbd /\ \E t \in Thread : Leaving(t)

(* One key lets at most one call of sys_getchar return.                    *)
AtMostOneCallPerKey ==
  calls + Cardinality({t \in Thread : Leaving(t)}) <= keys

================================================================================
