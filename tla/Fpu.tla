----------------------------------- MODULE Fpu -----------------------------------
(***************************************************************************)
(* The lazy switching of the FPU registers: switch_to and the handler of   *)
(* exception 7 (src/kernel/machdep.c), sys_task_exit (task.c).  CR0.TS     *)
(* makes the first FPU instruction after a switch trap; the handler saves  *)
(* the registers for their owner and loads those of the running thread.    *)
(***************************************************************************)
CONSTANTS
  Threads,
  Idle,     (* task0, which runs kernel code only and so uses no FPU       *)
  Fresh,    (* the threads that have not run yet; {} when all have         *)
  Value,    (* contents of the FPU registers                               *)
  Clean,    (* the contents sys_task_create puts into tcb.fpu              *)
  None

ASSUME FpuAssumption ==
  /\ Idle \in Threads
  /\ Fresh \subseteq Threads \ {Idle}
  /\ Clean \in Value
  /\ None \notin Threads

VARIABLES
  onCpu,    (* g_task_running                                              *)
  started,  (* the threads that have been switched to                      *)
  exited,   (* the zombies                                                 *)
  TS,       (* the task-switched bit of CR0                                *)
  owner,    (* g_task_own_fpu                                              *)
  fpu,      (* the registers of the coprocessor                            *)
  saved,    (* tcb.fpu                                                     *)
  last      (* history: what the thread last put into the registers        *)

fpuVars == <<onCpu, started, exited, TS, owner, fpu, saved, last>>

(* At boot TS is clear; it is set once a thread has been switched back to. *)
(* Without fresh threads that is a state the kernel reaches: all threads   *)
(* have run, some of them twice, and none has used the FPU.                *)
FpuInit ==
  /\ onCpu \in Threads \ Fresh
  /\ started = Threads \ Fresh
  /\ exited = {}
  /\ TS = (Fresh = {})
  /\ owner = None
  /\ fpu = Clean
  /\ saved = [t \in Threads |-> Clean]
  /\ last = [t \in Threads |-> Clean]

(* switch_to(): a thread that comes back from its own call of switch_to    *)
(* sets TS; one that runs for the first time starts in ret_from_syscall    *)
(* and does not.                                                           *)
switch_to(t) ==
  /\ onCpu' = t
  /\ started' = started \cup {t}
  /\ TS' = (TS \/ t \in started)

Switch(t) ==
  /\ t \notin exited \cup {onCpu}
  /\ switch_to(t)
  /\ UNCHANGED <<exited, owner, fpu, saved, last>>

(* Faulty: exception 7 without its fnsave.                                 *)
UseUnsaved(v) ==
  /\ onCpu # Idle
  /\ fpu' = v
  /\ last' = [last EXCEPT ![onCpu] = v]
  /\ TS' = FALSE
  /\ owner' = IF TS THEN onCpu ELSE owner
  /\ UNCHANGED <<onCpu, started, exited, saved>>

(* An FPU instruction that leaves v in the registers, after the exception  *)
(* it may have raised.                                                     *)
Use(v) ==
  /\ onCpu # Idle
  /\ fpu' = v
  /\ last' = [last EXCEPT ![onCpu] = v]
  /\ TS' = FALSE
  /\ IF TS /\ owner # onCpu
     THEN /\ owner' = onCpu
          /\ saved' = [t \in Threads |-> IF t = owner THEN fpu ELSE saved[t]]
     ELSE UNCHANGED <<owner, saved>>
  /\ UNCHANGED <<onCpu, started, exited>>

(* Faulty: sys_task_exit() leaves g_task_own_fpu alone.                    *)
ExitKeepsOwner(t) ==
  /\ onCpu # Idle
  /\ t \notin exited \cup {onCpu}
  /\ exited' = exited \cup {onCpu}
  /\ switch_to(t)
  /\ UNCHANGED <<owner, fpu, saved, last>>

(* sys_task_exit(): a zombie owns no registers; the CPU goes to t.         *)
Exit(t) ==
  /\ onCpu # Idle
  /\ t \notin exited \cup {onCpu}
  /\ exited' = exited \cup {onCpu}
  /\ owner' = IF owner = onCpu THEN None ELSE owner
  /\ switch_to(t)
  /\ UNCHANGED <<fpu, saved, last>>

FpuNext ==
  \/ \E t \in Threads : Switch(t) \/ Exit(t)
  \/ \E v \in Value : Use(v)

FpuSpec == FpuInit /\ [][FpuNext]_fpuVars

--------------------------------------------------------------------------------
(* Types of the variables; a zombie never runs.                            *)
FpuTypeOK ==
  /\ onCpu \in Threads
  /\ started \subseteq Threads
  /\ exited \subseteq Threads \ {onCpu}
  /\ TS \in BOOLEAN
  /\ owner \in Threads \cup {None}
  /\ fpu \in Value
  /\ saved \in [Threads -> Value]
  /\ last \in [Threads -> Value]

(* What an FPU instruction of thread t finds in the registers, if it is    *)
(* the next one and t is running.                                          *)
Found(t) == IF t = owner THEN fpu ELSE saved[t]
FoundNow == IF TS THEN Found(onCpu) ELSE fpu

(* The registers are each thread's own (kernel.h:101, tcb.fpu): whatever   *)
(* ran in between, a thread finds in them what it last put there.          *)
RegistersKept == FoundNow = last[onCpu]

(* No zombie owns the registers: the handler would save them into a tcb    *)
(* that task_wait has freed.                                               *)
OwnerLives == owner \notin exited

(* While TS is clear the running thread owns the registers.                *)
ClearMeansOwner == ~TS => owner = onCpu

================================================================================
