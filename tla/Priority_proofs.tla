------------------------------ MODULE Priority_proofs ------------------------------
(***************************************************************************)
(* Proofs about module Priority, for any number of threads, nice values    *)
(* and bounds: what the scan of schedule() computes, how priorities move   *)
(* and what the threads get of the CPU; and about module Fpu: registers    *)
(* that follow, lazily, the thread the CPU is switched to.                 *)
(***************************************************************************)
EXTENDS Priority, Fpu, FiniteSetTheorems, WellFoundedInduction, TLAPS

(* Numbers have a least element.                                           *)
LEMMA LeastNumber ==
  ASSUME NEW T \in SUBSET Nat, T # {}
  PROVE  \E n \in T : \A m \in T : n <= m
<1> DEFINE R == {ss \in Nat \X Nat : ss[1] < ss[2]}
<1>1. IsWellFoundedOn(R, Nat)
  BY NatLessThanWellFounded, Zenon DEF OpToRel
<1>2. \A x, y \in Nat : <<x, y>> \in R <=> x < y
  OBVIOUS
<1> HIDE DEF R
<1>3. PICK x \in T : \A y \in T : ~(<<y, x>> \in R)
  BY <1>1, WFMin
<1>4. \A y \in T : ~(y < x)
  BY <1>2, <1>3
<1> QED BY <1>4

--------------------------------------------------------------------------------
(* The values of best, round by round.                                     *)
IsScan(f, n, current, st, pri) ==
  f = [i \in 0 .. n |-> IF i = 0 THEN current ELSE Better(f[i - 1], Order[i], st, pri)]

LEMMA ScanExists ==
  ASSUME NEW current, NEW st, NEW pri
  PROVE  \A n \in Nat : \E f : IsScan(f, n, current, st, pri)
<1> DEFINE Bad == {n \in Nat : ~\E f : IsScan(f, n, current, st, pri)}
<1> SUFFICES ASSUME Bad # {} PROVE FALSE
  OBVIOUS
<1>1. PICK n \in Bad : \A m \in Bad : n <= m
  BY LeastNumber
<1>2. n \in Nat /\ ~\E f : IsScan(f, n, current, st, pri)
  BY <1>1
<1>3. CASE n = 0
  <2>1. IsScan([i \in 0 .. 0 |-> current], 0, current, st, pri)
    BY DEF IsScan
  <2> QED BY <1>2, <1>3, <2>1
<1>4. CASE n # 0
  <2>1. n - 1 \in Nat /\ n - 1 \notin Bad
    BY <1>1, <1>2, <1>4
  <2>2. PICK g : IsScan(g, n - 1, current, st, pri)
    BY <2>1
  <2> DEFINE f == [i \in 0 .. n |-> IF i = n THEN Better(g[n - 1], Order[n], st, pri) ELSE g[i]]
  <2>3. \A i \in 0 .. n - 1 : f[i] = g[i]
    BY <1>2
  <2>4. \A i \in 0 .. n : f[i] = IF i = 0 THEN current ELSE Better(f[i - 1], Order[i], st, pri)
    <3> SUFFICES ASSUME NEW i \in 0 .. n
                 PROVE  f[i] = IF i = 0 THEN current ELSE Better(f[i - 1], Order[i], st, pri)
      OBVIOUS
    <3>1. CASE i = n
      <4>1. f[n] = Better(g[n - 1], Order[n], st, pri) /\ f[n - 1] = g[n - 1]
        BY <1>2, <1>4, <2>3
      <4> HIDE DEF f
      <4> QED BY <3>1, <4>1, <1>4
    <3>2. CASE i # n /\ i # 0
      <4>1. i \in 0 .. n - 1 /\ i - 1 \in 0 .. n - 1
        BY <1>2, <3>2
      <4>2. f[i] = g[i] /\ f[i - 1] = g[i - 1]
        BY <2>3, <4>1
      <4> HIDE DEF f
      <4>3. g[i] = Better(g[i - 1], Order[i], st, pri)
        BY <2>2, <3>2, <4>1 DEF IsScan
      <4> QED BY <3>2, <4>2, <4>3
    <3>3. CASE i # n /\ i = 0
      <4>1. i \in 0 .. n - 1
        BY <1>2, <3>3
      <4>2. f[i] = g[i]
        BY <2>3, <4>1
      <4> HIDE DEF f
      <4> QED BY <2>2, <3>3, <4>1, <4>2 DEF IsScan
    <3> QED BY <3>1, <3>2, <3>3
  <2>5. f = [i \in 0 .. n |-> f[i]]
    OBVIOUS
  <2> HIDE DEF f
  <2>6. IsScan(f, n, current, st, pri)
    BY <2>4, <2>5 DEF IsScan
  <2> QED BY <1>2, <2>6
<1> QED BY <1>3, <1>4

LEMMA ScanIsLast ==
  ASSUME NEW current, NEW st, NEW pri
  PROVE  \E f : IsScan(f, Len(Order), current, st, pri) /\ Scan(current, st, pri) = f[Len(Order)]
<1>1. Len(Order) \in Nat
  BY PriorityAssumption
<1> DEFINE best == CHOOSE f : IsScan(f, Len(Order), current, st, pri)
<1>2. IsScan(best, Len(Order), current, st, pri)
  BY <1>1, ScanExists
<1>3. Scan(current, st, pri) = best[Len(Order)]
  BY DEF Scan, IsScan
<1> QED BY <1>2, <1>3

(* What the scan returns.  Seen: the threads of the first i rounds.        *)
LEMMA ScanSelects ==
  ASSUME NEW current \in Tasks, NEW st, NEW pri \in [Tasks -> Int]
  PROVE  LET best == Scan(current, st, pri)
         IN  /\ best = current \/ best \in {t \in Thread : st[t] = "READY"}
             /\ best = task0 => \A t \in Thread : st[t] # "READY"
             /\ best # task0 => \A t \in Thread : st[t] = "READY" => pri[t] <= pri[best]
<1>1. Len(Order) \in Nat /\ DOMAIN Order = 1 .. Len(Order) /\ \A i \in 1 .. Len(Order) : Order[i] \in Thread
  BY PriorityAssumption DEF Thread, Range
<1>2. task0 \notin Thread
  BY PriorityAssumption
<1>3. PICK best : IsScan(best, Len(Order), current, st, pri) /\ Scan(current, st, pri) = best[Len(Order)]
  BY ScanIsLast
<1>4. best[0] = current
  BY <1>1, <1>3 DEF IsScan
<1>5. \A i \in 1 .. Len(Order) : best[i] = Better(best[i - 1], Order[i], st, pri)
  BY <1>1, <1>3 DEF IsScan
<1> DEFINE Good(i) ==
      /\ best[i] = current \/ best[i] \in {t \in Thread : st[t] = "READY"}
      /\ best[i] = task0 => \A j \in 1 .. i : st[Order[j]] # "READY"
      /\ best[i] # task0 => \A j \in 1 .. i : st[Order[j]] = "READY" => pri[Order[j]] <= pri[best[i]]
<1> DEFINE Bad == {i \in 0 .. Len(Order) : ~Good(i)}
<1>6. Bad = {}
  <2> SUFFICES ASSUME Bad # {} PROVE FALSE
    OBVIOUS
  <2>0. Bad \in SUBSET Nat
    OBVIOUS
  <2>1. PICK n \in Bad : \A m \in Bad : n <= m
    BY <2>0, LeastNumber
  <2>2. n \in 0 .. Len(Order) /\ ~Good(n)
    BY <2>1
  <2>3. n # 0
    <3>1. Good(0)
      BY <1>4
    <3> QED BY <2>2, <3>1
  <2>4. n \in 1 .. Len(Order) /\ n - 1 \in 0 .. Len(Order) /\ ~(n <= n - 1)
    BY <1>1, <2>2, <2>3
  <2>5. Good(n - 1)
    BY <2>1, <2>4
  <2> DEFINE old == best[n - 1]
  <2>6. best[n] = IF st[Order[n]] = "READY" /\ (pri[Order[n]] > pri[old] \/ old = task0) THEN Order[n] ELSE old
    BY <1>5, <2>4 DEF Better
  <2>7. Order[n] \in Thread /\ Order[n] # task0 /\ old \in Tasks
    BY <1>1, <1>2, <2>4, <2>5 DEF Tasks
  <2>8. pri[Order[n]] \in Int /\ pri[old] \in Int /\ \A j \in 1 .. n : pri[Order[j]] \in Int
    <3>1. \A j \in 1 .. n : Order[j] \in Tasks
      BY <1>1, <2>4 DEF Tasks
    <3>2. Order[n] \in Tasks
      BY <2>7 DEF Tasks
    <3> QED BY <2>7, <3>1, <3>2
  <2>9. \A j \in 1 .. n : j = n \/ j \in 1 .. n - 1
    BY <2>4
  <2>10. CASE st[Order[n]] = "READY" /\ (pri[Order[n]] > pri[old] \/ old = task0)
    <3>1. best[n] = Order[n]
      BY <2>6, <2>10
    <3>2. \A j \in 1 .. n : st[Order[j]] = "READY" => pri[Order[j]] <= pri[Order[n]]
      BY <2>5, <2>8, <2>9, <2>10
    <3> QED BY <2>2, <2>7, <2>10, <3>1, <3>2
  <2>11. CASE ~(st[Order[n]] = "READY" /\ (pri[Order[n]] > pri[old] \/ old = task0))
    <3>1. best[n] = old
      BY <2>6, <2>11
    <3>2. old = task0 => \A j \in 1 .. n : st[Order[j]] # "READY"
      BY <2>5, <2>9, <2>11
    <3>3. old # task0 => \A j \in 1 .. n : st[Order[j]] = "READY" => pri[Order[j]] <= pri[old]
      BY <2>5, <2>8, <2>9, <2>11
    <3> QED BY <2>2, <2>5, <3>1, <3>2, <3>3
  <2> QED BY <2>10, <2>11
<1>7. Good(Len(Order))
  BY <1>1, <1>6
<1>8. \A t \in Thread : \E j \in 1 .. Len(Order) : t = Order[j]
  BY <1>1 DEF Thread, Range
<1> QED BY <1>3, <1>7, <1>8

--------------------------------------------------------------------------------
(* What the arithmetic is about: numbers, and a load that is not negative, *)
(* without which the decay could divide by zero.                           *)
Types ==
  /\ running \in Tasks
  /\ state \in [Tasks -> {"READY", "WAITING"}] /\ state[task0] = "READY"
  /\ nice \in [Tasks -> Int]
  /\ estcpu \in [Tasks -> Int]
  /\ ticks \in Nat
  /\ load_avg \in Nat

LEMMA QuotInt ==
  ASSUME NEW a \in Int, NEW b \in Nat \ {0}
  PROVE  Quot(a, b) \in Int /\ (a >= 0 => Quot(a, b) \in Nat)
<1>1. \A x \in Nat : x \div b \in Nat
  OBVIOUS
<1>2. CASE a >= 0
  BY <1>1, <1>2 DEF Quot
<1>3. CASE ~(a >= 0)
  <2>1. -a \in Nat
    BY <1>3
  <2>2. (-a) \div b \in Nat
    BY <1>1, <2>1
  <2> QED BY <1>3, <2>2 DEF Quot
<1> QED BY <1>2, <1>3

LEMMA PrioritiesInt ==
  ASSUME nice \in [Tasks -> Int], NEW est \in [Tasks -> Int]
  PROVE  Priorities(est) \in [Tasks -> Int]
<1> SUFFICES ASSUME NEW t \in Tasks PROVE PriorityOf(est[t], nice[t]) \in Int
  BY DEF Priorities
<1>1. est[t] * ONE \in Int /\ FromInt(4) \in Nat \ {0}
  BY DEF ONE, FromInt
<1>2. Divide(est[t], FromInt(4)) \in Int
  BY <1>1, QuotInt DEF Divide
<1>3. ToInt(Divide(est[t], FromInt(4))) \in Int
  BY <1>2 DEF ToInt, ONE
<1> QED BY <1>3 DEF PriorityOf, PRI_USER_MAX

LEMMA DecayedInt ==
  ASSUME load_avg \in Nat, NEW est \in Int, NEW n \in Int
  PROVE  Decayed(est, n) \in Int
<1> DEFINE twice == Mul(2 * ONE, load_avg)
<1>1. twice \in Nat
  BY DEF Mul, ONE
<1> HIDE DEF twice
<1>2. twice * ONE \in Int /\ twice + ONE \in Nat \ {0}
  BY <1>1 DEF ONE
<1>3. Divide(twice, twice + ONE) \in Int
  BY <1>2, QuotInt DEF Divide
<1>4. Divide(twice, twice + ONE) * est \in Int
  BY <1>3
<1>5. Mul(Divide(twice, twice + ONE), est) \in Int
  BY <1>4 DEF Mul, ONE
<1>6. FromInt(n) \in Int
  BY DEF FromInt, ONE
<1> QED BY <1>5, <1>6 DEF Decayed, twice

LEMMA LoadNat ==
  ASSUME load_avg \in Nat, NEW n \in Nat
  PROVE  NewLoad(n) \in Nat
<1>1. FromInt(59) * ONE \in Nat /\ FromInt(60) \in Nat \ {0} /\ ONE * ONE \in Nat /\ FromInt(n) \in Nat
  BY DEF ONE, FromInt
<1>2. Divide(FromInt(59), FromInt(60)) \in Nat /\ Divide(ONE, FromInt(60)) \in Nat
  BY <1>1, QuotInt DEF Divide
<1>3. Divide(FromInt(59), FromInt(60)) * load_avg \in Nat /\ Divide(ONE, FromInt(60)) * FromInt(n) \in Nat
  BY <1>1, <1>2
<1>4. \A x \in Nat : x \div ONE \in Nat
  BY DEF ONE
<1>5. Mul(Divide(FromInt(59), FromInt(60)), load_avg) \in Nat /\ Mul(Divide(ONE, FromInt(60)), FromInt(n)) \in Nat
  BY <1>3, <1>4 DEF Mul
<1> QED BY <1>5 DEF NewLoad

--------------------------------------------------------------------------------
Ready(st) == {t \in Thread : st[t] = "READY"}

(* Whoever schedule() switches to, Scheduler allows, and has the highest   *)
(* priority; task0 keeps the CPU only if nobody else is READY.             *)
LEMMA SelectProperties ==
  ASSUME NEW current \in Tasks, NEW st, st[task0] = "READY",
         nice \in [Tasks -> Int], NEW est \in [Tasks -> Int]
  PROVE  LET next == Select(current, st, est)
         IN  /\ next \in Tasks
             /\ next # current => next \in Selectable(current, Ready(st))
             /\ next # task0 =>
                  \A t \in Ready(st) : Priorities(est)[t] <= Priorities(est)[next]
             /\ current = task0 /\ Ready(st) # {} => next # task0
<1> DEFINE best == Scan(current, st, Priorities(est))
<1>1. task0 \notin Thread /\ Tasks = Thread \cup {task0}
  BY PriorityAssumption DEF Tasks
<1>2. Priorities(est) \in [Tasks -> Int]
  BY PrioritiesInt
<1>3. /\ best = current \/ best \in Ready(st)
      /\ best = task0 => \A t \in Thread : st[t] # "READY"
      /\ best # task0 => \A t \in Thread : st[t] = "READY" => Priorities(est)[t] <= Priorities(est)[best]
  BY <1>2, ScanSelects DEF Ready
<1>4. Select(current, st, est) = IF st[best] = "READY" THEN best ELSE task0
  BY DEF Select
<1> HIDE DEF best
<1>5. CASE st[best] = "READY"
  BY <1>1, <1>3, <1>4, <1>5 DEF Ready, Selectable
<1>6. CASE st[best] # "READY"
  <2>1. best # task0 /\ best = current /\ current \notin Ready(st)
    BY <1>3, <1>6 DEF Ready
  <2> QED BY <1>1, <1>4, <1>6, <2>1 DEF Selectable
<1> QED BY <1>5, <1>6

LEMMA PriorityInit == Init => Types
<1> SUFFICES ASSUME Init PROVE Types
  OBVIOUS
<1>1. task0 \in Tasks /\ task0 \notin Thread
  BY PriorityAssumption DEF Tasks
<1>2. nice \in [Tasks -> Int]
  <2>1. CASE computing
    <3>1. PICK n \in [Busy -> Nice] : nice = [t \in Tasks |-> IF t \in Busy THEN n[t] ELSE 0]
      BY <2>1 DEF Init
    <3>2. \A x \in Nice : x \in Int
      BY PriorityAssumption DEF NZERO
    <3> QED BY <3>1, <3>2
  <2>2. CASE ~computing
    BY <2>2 DEF Init
  <2> QED BY <2>1, <2>2
<1>3. ticks \in Nat
  BY PriorityAssumption DEF Init, HZ
<1>4. state \in [Tasks -> {"READY", "WAITING"}] /\ state[task0] = "READY"
  BY <1>1 DEF Init
<1> QED BY <1>1, <1>2, <1>3, <1>4 DEF Init, Types

(* What every step that calls schedule() does.                             *)
LEMMA SwitchSafe ==
  ASSUME Types, state' \in [Tasks -> {"READY", "WAITING"}], state'[task0] = "READY", estcpu' \in [Tasks -> Int],
         NEW flag, SwitchTo(Select(running, state', estcpu'), flag)
  PROVE  /\ running' \in Tasks
         /\ running' # running =>
              /\ running' \in Selectable(running, ReadyThreads')
              /\ running' # task0 =>
                   \A t \in ReadyThreads' :
                     Priorities(estcpu')[t] <= Priorities(estcpu')[running']
         /\ running = task0 /\ ReadyThreads' # {} => running' # task0
<1>1. ReadyThreads' = Ready(state')
  BY DEF ReadyThreads, Ready
<1>2. running' = Select(running, state', estcpu')
  BY DEF SwitchTo
<1> QED BY <1>1, <1>2, SelectProperties DEF Types

(* The step properties of the theorems below, without their subscripts.    *)
ToHighest ==
  running' # running =>
    /\ running' \in Selectable(running, ReadyThreads')
    /\ running' # task0 =>
         \A t \in ReadyThreads' :
           Priorities(estcpu')[t] <= Priorities(estcpu')[running']
IdleGives ==
  running = task0 /\ ticks' # ticks /\ ReadyThreads # {} => running' # task0
Good == Types' /\ ToHighest /\ IdleGives

LEMMA TickIdleGood ==
  ASSUME Types, TickIdle
  PROVE  Good
<1>1. SwitchTo(Select(running, state', estcpu'), TRUE)
  BY DEF TickIdle
<1>2. state' = state /\ estcpu' = estcpu /\ nice' = nice /\ load_avg' = load_avg /\ ReadyThreads' = ReadyThreads
  BY DEF TickIdle, ReadyThreads
<1>3. ticks' \in Nat
  BY DEF TickIdle, Types, HZ
<1> QED BY <1>1, <1>2, <1>3, SwitchSafe DEF Good, Types, ToHighest, IdleGives

LEMMA TickUserGood ==
  ASSUME Types, TickUser
  PROVE  Good
<1>1. ticks' \in Nat
  BY DEF TickUser, Types, HZ
<1>2. state' = state /\ nice' = nice /\ running # task0
  BY DEF TickUser
<1>3. estcpu' \in [Tasks -> Int]
  <2> DEFINE charged == [estcpu EXCEPT ![running] = @ + ONE]
  <2>1. charged \in [Tasks -> Int]
    BY DEF Types, ONE
  <2>2. \A t \in Tasks : Decayed(charged[t], nice[t]) \in Int
    BY <2>1, DecayedInt DEF Types
  <2>3. Charged = IF ticks' = 0 THEN [t \in Tasks |-> Decayed(charged[t], nice[t])] ELSE charged
    BY DEF Charged
  <2> HIDE DEF charged
  <2>4. Charged \in [Tasks -> Int]
    BY <2>1, <2>2, <2>3
  <2> QED BY <2>4 DEF TickUser
<1>4. load_avg' \in Nat
  <2> DEFINE ready == {t \in Tasks : state[t] = "READY"}
  <2>1. Cardinality(ready) \in Nat
    <3>1. IsFiniteSet(Thread)
      <4>1. Len(Order) \in Nat /\ DOMAIN Order = 1 .. Len(Order)
        BY PriorityAssumption
      <4>2. IsFiniteSet(DOMAIN Order)
        BY <4>1, FS_Interval
      <4>3. Thread = {Order[i] : i \in DOMAIN Order}
        BY DEF Thread, Range
      <4>4. Order \in Surjection(DOMAIN Order, Thread)
        BY <4>3, PriorityAssumption DEF Surjection
      <4> QED BY <4>2, <4>4, FS_Surjection
    <3>2. IsFiniteSet(Tasks)
      BY <3>1, FS_AddElement DEF Tasks
    <3>3. IsFiniteSet(ready)
      BY <3>2, FS_Subset
    <3> QED BY <3>3, FS_CardinalityType
  <2> QED BY <2>1, LoadNat DEF TickUser, Types
<1>5. CASE SwitchTo(Select(running, state', estcpu'), TRUE)
  BY <1>1, <1>2, <1>3, <1>4, <1>5, SwitchSafe DEF Good, Types, ToHighest, IdleGives
<1>6. CASE running' = running
  BY <1>1, <1>2, <1>3, <1>4, <1>6 DEF Good, Types, ToHighest, IdleGives
<1> QED BY <1>2, <1>5, <1>6 DEF TickUser

LEMMA YieldGood ==
  ASSUME Types, Yield \/ Sleep
  PROVE  Good
<1>1. \E flag : SwitchTo(Select(running, state', estcpu'), flag)
  BY DEF Yield, Sleep
<1>2. UNCHANGED <<nice, estcpu, ticks, load_avg>>
  BY DEF Yield, Sleep
<1>3. state' \in [Tasks -> {"READY", "WAITING"}] /\ state'[task0] = "READY"
  <2>1. CASE Yield
    BY <2>1 DEF Types, Yield
  <2>2. CASE Sleep
    <3>1. running # task0 /\ running \in Tasks
      BY <2>2, PriorityAssumption DEF Sleep, Types
    <3>2. state' = [state EXCEPT ![running] = "WAITING"]
      BY <2>2 DEF Sleep
    <3> QED BY <3>1, <3>2 DEF Types
  <2> QED BY <2>1, <2>2
<1> QED BY <1>1, <1>2, <1>3, SwitchSafe DEF Good, Types, ToHighest, IdleGives

LEMMA OtherGood ==
  ASSUME Types, OtherIrq \/ (\E t \in Thread : Wake(t))
                \/ (\E t \in Tasks, prio \in Settable : SetPriority(t, prio)) \/ UNCHANGED vars
  PROVE  Good
<1>1. CASE OtherIrq
  <2>1. UNCHANGED <<state, nice, estcpu, ticks, load_avg>>
    BY <1>1 DEF OtherIrq
  <2>2. CASE resched
    <3>1. SwitchTo(Select(running, state', estcpu'), TRUE)
      BY <1>1, <2>1, <2>2 DEF OtherIrq
    <3> QED BY <2>1, <3>1, SwitchSafe DEF Good, Types, ToHighest, IdleGives
  <2>3. CASE ~resched
    BY <1>1, <2>1, <2>3 DEF OtherIrq, Good, Types, ToHighest, IdleGives
  <2> QED BY <2>2, <2>3
<1>2. ASSUME NEW t \in Thread, Wake(t) PROVE Good
  <2>1. t # task0 /\ t \in Tasks
    BY PriorityAssumption DEF Tasks
  <2> QED BY <1>2, <2>1 DEF Wake, Good, Types, ToHighest, IdleGives
<1>3. ASSUME NEW t \in Tasks, NEW prio \in Settable, SetPriority(t, prio) PROVE Good
  <2>1. prio - NZERO \in Int
    BY PriorityAssumption DEF NZERO
  <2> QED BY <1>3, <2>1 DEF SetPriority, Good, Types, ToHighest, IdleGives
<1>4. CASE UNCHANGED vars
  BY <1>4 DEF vars, Good, Types, ToHighest, IdleGives
<1> QED BY <1>1, <1>2, <1>3, <1>4

LEMMA PriorityNext == Types /\ [Next]_vars => Good
BY TickIdleGood, TickUserGood, YieldGood, OtherGood DEF Next, Tick

(* Whoever schedule() switches to has the highest priority of the READY    *)
(* threads, and Scheduler, which the other modules rest on, allows it.     *)
THEOREM HighestRuns == Spec => SwitchesToHighest
<1>1. Types /\ [Next]_vars => Types'
  BY PriorityNext DEF Good
<1>2. Types /\ [Next]_vars =>
        [running' # running =>
           /\ running' \in Selectable(running, ReadyThreads')
           /\ running' # task0 =>
                \A t \in ReadyThreads' :
                  Priorities(estcpu')[t] <= Priorities(estcpu')[running']]_vars
  BY PriorityNext DEF Good, ToHighest
<1> QED BY <1>1, <1>2, PriorityInit, PTL DEF Spec, SwitchesToHighest

(* task0 gives way at the next tick if any thread is READY.                *)
THEOREM IdleAlwaysGivesWay == Spec => IdleGivesWay
<1>1. Types /\ [Next]_vars => Types'
  BY PriorityNext DEF Good
<1>2. Types /\ [Next]_vars =>
        [running = task0 /\ ticks' # ticks /\ ReadyThreads # {} => running' # task0]_vars
  BY PriorityNext DEF Good, IdleGives
<1> QED BY <1>1, <1>2, PriorityInit, PTL DEF Spec, IdleGivesWay

--------------------------------------------------------------------------------
(* EqualShares.  While it runs, a thread may be ahead by what the rounding *)
(* of the priorities hides, and by the ticks of its time slice so far.     *)
Hidden == FromInt(TASK_TIMESLICE_DEFAULT) + 2
Ahead(t, u) == estcpu[t] - estcpu[u]
MayBeAhead(t) ==
  IF running = t THEN Hidden + FromInt(TASK_TIMESLICE_DEFAULT - timeslice[t])
  ELSE FromInt(2 * TASK_TIMESLICE_DEFAULT) + 2
SharesInv ==
  /\ timeslice \in [Tasks -> 1 .. TASK_TIMESLICE_DEFAULT]
  /\ computing => \A t \in Busy : state[t] = "READY"
  /\ computing => \A t, u \in Busy : nice[t] = nice[u] => Ahead(t, u) <= MayBeAhead(t)

(* Equal or better priority, little more use of the CPU.                   *)
LEMMA PriorityHides ==
  ASSUME NEW a \in Int, NEW b \in Int, NEW n \in Int, PriorityOf(b, n) <= PriorityOf(a, n)
  PROVE  a - b <= Hidden
<1> DEFINE Quarter(x) == Divide(x, FromInt(4))
<1>1. ASSUME NEW x \in Int PROVE Quarter(x) \in Int /\ 4 * Quarter(x) - 3 <= x /\ x <= 4 * Quarter(x) + 3
                                   /\ (x >= 0 => 4 * Quarter(x) <= x) /\ (x < 0 => x <= 4 * Quarter(x))
  <2>1. Quarter(x) = IF 256 * x >= 0 THEN (256 * x) \div 1024 ELSE -((-(256 * x)) \div 1024)
    BY DEF Divide, Quot, FromInt, ONE
  <2>2. CASE x >= 0
    BY <2>1, <2>2
  <2>3. CASE x < 0
    BY <2>1, <2>3
  <2> QED BY <2>2, <2>3
<1>2. /\ Quarter(a) \in Int /\ Quarter(b) \in Int
      /\ a <= 4 * Quarter(a) + 3 /\ 4 * Quarter(b) - 3 <= b
  BY <1>1
<1>3. Quarter(a) \div 256 <= Quarter(b) \div 256
  <2>1. /\ PriorityOf(a, n) = 127 - (Quarter(a) \div 256) - n * 2
        /\ PriorityOf(b, n) = 127 - (Quarter(b) \div 256) - n * 2
    BY DEF PriorityOf, ToInt, ONE, PRI_USER_MAX
  <2> HIDE DEF Quarter
  <2>2. Quarter(a) \div 256 \in Int /\ Quarter(b) \div 256 \in Int
    BY <1>2
  <2> QED BY <2>1, <2>2
<1> HIDE DEF Quarter
<1>4. Quarter(a) <= Quarter(b) + 255
  BY <1>2, <1>3
<1>5. a - b <= 1026
  BY <1>2, <1>4
<1> QED BY <1>5 DEF Hidden, FromInt, ONE, TASK_TIMESLICE_DEFAULT

(* The decay brings two threads together.                                  *)
LEMMA DecayContracts ==
  ASSUME load_avg \in Nat, NEW a \in Int, NEW b \in Int, NEW n \in Int, NEW bound \in Nat, a - b <= bound
  PROVE  Decayed(a, n) - Decayed(b, n) <= bound
<1> DEFINE twice == Mul(2 * ONE, load_avg)
           ratio == Divide(twice, twice + ONE)
<1>1. twice \in Nat
  BY DEF Mul, ONE
<1>2. ratio \in Nat /\ ratio <= 256
  <2> HIDE DEF twice
  <2>1. ratio = (twice * 256) \div (twice + 256)
    BY <1>1 DEF Divide, Quot, ONE
  <2> DEFINE q == (twice * 256) \div (twice + 256)
  <2>2. q \in Nat /\ q * (twice + 256) <= twice * 256
    BY <1>1
  <2> HIDE DEF q
  <2>3. q <= 256
    <3> SUFFICES ASSUME q >= 257 PROVE FALSE
      BY <2>2
    <3>1. q * (twice + 256) >= 257 * (twice + 256)
      BY <1>1, <2>2
    <3> QED BY <1>1, <2>2, <3>1
  <2> QED BY <2>1, <2>2, <2>3 DEF q
<1> HIDE DEF ratio
<1>3. ratio * a \in Int /\ ratio * b \in Int /\ ratio * a <= ratio * b + 256 * bound
  <2>1. ratio * a - ratio * b = ratio * (a - b)
    BY <1>2
  <2>2. ratio * (a - b) <= ratio * bound
    BY <1>2
  <2>3. ratio * bound <= 256 * bound
    BY <1>2
  <2> QED BY <1>2, <2>1, <2>2, <2>3
<1>4. \A x, y \in Int : x <= y + 256 * bound => x \div 256 <= (y \div 256) + bound
  OBVIOUS
<1>5. Mul(ratio, a) \in Int /\ Mul(ratio, b) \in Int /\ Mul(ratio, a) <= Mul(ratio, b) + bound
  BY <1>3, <1>4 DEF Mul, ONE
<1>6. Decayed(a, n) = Mul(ratio, a) + 256 * n /\ Decayed(b, n) = Mul(ratio, b) + 256 * n
  BY DEF Decayed, FromInt, ONE, ratio, twice
<1> QED BY <1>5, <1>6

LEMMA SharesInit == Init => SharesInv
<1> SUFFICES ASSUME Init PROVE SharesInv
  OBVIOUS
<1>1. timeslice \in [Tasks -> 1 .. TASK_TIMESLICE_DEFAULT]
  BY DEF Init, TASK_TIMESLICE_DEFAULT
<1>2. Busy \subseteq Tasks /\ task0 \notin Busy
  BY PriorityAssumption DEF Tasks
<1>3. computing => \A t \in Busy : state[t] = "READY"
  BY <1>2 DEF Init
<1>4. \A t, u \in Busy : Ahead(t, u) = 0
  BY <1>2 DEF Init, Ahead
<1>5. \A t \in Busy : 0 <= MayBeAhead(t)
  BY <1>2 DEF Init, MayBeAhead, FromInt, ONE, TASK_TIMESLICE_DEFAULT
<1> QED BY <1>1, <1>3, <1>4, <1>5 DEF SharesInv

(* When schedule() chooses a thread, nothing but the rounding hides behind *)
(* its priority.                                                           *)
LEMMA ChosenShares ==
  ASSUME Types, state' = state, nice' = nice, estcpu' \in [Tasks -> Int],
         \A t \in Busy : state[t] = "READY",
         timeslice' \in [Tasks -> 1 .. TASK_TIMESLICE_DEFAULT],
         NEW flag, SwitchTo(Select(running, state', estcpu'), flag),
         \A t, u \in Busy : nice[t] = nice[u] => Ahead(t, u)' <= FromInt(2 * TASK_TIMESLICE_DEFAULT) + 2
  PROVE  \A t, u \in Busy : nice'[t] = nice'[u] => Ahead(t, u)' <= MayBeAhead(t)'
<1> SUFFICES ASSUME NEW t \in Busy, NEW u \in Busy, nice[t] = nice[u]
             PROVE  Ahead(t, u)' <= MayBeAhead(t)'
  OBVIOUS
<1>1. t \in Tasks /\ u \in Tasks /\ t # task0 /\ u \in Ready(state')
  BY PriorityAssumption DEF Tasks, Ready
<1>2. CASE running' # t
  BY <1>2 DEF MayBeAhead
<1>3. CASE running' = t
  <2>1. Priorities(estcpu')[u] <= Priorities(estcpu')[t]
    BY <1>1, <1>3, SelectProperties DEF Types, SwitchTo
  <2>2. PriorityOf(estcpu'[u], nice[u]) <= PriorityOf(estcpu'[t], nice[t])
    BY <1>1, <2>1 DEF Priorities
  <2>3. estcpu'[t] \in Int /\ estcpu'[u] \in Int /\ nice[t] \in Int
    BY <1>1 DEF Types
  <2>4. Ahead(t, u)' <= Hidden
    BY <2>2, <2>3, PriorityHides DEF Ahead
  <2>5. timeslice'[t] \in 1 .. 4
    BY <1>1 DEF TASK_TIMESLICE_DEFAULT
  <2>6. MayBeAhead(t)' = Hidden + 256 * (4 - timeslice'[t])
    BY <1>3, <2>5 DEF MayBeAhead, FromInt, ONE, TASK_TIMESLICE_DEFAULT, Hidden
  <2> QED BY <2>3, <2>4, <2>5, <2>6 DEF Ahead, Hidden, FromInt, ONE, TASK_TIMESLICE_DEFAULT
<1> QED BY <1>2, <1>3

LEMMA TickIdleShares ==
  ASSUME Types, SharesInv, TickIdle
  PROVE  SharesInv'
<1>1. SwitchTo(Select(running, state', estcpu'), TRUE)
  BY DEF TickIdle
<1>2. state' = state /\ estcpu' = estcpu /\ nice' = nice /\ timeslice' = timeslice /\ computing' = computing
  BY DEF TickIdle
<1>3. ASSUME computing
      PROVE  \A t, u \in Busy : nice'[t] = nice'[u] => Ahead(t, u)' <= MayBeAhead(t)'
  <2>1. \A t \in Busy : running # t
    BY PriorityAssumption DEF TickIdle
  <2>2. \A t, u \in Busy : nice[t] = nice[u] => Ahead(t, u)' <= FromInt(2 * TASK_TIMESLICE_DEFAULT) + 2
    BY <1>2, <1>3, <2>1 DEF SharesInv, Ahead, MayBeAhead
  <2> QED BY <1>1, <1>2, <1>3, <2>2, ChosenShares DEF Types, SharesInv
<1> QED BY <1>2, <1>3 DEF SharesInv

(* A tick of the running thread: one tick ahead, then the decay.           *)
LEMMA ChargedShares ==
  ASSUME Types, SharesInv, TickUser, computing, NEW t \in Busy, NEW u \in Busy, nice[t] = nice[u]
  PROVE  Ahead(t, u)' <= IF t = running THEN Hidden + 256 * (5 - timeslice[t]) ELSE 2050
<1>1. t \in Tasks /\ u \in Tasks /\ running \in Tasks
  BY PriorityAssumption DEF Tasks, Types
<1>2. timeslice[t] \in 1 .. 4 /\ Hidden = 1026
  BY <1>1 DEF SharesInv, TASK_TIMESLICE_DEFAULT, Hidden, FromInt, ONE
<1>3. Ahead(t, u) <= IF t = running THEN 1026 + 256 * (4 - timeslice[t]) ELSE 2050
  BY <1>2 DEF SharesInv, MayBeAhead, FromInt, ONE, TASK_TIMESLICE_DEFAULT
<1> DEFINE charged == [estcpu EXCEPT ![running] = @ + ONE]
           bound == IF t = running THEN Hidden + 256 * (5 - timeslice[t]) ELSE 2050
<1>4. /\ charged[t] = IF t = running THEN estcpu[t] + 256 ELSE estcpu[t]
      /\ charged[u] = IF u = running THEN estcpu[u] + 256 ELSE estcpu[u]
  BY <1>1 DEF Types, ONE
<1>5. estcpu[t] \in Int /\ estcpu[u] \in Int
  BY <1>1 DEF Types
<1>6. bound \in Nat
  BY <1>2
<1>7. Charged = IF ticks' = 0 THEN [x \in Tasks |-> Decayed(charged[x], nice[x])] ELSE charged
  BY DEF Charged
<1> HIDE DEF charged
<1>8. charged[t] \in Int /\ charged[u] \in Int
  BY <1>4, <1>5
<1>9. charged[t] - charged[u] <= bound
  BY <1>2, <1>3, <1>4, <1>5 DEF Ahead
<1>10. nice[t] \in Int /\ load_avg \in Nat
  BY <1>1 DEF Types
<1> HIDE DEF bound
<1>11. Charged[t] - Charged[u] <= bound
  <2>1. CASE ticks' = 0
    <3>1. Charged[t] = Decayed(charged[t], nice[t]) /\ Charged[u] = Decayed(charged[u], nice[t])
      BY <1>1, <1>7, <2>1
    <3> QED BY <3>1, <1>6, <1>8, <1>9, <1>10, DecayContracts
  <2>2. CASE ticks' # 0
    BY <1>7, <1>9, <2>2
  <2> QED BY <2>1, <2>2
<1>12. estcpu' = Charged
  BY DEF TickUser
<1> QED BY <1>11, <1>12 DEF Ahead, bound

LEMMA TickUserShares ==
  ASSUME Types, SharesInv, TickUser
  PROVE  SharesInv'
<1> DEFINE expired == timeslice[running] <= 1
<1>1. state' = state /\ nice' = nice /\ computing' = computing
  BY DEF TickUser
<1>2. /\ timeslice \in [Tasks -> 1 .. 4] /\ running \in Tasks
      /\ timeslice' = [timeslice EXCEPT ![running] = IF expired THEN 4 ELSE @ - 1]
  BY DEF TickUser, SharesInv, Types, TASK_TIMESLICE_DEFAULT
<1>3. timeslice' \in [Tasks -> 1 .. 4]
  <2>1. timeslice[running] \in 1 .. 4
    BY <1>2
  <2>2. (IF expired THEN 4 ELSE timeslice[running] - 1) \in 1 .. 4
    BY <2>1
  <2> QED BY <1>2, <2>2
<1>4. estcpu' \in [Tasks -> Int]
  BY TickUserGood DEF Good, Types
<1>5. ASSUME computing
      PROVE  \A t, u \in Busy : nice'[t] = nice'[u] => Ahead(t, u)' <= MayBeAhead(t)'
  <2>0. \A t \in Busy : t \in Tasks
    BY PriorityAssumption DEF Tasks
  <2>1. \A t, u \in Busy : nice[t] = nice[u] =>
          Ahead(t, u)' <= IF t = running THEN Hidden + 256 * (5 - timeslice[t]) ELSE 2050
    BY <1>5, ChargedShares
  <2>2. \A t, u \in Busy : Ahead(t, u)' \in Int
    BY <1>4, <2>0 DEF Ahead
  <2>3. CASE SwitchTo(Select(running, state', estcpu'), TRUE)
    <3>1. \A t, u \in Busy : nice[t] = nice[u] => Ahead(t, u)' <= FromInt(2 * TASK_TIMESLICE_DEFAULT) + 2
      <4> SUFFICES ASSUME NEW t \in Busy, NEW u \in Busy, nice[t] = nice[u]
                   PROVE  Ahead(t, u)' <= 2050
        BY DEF FromInt, ONE, TASK_TIMESLICE_DEFAULT
      <4>1. timeslice[t] \in 1 .. 4 /\ Hidden = 1026
        BY <1>2, <2>0 DEF Hidden, FromInt, ONE, TASK_TIMESLICE_DEFAULT
      <4> QED BY <2>1, <2>2, <4>1
    <3>2. \A t \in Busy : state[t] = "READY"
      BY <1>5 DEF SharesInv
    <3> QED BY <1>1, <1>3, <1>4, <2>3, <3>1, <3>2, ChosenShares DEF TASK_TIMESLICE_DEFAULT
  <2>4. CASE ~expired /\ running' = running
    <3> SUFFICES ASSUME NEW t \in Busy, NEW u \in Busy, nice[t] = nice[u]
                 PROVE  Ahead(t, u)' <= MayBeAhead(t)'
      BY <1>1
    <3>1. CASE t = running
      <4>1. timeslice[t] \in 1 .. 4 /\ timeslice'[t] = timeslice[t] - 1
        BY <1>2, <2>4, <3>1
      <4>2. MayBeAhead(t)' = Hidden + 256 * (4 - timeslice'[t])
        BY <2>4, <3>1, <4>1 DEF MayBeAhead, FromInt, ONE, TASK_TIMESLICE_DEFAULT, Hidden
      <4> QED BY <2>1, <2>2, <3>1, <4>1, <4>2
    <3>2. CASE t # running
      <4>1. MayBeAhead(t)' = 2050
        BY <2>4, <3>2 DEF MayBeAhead, FromInt, ONE, TASK_TIMESLICE_DEFAULT
      <4> QED BY <2>1, <3>2, <4>1
    <3> QED BY <3>1, <3>2
  <2>5. IF resched \/ expired THEN SwitchTo(Select(running, state, estcpu'), TRUE)
        ELSE UNCHANGED <<running, resched>>
    BY DEF TickUser
  <2> QED BY <1>1, <2>3, <2>4, <2>5
<1> QED BY <1>1, <1>3, <1>5 DEF SharesInv, TASK_TIMESLICE_DEFAULT

LEMMA SharesNext == Types /\ SharesInv /\ [Next]_vars => SharesInv'
<1> SUFFICES ASSUME Types, SharesInv, [Next]_vars PROVE SharesInv'
  OBVIOUS
<1>1. CASE Tick
  BY <1>1, TickIdleShares, TickUserShares DEF Tick
<1>2. CASE UNCHANGED vars
  BY <1>2 DEF vars, SharesInv, Ahead, MayBeAhead
<1>3. CASE Next /\ ~Tick
  <2>1. ~computing /\ computing' = computing /\ timeslice' = timeslice
    BY <1>3 DEF Next, Yield, Sleep, OtherIrq, Wake, SetPriority
  <2> QED BY <2>1 DEF SharesInv
<1> QED BY <1>1, <1>2, <1>3

(* Threads of one nice value that only compute never drift further apart   *)
(* than two time slices, however many they are.                            *)
THEOREM SharesStayEqual == Spec => []EqualShares
<1>1. Types /\ [Next]_vars => Types'
  BY PriorityNext DEF Good
<1>2. Types /\ SharesInv => EqualShares
  <2> SUFFICES ASSUME Types, SharesInv, computing, NEW t \in Busy, NEW u \in Busy, nice[t] = nice[u]
               PROVE  Ahead(t, u) <= 2050
    BY DEF EqualShares, Ahead, FromInt, ONE, TASK_TIMESLICE_DEFAULT
  <2>1. t \in Tasks /\ u \in Tasks
    BY PriorityAssumption DEF Tasks
  <2>2. timeslice[t] \in 1 .. 4 /\ Ahead(t, u) \in Int
    BY <2>1 DEF SharesInv, Types, Ahead, TASK_TIMESLICE_DEFAULT
  <2>3. Ahead(t, u) <= IF t = running THEN 1026 + 256 * (4 - timeslice[t]) ELSE 2050
    BY <2>2 DEF SharesInv, MayBeAhead, FromInt, ONE, TASK_TIMESLICE_DEFAULT, Hidden
  <2> QED BY <2>2, <2>3
<1> QED BY <1>1, <1>2, PriorityInit, SharesInit, SharesNext, PTL DEF Spec
--------------------------------------------------------------------------------
(***************************************************************************)
(* Module Fpu: lazy switching keeps every thread's registers, for any      *)
(* number of threads, once all of them have run.                           *)
(***************************************************************************)

(* Types, and the owner: no zombie owns the registers, whether or not some *)
(* thread has yet to run.                                                  *)
OwnerInv == FpuTypeOK /\ OwnerLives

LEMMA OwnerInit == FpuInit => OwnerInv
BY FpuAssumption DEF FpuInit, OwnerInv, FpuTypeOK, OwnerLives

LEMMA OwnerNext == OwnerInv /\ [FpuNext]_fpuVars => OwnerInv'
<1> SUFFICES ASSUME OwnerInv, [FpuNext]_fpuVars PROVE OwnerInv'
  OBVIOUS
<1> USE FpuAssumption DEF OwnerInv, OwnerLives
<1>1. ASSUME NEW t \in Threads, Switch(t) PROVE OwnerInv'
  BY <1>1 DEF Switch, switch_to, FpuTypeOK
<1>2. ASSUME NEW t \in Threads, Exit(t) PROVE OwnerInv'
  BY <1>2 DEF Exit, switch_to, FpuTypeOK
<1>3. ASSUME NEW v \in Value, Use(v) PROVE OwnerInv'
  <2>1. last' \in [Threads -> Value] /\ saved' \in [Threads -> Value]
    BY <1>3 DEF Use, FpuTypeOK
  <2>2. owner' \in {owner, onCpu}
    BY <1>3 DEF Use
  <2> QED BY <1>3, <2>1, <2>2 DEF Use, FpuTypeOK
<1>4. CASE UNCHANGED fpuVars
  BY <1>4 DEF fpuVars, FpuTypeOK
<1> QED BY <1>1, <1>2, <1>3, <1>4 DEF FpuNext

(* The types hold, and no zombie owns the registers (task.c:249): the      *)
(* handler never saves them into a tcb that may have been freed.           *)
THEOREM FpuTypeCorrect == FpuSpec => []FpuTypeOK
<1>1. OwnerInv => FpuTypeOK
  BY DEF OwnerInv
<1> QED BY <1>1, OwnerInit, OwnerNext, PTL DEF FpuSpec

(* sys_task_exit gives the FPU up: its owner is never a zombie.            *)
THEOREM OwnerAlive == FpuSpec => []OwnerLives
<1>1. OwnerInv => OwnerLives
  BY DEF OwnerInv
<1> QED BY <1>1, OwnerInit, OwnerNext, PTL DEF FpuSpec

--------------------------------------------------------------------------------
(* RegistersKept speaks of the running thread only.  What makes it hold    *)
(* after the next switch: every live thread would find its registers, and  *)
(* while TS is clear the running thread is the owner.                      *)
RegisterInv ==
  /\ OwnerInv
  /\ started = Threads
  /\ ClearMeansOwner
  /\ \A t \in Threads \ exited : Found(t) = last[t]

LEMMA RegisterInit == Fresh = {} /\ FpuInit => RegisterInv
<1> SUFFICES ASSUME Fresh = {}, FpuInit PROVE RegisterInv
  OBVIOUS
<1>1. OwnerInv
  BY OwnerInit
<1>2. TS
  BY DEF FpuInit
<1> QED BY <1>1, <1>2 DEF FpuInit, RegisterInv, ClearMeansOwner, Found

LEMMA RegisterNext == RegisterInv /\ [FpuNext]_fpuVars => RegisterInv'
<1> SUFFICES ASSUME RegisterInv, [FpuNext]_fpuVars PROVE RegisterInv'
  OBVIOUS
<1> USE FpuAssumption
<1>1. OwnerInv'
  BY OwnerNext DEF RegisterInv
<1>2. ASSUME NEW t \in Threads, switch_to(t) PROVE TS' /\ started' = Threads
  BY <1>2 DEF switch_to, RegisterInv
<1>3. ASSUME NEW t \in Threads, Switch(t) PROVE RegisterInv'
  <2>1. UNCHANGED <<exited, owner, fpu, saved, last>> /\ TS' /\ started' = Threads
    BY <1>2, <1>3 DEF Switch
  <2> QED BY <1>1, <2>1 DEF RegisterInv, ClearMeansOwner, Found
<1>4. ASSUME NEW t \in Threads, Exit(t) PROVE RegisterInv'
  <2>1. /\ exited' = exited \cup {onCpu} /\ UNCHANGED <<fpu, saved, last>>
        /\ owner' = IF owner = onCpu THEN None ELSE owner
        /\ TS' /\ started' = Threads
    BY <1>2, <1>4 DEF Exit
  <2>2. \A u \in Threads \ exited' : Found(u)' = last'[u]
    BY <2>1 DEF RegisterInv, Found
  <2> QED BY <1>1, <2>1, <2>2 DEF RegisterInv, ClearMeansOwner
<1>5. ASSUME NEW v \in Value, Use(v) PROVE RegisterInv'
  <2>1. /\ onCpu' = onCpu /\ onCpu \in Threads
        /\ fpu' = v /\ ~TS'
        /\ last' = [last EXCEPT ![onCpu] = v] /\ last \in [Threads -> Value]
        /\ started' = started /\ exited' = exited
    BY <1>5 DEF Use, RegisterInv, OwnerInv, FpuTypeOK
  <2>2. owner' = onCpu
    BY <1>5 DEF Use, RegisterInv, ClearMeansOwner
  <2>3. ASSUME NEW u \in Threads \ exited, u # onCpu
        PROVE  saved'[u] = last[u]
    <3>1. CASE TS /\ owner # onCpu
      <4>1. saved' = [t \in Threads |-> IF t = owner THEN fpu ELSE saved[t]]
        BY <1>5, <3>1 DEF Use
      <4> QED BY <2>3, <4>1 DEF RegisterInv, Found
    <3>2. CASE ~(TS /\ owner # onCpu)
      <4>1. saved' = saved
        BY <1>5, <3>2 DEF Use
      <4>2. owner = onCpu
        BY <3>2 DEF RegisterInv, ClearMeansOwner
      <4> QED BY <2>3, <4>1, <4>2 DEF RegisterInv, Found
    <3> QED BY <3>1, <3>2
  <2>4. \A u \in Threads \ exited' : Found(u)' = last'[u]
    BY <2>1, <2>2, <2>3 DEF Found
  <2> QED BY <1>1, <2>1, <2>2, <2>4 DEF RegisterInv, ClearMeansOwner
<1>6. CASE UNCHANGED fpuVars
  BY <1>1, <1>6 DEF fpuVars, RegisterInv, ClearMeansOwner, Found
<1> QED BY <1>3, <1>4, <1>5, <1>6 DEF FpuNext

(* Once every thread has been switched to, a thread finds in the FPU what  *)
(* it last put there, whatever ran, computed or exited in between.         *)
THEOREM RegistersAlwaysKept == Fresh = {} => (FpuSpec => []RegistersKept)
<1>1. RegisterInv => RegistersKept
  BY DEF RegisterInv, OwnerInv, FpuTypeOK, ClearMeansOwner, RegistersKept,
         FoundNow, Found
<1>2. RegisterInv /\ [FpuNext]_fpuVars => RegisterInv'
  BY RegisterNext
<1> SUFFICES ASSUME Fresh = {} PROVE FpuSpec => []RegistersKept
  OBVIOUS
<1>3. FpuInit => RegisterInv
  BY RegisterInit
<1> QED BY <1>1, <1>2, <1>3, PTL DEF FpuSpec
================================================================================
