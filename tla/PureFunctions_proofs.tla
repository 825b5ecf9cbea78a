-------------------------- MODULE PureFunctions_proofs --------------------------
(***************************************************************************)
(* Proofs about module PureFunctions: a line, the time, the bytes and the  *)
(* names of DOSFS, the user heap and what vsnprintf prints are what they   *)
(* should be, for every input, not only for those of the instance.         *)
(***************************************************************************)
EXTENDS PureFunctions, FiniteSetTheorems, SequenceTheorems, WellFoundedInduction, TLAPS

--------------------------------------------------------------------------------
(***************************************************************************)
(* A loop: what it has done after i iterations is a function defined by    *)
(* recursion over i.                                                       *)
(***************************************************************************)

(* Induction over an interval, for the set of the numbers it holds for.    *)
LEMMA Induction ==
  ASSUME NEW a \in Int, NEW b \in Int, NEW T,
         a <= b => a \in T,
         \A i \in a .. b : i < b /\ i \in T => i + 1 \in T
  PROVE  \A i \in a .. b : i \in T
<1> DEFINE Bad == {n \in Nat : a + n \in a .. b /\ a + n \notin T}
<1> SUFFICES Bad = {}
  <2>1. ASSUME NEW i \in a .. b PROVE i - a \in Nat /\ a + (i - a) = i
    OBVIOUS
  <2> QED BY <2>1
<1>1. SUFFICES ASSUME Bad # {} PROVE FALSE
  OBVIOUS
<1>2. \E n \in Bad : \A k \in Bad : ~ (<<k, n>> \in OpToRel(<, Nat))
  <2>1. Bad \subseteq Nat
    OBVIOUS
  <2> HIDE DEF Bad
  <2> QED BY <1>1, <2>1, NatLessThanWellFounded, WFMin
<1>3. PICK n \in Bad : \A k \in Bad : ~ (k < n)
  BY <1>2 DEF OpToRel
<1>4. n \in Nat /\ a + n \in a .. b /\ a + n \notin T
  OBVIOUS
<1>5. n # 0
  <2> SUFFICES ASSUME n = 0 PROVE FALSE
    OBVIOUS
  <2>1. a + n = a /\ a <= b
    BY <1>4
  <2> QED BY <1>4, <2>1
<1>6. n - 1 \in Nat /\ a + (n - 1) \in a .. b /\ n - 1 < n /\ a + (n - 1) < b
  BY <1>4, <1>5
<1>7. a + (n - 1) \in T
  BY <1>3, <1>6
<1>8. (a + (n - 1)) + 1 \in T
  BY <1>6, <1>7
<1>9. (a + (n - 1)) + 1 = a + n
  BY <1>4
<1> QED BY <1>4, <1>8, <1>9

(* step: what the iteration i makes of what the ones before it left; loop: *)
(* the function that begins with base and goes on so.                      *)
Steps(step, a, b, S) == step \in [(a .. b) \X S -> S]
Loops(loop, a, b, S, base, step) ==
  /\ loop \in [a .. b -> S]
  /\ \A i \in a .. b : loop[i] = IF i = a THEN base ELSE step[<<i, loop[i - 1]>>]

(* The loop exists: such a function there is, with values of its type.     *)
LEMMA LoopExists ==
  ASSUME NEW a \in Int, NEW b \in Int, a <= b, NEW S, NEW base \in S,
         NEW step, Steps(step, a, b, S)
  PROVE  \E f : Loops(f, a, b, S, base, step)
<1> USE DEF Steps
<1> DEFINE Does(f, k) == f \in [a .. k -> S] /\ f[a] = base
                         /\ \A i \in a + 1 .. k : f[i] = step[<<i, f[i - 1]>>]
           T == {k \in a .. b : \E f \in [a .. k -> S] : Does(f, k)}
<1>1. a \in T
  <2> DEFINE f == [i \in a .. a |-> base]
  <2>1. f \in [a .. a -> S] /\ Does(f, a)
    OBVIOUS
  <2>2. a \in a .. b
    OBVIOUS
  <2> QED BY <2>1, <2>2
<1>2. ASSUME NEW k \in a .. b, k < b, k \in T PROVE k + 1 \in T
  <2>1. PICK f \in [a .. k -> S] : Does(f, k)
    BY <1>2
  <2> DEFINE g == [i \in a .. k + 1 |-> IF i = k + 1 THEN step[<<k + 1, f[k]>>] ELSE f[i]]
  <2>2. k + 1 \in a .. b /\ f[k] \in S
    BY <1>2, <2>1
  <2>3. step[<<k + 1, f[k]>>] \in S
    BY <2>2
  <2>4. g \in [a .. k + 1 -> S]
    <3>1. ASSUME NEW i \in a .. k + 1, i # k + 1 PROVE f[i] \in S
      BY <3>1, <2>1
    <3> QED BY <2>3, <3>1
  <2>5. g[a] = base
    BY <2>1, <1>2
  <2>6. ASSUME NEW i \in a + 1 .. k + 1 PROVE g[i] = step[<<i, g[i - 1]>>]
    <3>1. i - 1 \in a .. k /\ i \in a .. k + 1 /\ g[i - 1] = f[i - 1]
      BY <2>6, <1>2
    <3>2. CASE i = k + 1
      <4>1. g[i] = step[<<i, f[k]>>] /\ i - 1 = k
        BY <3>1, <3>2
      <4> QED BY <3>1, <4>1
    <3>3. CASE i # k + 1
      <4>1. i \in a + 1 .. k
        BY <3>3
      <4> QED BY <3>1, <3>3, <4>1, <2>1
    <3> QED BY <3>2, <3>3
  <2>7. Does(g, k + 1)
    BY <2>4, <2>5, <2>6
  <2> HIDE DEF g, Does
  <2> QED BY <2>2, <2>4, <2>7
<1>3. b \in T
  <2> HIDE DEF T
  <2>1. \A i \in a .. b : i \in T
    BY ONLY <1>1, <1>2, Induction, a \in Int, b \in Int
  <2> QED BY <2>1
<1>4. PICK f \in [a .. b -> S] : Does(f, b)
  BY <1>3
<1>5. \A i \in a .. b : i = a \/ i \in a + 1 .. b
  OBVIOUS
<1> QED BY <1>4, <1>5 DEF Loops

--------------------------------------------------------------------------------
(***************************************************************************)
(* line(): the loop along the longer axis.                                 *)
(***************************************************************************)

(* The loop of line(): v and the decision variable, step by step.          *)
DecidedLoop(f, du, dv, v1, vincr) ==
  /\ f \in [0 .. du -> [v : Int, d : Int]]
  /\ f[0] = [v |-> v1, d |-> 2 * dv - du]
  /\ \A i \in 1 .. du :
       f[i] = IF f[i - 1].d < 0 THEN [v |-> f[i - 1].v, d |-> f[i - 1].d + 2 * dv]
              ELSE [v |-> f[i - 1].v + vincr, d |-> f[i - 1].d + 2 * (dv - du)]

(* The recursion Decided is that loop.                                     *)
LEMMA DecidedSteps ==
  ASSUME NEW du \in Nat, NEW dv \in Nat, NEW v1 \in Int, NEW vincr \in Int
  PROVE  DecidedLoop(R!Decided(du, dv, v1, vincr), du, dv, v1, vincr)
<1> USE DEF DecidedLoop
<1> DEFINE S == [v : Int, d : Int]
           base == [v |-> v1, d |-> 2 * dv - du]
           Next1(at) == IF at.d < 0 THEN [at EXCEPT !.d = @ + 2 * dv]
                        ELSE [v |-> at.v + vincr, d |-> at.d + 2 * (dv - du)]
           step == [p \in (0 .. du) \X S |-> Next1(p[2])]
           Rule(f) == f = [i \in 0 .. du |-> IF i = 0 THEN base ELSE Next1(f[i - 1])]
<1>1. base \in S
  OBVIOUS
<1>2. ASSUME NEW at \in S PROVE Next1(at) \in S
  OBVIOUS
<1>3. Steps(step, 0, du, S)
  BY <1>2 DEF Steps
<1>4. \E f : Loops(f, 0, du, S, base, step)
  <2> HIDE DEF S, base, step
  <2>1. 0 \in Int /\ du \in Int /\ 0 <= du
    OBVIOUS
  <2> QED BY ONLY <1>1, <1>3, <2>1, LoopExists
<1>5. PICK f \in [0 .. du -> S] :
        \A i \in 0 .. du : f[i] = IF i = 0 THEN base ELSE step[<<i, f[i - 1]>>]
  <2> HIDE DEF S, base, step
  <2> QED BY <1>4 DEF Loops
<1>6. ASSUME NEW i \in 0 .. du PROVE f[i] = IF i = 0 THEN base ELSE Next1(f[i - 1])
  <2>1. CASE i = 0
    BY <1>5, <2>1
  <2>2. CASE i # 0
    <3>1. i - 1 \in 0 .. du
      BY <2>2
    <3>2. f[i - 1] \in S
      BY <3>1
    <3>3. step[<<i, f[i - 1]>>] = Next1(f[i - 1])
      BY <3>2
    <3> HIDE DEF step, Next1
    <3> QED BY <1>5, <2>2, <3>3
  <2> QED BY <2>1, <2>2
<1>7. Rule(f)
  <2> HIDE DEF base, Next1
  <2> QED BY <1>6
<1> HIDE DEF Rule
<1>8. Rule(CHOOSE g : Rule(g))
  BY <1>7
<1>9. R!Decided(du, dv, v1, vincr) = CHOOSE g : Rule(g)
  BY DEF R!Decided, Rule
<1> DEFINE F == CHOOSE g : Rule(g)
<1> HIDE DEF F
<1>10. F = [i \in 0 .. du |-> F[i]] /\ \A i \in 0 .. du : F[i] = IF i = 0 THEN base ELSE Next1(F[i - 1])
  <2>1. Rule(F)
    BY <1>8 DEF F
  <2> HIDE DEF base, Next1
  <2> QED BY <2>1 DEF Rule
<1> DEFINE T == {i \in 0 .. du : F[i] \in S}
<1>11. 0 \in T
  <2>1. 0 \in 0 .. du
    OBVIOUS
  <2>2. F[0] = base
    <3> HIDE DEF base, Next1
    <3> QED BY <1>10, <2>1
  <2> QED BY <1>1, <2>1, <2>2
<1>12. ASSUME NEW i \in 0 .. du, i < du, i \in T PROVE i + 1 \in T
  <2>1. i + 1 \in 0 .. du /\ i + 1 # 0 /\ (i + 1) - 1 = i /\ F[i] \in S
    BY <1>12
  <2>2. F[i + 1] = Next1(F[i])
    <3> HIDE DEF base, Next1
    <3> QED BY <1>10, <2>1
  <2>3. Next1(F[i]) \in S
    BY <1>2, <2>1
  <2> HIDE DEF Next1, S
  <2> QED BY <2>1, <2>2, <2>3
<1>13. \A i \in 0 .. du : i \in T
  <2> HIDE DEF T
  <2>1. 0 \in Int /\ du \in Int
    OBVIOUS
  <2> QED BY ONLY <1>11, <1>12, <2>1, Induction
<1>14. F \in [0 .. du -> S]
  <2> HIDE DEF S, base, Next1
  <2> QED BY <1>10, <1>13
<1>15. F[0] = base
  <2>1. 0 \in 0 .. du
    OBVIOUS
  <2> HIDE DEF base, Next1
  <2> QED BY <1>10, <2>1
<1>16. ASSUME NEW i \in 1 .. du PROVE F[i] = Next1(F[i - 1]) /\ F[i - 1] \in S
  <2>1. i \in 0 .. du /\ i # 0 /\ i - 1 \in 0 .. du
    OBVIOUS
  <2> HIDE DEF S, base, Next1
  <2> QED BY <1>10, <1>14, <2>1
<1>17. ASSUME NEW at \in S
       PROVE  Next1(at) = IF at.d < 0 THEN [v |-> at.v, d |-> at.d + 2 * dv]
                          ELSE [v |-> at.v + vincr, d |-> at.d + 2 * (dv - du)]
  <2>1. [at EXCEPT !.d = @ + 2 * dv] = [v |-> at.v, d |-> at.d + 2 * dv]
    OBVIOUS
  <2> QED BY <2>1
<1>18. ASSUME NEW i \in 1 .. du
       PROVE  F[i] = IF F[i - 1].d < 0 THEN [v |-> F[i - 1].v, d |-> F[i - 1].d + 2 * dv]
                     ELSE [v |-> F[i - 1].v + vincr, d |-> F[i - 1].d + 2 * (dv - du)]
  <2> HIDE DEF S, Next1
  <2> QED BY <1>16, <1>17
<1>19. DecidedLoop(F, du, dv, v1, vincr)
  BY <1>14, <1>15, <1>18
<1> QED BY <1>9, <1>19 DEF F

(* What the loop keeps: the point is at most half a step of v away from    *)
(* the line, and the decision variable says on which side.                 *)
Near(du, dv, away, i, k) == away = 2 * (i * dv) - 2 * (k * du) /\ - du <= away /\ away <= du
Follows(f, du, dv, v1, vincr, i) ==
  \E away \in Int : /\ Near(du, dv, away, i, vincr * (f[i].v - v1))
                    /\ f[i].d = away + 2 * dv - du

(* After i steps v is i * dv / du, rounded: the decision variable is the   *)
(* remainder.                                                              *)
LEMMA DecidedFollows ==
  ASSUME NEW du \in Nat, NEW dv \in Nat, dv <= du, NEW v1 \in Int, NEW vincr \in {1, -1}
  PROVE  \A i \in 0 .. du : Follows(R!Decided(du, dv, v1, vincr), du, dv, v1, vincr, i)
<1> DEFINE f == R!Decided(du, dv, v1, vincr)
           T == {i \in 0 .. du : Follows(f, du, dv, v1, vincr, i)}
<1>1. DecidedLoop(f, du, dv, v1, vincr)
  <2>1. vincr \in Int
    OBVIOUS
  <2> QED BY <2>1, DecidedSteps
<1> USE DEF DecidedLoop
<1> HIDE DEF f
<1>2. 0 \in T
  <2>1. Near(du, dv, 0, 0, vincr * (f[0].v - v1)) /\ f[0].d = 0 + 2 * dv - du
    BY <1>1 DEF Near
  <2> QED BY <2>1 DEF Follows
<1>3. ASSUME NEW i \in 0 .. du, i < du, i \in T PROVE i + 1 \in T
  <2>1. i + 1 \in 1 .. du /\ i + 1 \in 0 .. du /\ (i + 1) - 1 = i
    BY <1>3
  <2>2. PICK away \in Int : Near(du, dv, away, i, vincr * (f[i].v - v1)) /\ f[i].d = away + 2 * dv - du
    BY <1>3 DEF Follows
  <2> DEFINE k == vincr * (f[i].v - v1)
             d == f[i].d
  <2>3. k \in Int /\ d \in Int /\ f[i].v \in Int
    BY <1>1
  <2>4. (i + 1) * dv = i * dv + dv
    BY <1>3
  <2>5. CASE d < 0
    <3>1. f[i + 1] = [v |-> f[i].v, d |-> d + 2 * dv]
      BY <1>1, <2>1, <2>5
    <3>2. Near(du, dv, away + 2 * dv, i + 1, k)
      <4> DEFINE p == i * dv
                 q == k * du
      <4>1. p \in Int /\ q \in Int
        BY <2>3
      <4> HIDE DEF p, q
      <4>2. away = 2 * p - 2 * q /\ - du <= away /\ away <= du
        BY <2>2 DEF Near, p, q
      <4>3. away + 2 * dv = 2 * (p + dv) - 2 * q
        BY <4>1, <4>2
      <4>4. - du <= away + 2 * dv /\ away + 2 * dv <= du
        BY <2>2, <2>5, <4>2
      <4> QED BY <2>4, <4>3, <4>4 DEF Near, p, q
    <3>3. f[i + 1].d = (away + 2 * dv) + 2 * dv - du /\ f[i + 1].v = f[i].v
      BY <2>2, <3>1
    <3>4. away + 2 * dv \in Int
      OBVIOUS
    <3> HIDE DEF d
    <3>5. Follows(f, du, dv, v1, vincr, i + 1)
      BY <3>2, <3>3, <3>4 DEF Follows
    <3> QED BY <2>1, <3>5
  <2>6. CASE ~ (d < 0)
    <3>1. f[i + 1] = [v |-> f[i].v + vincr, d |-> d + 2 * (dv - du)]
      BY <1>1, <2>1, <2>6
    <3>2. Near(du, dv, away + 2 * dv - 2 * du, i + 1, k + 1)
      <4> DEFINE p == i * dv
                 q == k * du
      <4>1. p \in Int /\ q \in Int /\ (k + 1) * du = q + du
        BY <2>3
      <4> HIDE DEF p, q
      <4>2. away = 2 * p - 2 * q /\ - du <= away /\ away <= du
        BY <2>2 DEF Near, p, q
      <4>3. away + 2 * dv - 2 * du = 2 * (p + dv) - 2 * (q + du)
        BY <4>1, <4>2
      <4>4. - du <= away + 2 * dv - 2 * du /\ away + 2 * dv - 2 * du <= du
        BY <2>2, <2>6, <4>2
      <4> HIDE DEF k
      <4> QED BY <2>4, <4>1, <4>3, <4>4 DEF Near, p
    <3>3. f[i + 1].d = (away + 2 * dv - 2 * du) + 2 * dv - du /\ f[i + 1].v = f[i].v + vincr
      BY <2>2, <2>3, <3>1
    <3>4. away + 2 * dv - 2 * du \in Int
      OBVIOUS
    <3>5. vincr * (f[i + 1].v - v1) = k + 1
      BY <2>3, <3>3
    <3> HIDE DEF d, k
    <3>6. Follows(f, du, dv, v1, vincr, i + 1)
      BY <3>2, <3>3, <3>4, <3>5 DEF Follows
    <3> QED BY <2>1, <3>6
  <2> QED BY <2>3, <2>5, <2>6
<1>4. \A i \in 0 .. du : i \in T
  <2> HIDE DEF T
  <2>1. 0 \in Int /\ du \in Int
    OBVIOUS
  <2> QED BY ONLY <1>2, <1>3, <2>1, Induction
<1> QED BY <1>4 DEF f

(* A line as it should be: both ends, a point for each step along the      *)
(* longer axis, none further than half a step from the straight line.      *)
Off(p, a1, b1, a2, b2) == (p[1] - a1) * (b2 - b1) - (p[2] - b1) * (a2 - a1)
Straight(P, a1, b1, a2, b2, long) ==
  /\ <<a1, b1>> \in P /\ <<a2, b2>> \in P
  /\ IsFiniteSet(P) /\ Cardinality(P) = long + 1
  /\ \A p \in P : p \in Int \X Int /\ 2 * R!Abs(Off(p, a1, b1, a2, b2)) <= long

(* As many points as columns.                                              *)
LEMMA Counted ==
  ASSUME NEW n \in Nat, NEW P, NEW f \in Bijection(0 .. n, P)
  PROVE  IsFiniteSet(P) /\ Cardinality(P) = n + 1
<1>1. IsFiniteSet(0 .. n) /\ Cardinality(0 .. n) = n + 1
  BY FS_Interval
<1>2. ExistsBijection(0 .. n, P)
  BY DEF ExistsBijection
<1> QED BY <1>1, <1>2, FS_Bijection

(* What Scan marks lies along the straight line, one point to a column.    *)
LEMMA ScanStraight ==
  ASSUME NEW u1 \in Int, NEW v1 \in Int, NEW u2 \in Int, NEW v2 \in Int,
         u1 <= u2, R!Abs(v2 - v1) <= u2 - u1
  PROVE  Straight(R!Scan(u1, v1, u2, v2), u1, v1, u2, v2, u2 - u1)
<1> DEFINE du == u2 - u1
           dv == R!Abs(v2 - v1)
           vincr == IF v2 > v1 THEN 1 ELSE -1
           f == R!Decided(du, dv, v1, vincr)
           P == {<<u1 + i, f[i].v>> : i \in 0 .. du}
<1>1. du \in Nat /\ dv \in Nat /\ dv <= du /\ vincr \in {1, -1} /\ vincr \in Int /\ v2 - v1 = vincr * dv
  BY DEF R!Abs
<1>2. R!Scan(u1, v1, u2, v2) = P
  BY DEF R!Scan
<1> HIDE DEF du, dv, vincr
<1>3. f \in [0 .. du -> [v : Int, d : Int]] /\ f[0] = [v |-> v1, d |-> 2 * dv - du]
  <2>1. DecidedLoop(f, du, dv, v1, vincr)
    BY <1>1, DecidedSteps
  <2> QED BY <2>1 DEF DecidedLoop
<1>4. \A i \in 0 .. du : Follows(f, du, dv, v1, vincr, i)
  BY <1>1, DecidedFollows
<1> HIDE DEF f
<1>5. ASSUME NEW i \in 0 .. du
      PROVE  2 * R!Abs(Off(<<u1 + i, f[i].v>>, u1, v1, u2, v2)) <= du
  <2> DEFINE k == vincr * (f[i].v - v1)
  <2>1. PICK away \in Int : Near(du, dv, away, i, k)
    BY <1>4 DEF Follows
  <2>2. f[i].v \in Int /\ k \in Int /\ f[i].v - v1 = vincr * k
    BY <1>1, <1>3
  <2> DEFINE p == i * dv
             q == k * du
             off == Off(<<u1 + i, f[i].v>>, u1, v1, u2, v2)
  <2>3. off = i * (v2 - v1) - (f[i].v - v1) * (u2 - u1)
    BY <2>2 DEF Off
  <2>4. i * (v2 - v1) = vincr * p
    BY <1>1
  <2>5. (f[i].v - v1) * (u2 - u1) = vincr * q
    BY <1>1, <2>2 DEF du
  <2>6. p \in Int /\ q \in Int
    BY <1>1, <2>2
  <2> HIDE DEF off
  <2>7. 2 * p - 2 * q <= du /\ - du <= 2 * p - 2 * q
    BY <2>1 DEF Near
  <2> HIDE DEF p, q, k
  <2>8. off = vincr * p - vincr * q
    BY <2>3, <2>4, <2>5
  <2>9. CASE vincr = 1
    <3>1. off = p - q
      BY <2>6, <2>8, <2>9
    <3> QED BY <1>1, <2>6, <2>7, <3>1 DEF R!Abs, off
  <2>10. CASE vincr = -1
    <3>1. off = q - p
      BY <2>6, <2>8, <2>10
    <3> QED BY <1>1, <2>6, <2>7, <3>1 DEF R!Abs, off
  <2> QED BY <1>1, <2>9, <2>10
<1>6. \A x \in P : x \in Int \X Int /\ 2 * R!Abs(Off(x, u1, v1, u2, v2)) <= du
  BY <1>1, <1>3, <1>5
<1>7. IsFiniteSet(P) /\ Cardinality(P) = du + 1
  <2> DEFINE b == [i \in 0 .. du |-> <<u1 + i, f[i].v>>]
  <2>1. b \in Injection(0 .. du, P)
    <3>1. ASSUME NEW i \in 0 .. du, NEW j \in 0 .. du, <<u1 + i, f[i].v>> = <<u1 + j, f[j].v>>
          PROVE  i = j
      BY <1>1, <3>1
    <3>2. ASSUME NEW i \in 0 .. du, NEW j \in 0 .. du, b[i] = b[j] PROVE i = j
      BY <3>1, <3>2
    <3>3. b \in [0 .. du -> P]
      OBVIOUS
    <3> HIDE DEF b, P
    <3> QED BY <3>2, <3>3 DEF Injection, IsInjective
  <2>2. b \in Surjection(0 .. du, P)
    BY DEF Surjection
  <2>3. b \in Bijection(0 .. du, P)
    BY <2>1, <2>2 DEF Bijection
  <2> HIDE DEF P, b
  <2> QED BY <1>1, <2>3, Counted
<1>8. <<u1, v1>> \in P
  <2>1. u1 + 0 = u1 /\ 0 \in 0 .. du /\ f[0].v = v1
    BY <1>1, <1>3
  <2> QED BY <2>1
<1>9. <<u2, v2>> \in P
  <2>1. u1 + du = u2 /\ du \in 0 .. du
    BY <1>1 DEF du
  <2> DEFINE k == vincr * (f[du].v - v1)
  <2>2. PICK away \in Int : Near(du, dv, away, du, k)
    BY <1>4, <2>1 DEF Follows
  <2>3. f[du].v \in Int /\ k \in Int /\ f[du].v - v1 = vincr * k
    BY <1>1, <1>3, <2>1
  <2>4. k = dv
    <3>1. CASE du = 0
      <4>1. f[du].v = v1 /\ dv = 0
        BY <1>1, <1>3, <3>1
      <4> QED BY <1>1, <4>1
    <3>2. CASE du # 0
      <4> HIDE DEF k
      <4> DEFINE t == du * (2 * (dv - k))
      <4>1. t \in Int /\ t <= du /\ - du <= t
        <5>1. 2 * (du * dv) - 2 * (k * du) <= du /\ - du <= 2 * (du * dv) - 2 * (k * du)
          BY <2>2 DEF Near
        <5>2. 2 * (du * dv) - 2 * (k * du) = t
          BY <1>1, <2>3
        <5> QED BY <1>1, <2>3, <5>1, <5>2
      <4>2. dv - k >= 1 => t >= 2 * du
        BY <1>1, <2>3
      <4>3. dv - k <= -1 => t <= -2 * du
        BY <1>1, <2>3
      <4> HIDE DEF t
      <4>4. ~ (dv - k >= 1) /\ ~ (dv - k <= -1)
        BY <1>1, <3>2, <4>1, <4>2, <4>3
      <4> QED BY <1>1, <2>3, <4>4
    <3> QED BY <3>1, <3>2
  <2>5. f[du].v = v2
    <3> HIDE DEF k
    <3>1. f[du].v - v1 = v2 - v1
      BY <1>1, <2>3, <2>4
    <3> QED BY <2>3, <3>1
  <2> QED BY <2>1, <2>5
<1> HIDE DEF P
<1> QED BY <1>2, <1>6, <1>7, <1>8, <1>9 DEF Straight, du

(* The distance from a line is the same seen from its other end.           *)
LEMMA OffReversed ==
  ASSUME NEW a1 \in Int, NEW b1 \in Int, NEW a2 \in Int, NEW b2 \in Int, NEW p \in Int \X Int
  PROVE  /\ Off(p, a1, b1, a2, b2) \in Int
         /\ Off(p, a2, b2, a1, b1) = - Off(p, a1, b1, a2, b2)
<1> DEFINE x == p[1] - a1
           y == p[2] - b1
           dx == a2 - a1
           dy == b2 - b1
<1>1. x \in Int /\ y \in Int /\ dx \in Int /\ dy \in Int
  OBVIOUS
<1>2. Off(p, a1, b1, a2, b2) = x * dy - y * dx
  BY DEF Off
<1>3. p[1] - a2 = x - dx /\ p[2] - b2 = y - dy /\ a1 - a2 = - dx /\ b1 - b2 = - dy
  OBVIOUS
<1>4. Off(p, a2, b2, a1, b1) = (x - dx) * (- dy) - (y - dy) * (- dx)
  BY <1>3 DEF Off
<1> HIDE DEF x, y, dx, dy
<1>5. (x - dx) * (- dy) - (y - dy) * (- dx) = - (x * dy - y * dx)
  BY <1>1
<1> QED BY <1>1, <1>2, <1>4, <1>5

(* The same points, taken from the other end.                              *)
LEMMA StraightReversed ==
  ASSUME NEW a1 \in Int, NEW b1 \in Int, NEW a2 \in Int, NEW b2 \in Int, NEW long \in Int,
         NEW P, Straight(P, a1, b1, a2, b2, long)
  PROVE  Straight(P, a2, b2, a1, b1, long)
<1>1. ASSUME NEW p \in P PROVE p \in Int \X Int /\ 2 * R!Abs(Off(p, a2, b2, a1, b1)) <= long
  <2>1. p \in Int \X Int /\ 2 * R!Abs(Off(p, a1, b1, a2, b2)) <= long
    BY DEF Straight
  <2>2. Off(p, a1, b1, a2, b2) \in Int /\ Off(p, a2, b2, a1, b1) = - Off(p, a1, b1, a2, b2)
    BY <2>1, OffReversed
  <2> QED BY <2>1, <2>2 DEF R!Abs
<1> QED BY <1>1 DEF Straight

(* A set of points and what changing the axes makes of it.                 *)
LEMMA StraightTurned ==
  ASSUME NEW a1 \in Int, NEW b1 \in Int, NEW a2 \in Int, NEW b2 \in Int, NEW long \in Nat,
         NEW P, Straight(P, a1, b1, a2, b2, long)
  PROVE  Straight({<<q[2], q[1]>> : q \in P}, b1, a1, b2, a2, long)
<1> DEFINE Q == {<<q[2], q[1]>> : q \in P}
<1>1. \A q \in P : q \in Int \X Int /\ 2 * R!Abs(Off(q, a1, b1, a2, b2)) <= long
  BY DEF Straight
<1>2. ASSUME NEW q \in P
      PROVE  <<q[2], q[1]>> \in Int \X Int /\ 2 * R!Abs(Off(<<q[2], q[1]>>, b1, a1, b2, a2)) <= long
  <2>1. Off(<<q[2], q[1]>>, b1, a1, b2, a2) = - Off(q, a1, b1, a2, b2) /\ Off(q, a1, b1, a2, b2) \in Int
    <3> DEFINE left == (q[1] - a1) * (b2 - b1)
               right == (q[2] - b1) * (a2 - a1)
    <3>1. left \in Int /\ right \in Int
      BY <1>1
    <3>2. Off(<<q[2], q[1]>>, b1, a1, b2, a2) = right - left /\ Off(q, a1, b1, a2, b2) = left - right
      BY DEF Off
    <3> HIDE DEF left, right
    <3> QED BY <3>1, <3>2
  <2> QED BY <1>1, <2>1 DEF R!Abs
<1>3. Cardinality(P) = long + 1 /\ IsFiniteSet(P) => IsFiniteSet(Q) /\ Cardinality(Q) = long + 1
  <2> DEFINE b == [q \in P |-> <<q[2], q[1]>>]
  <2>1. b \in [P -> Q]
    OBVIOUS
  <2>2. ASSUME NEW q \in P, NEW r \in P, b[q] = b[r] PROVE q = r
    BY <1>1, <2>2
  <2>3. \A x \in Q : \E q \in P : b[q] = x
    OBVIOUS
  <2> HIDE DEF b, Q
  <2>4. b \in Bijection(P, Q)
    BY <2>1, <2>2, <2>3 DEF Bijection, Injection, IsInjective, Surjection
  <2>5. ExistsBijection(P, Q)
    BY <2>4 DEF ExistsBijection
  <2> QED BY <2>5, FS_Bijection
<1> QED BY <1>2, <1>3 DEF Straight

(* line() draws the straight line, and the same from either end: the swap  *)
(* of the ends (graphics.c:495) and the two branches agree.                *)
LEMMA ForwardStraight ==
  ASSUME NEW u1 \in Int, NEW v1 \in Int, NEW u2 \in Int, NEW v2 \in Int,
         R!Abs(v2 - v1) <= R!Abs(u2 - u1)
  PROVE  /\ Straight(R!Forward(u1, v1, u2, v2), u1, v1, u2, v2, R!Abs(u2 - u1))
         /\ R!Forward(u2, v2, u1, v1) = R!Forward(u1, v1, u2, v2)
<1>1. CASE u2 < u1
  <2>1. R!Forward(u1, v1, u2, v2) = R!Scan(u2, v2, u1, v1) /\ R!Forward(u2, v2, u1, v1) = R!Scan(u2, v2, u1, v1)
    BY <1>1 DEF R!Forward
  <2>2. u2 <= u1 /\ R!Abs(v1 - v2) <= u1 - u2 /\ R!Abs(u2 - u1) = u1 - u2 /\ u1 - u2 \in Int
    BY <1>1 DEF R!Abs
  <2>3. Straight(R!Scan(u2, v2, u1, v1), u2, v2, u1, v1, u1 - u2)
    BY <2>2, ScanStraight
  <2>4. Straight(R!Scan(u2, v2, u1, v1), u1, v1, u2, v2, u1 - u2)
    BY <2>2, <2>3, StraightReversed
  <2> QED BY <2>1, <2>2, <2>4
<1>2. CASE u1 < u2
  <2>1. R!Forward(u1, v1, u2, v2) = R!Scan(u1, v1, u2, v2) /\ R!Forward(u2, v2, u1, v1) = R!Scan(u1, v1, u2, v2)
    BY <1>2 DEF R!Forward
  <2>2. u1 <= u2 /\ R!Abs(v2 - v1) <= u2 - u1 /\ R!Abs(u2 - u1) = u2 - u1
    BY <1>2 DEF R!Abs
  <2> QED BY <2>1, <2>2, ScanStraight
<1>3. CASE u1 = u2
  <2>1. v1 = v2 /\ R!Abs(u2 - u1) = u2 - u1 /\ R!Abs(v2 - v1) <= u2 - u1 /\ u1 <= u2
    BY <1>3 DEF R!Abs
  <2>2. Straight(R!Scan(u1, v1, u2, v2), u1, v1, u2, v2, u2 - u1)
    BY <2>1, ScanStraight
  <2>3. R!Forward(u1, v1, u2, v2) = R!Scan(u1, v1, u2, v2)
    BY <1>3 DEF R!Forward
  <2> QED BY <1>3, <2>1, <2>2, <2>3
<1> QED BY <1>1, <1>2, <1>3

Long(x1, y1, x2, y2) ==
  IF R!Abs(x2 - x1) >= R!Abs(y2 - y1) THEN R!Abs(x2 - x1) ELSE R!Abs(y2 - y1)

(* line() draws the straight line, the same from either end.               *)
LEMMA LineStraight ==
  ASSUME NEW x1 \in Int, NEW y1 \in Int, NEW x2 \in Int, NEW y2 \in Int
  PROVE  /\ Straight(R!line(x1, y1, x2, y2), x1, y1, x2, y2, Long(x1, y1, x2, y2))
         /\ R!line(x2, y2, x1, y1) = R!line(x1, y1, x2, y2)
<1>1. /\ R!Abs(x2 - x1) \in Nat /\ R!Abs(x1 - x2) = R!Abs(x2 - x1)
      /\ R!Abs(y2 - y1) \in Nat /\ R!Abs(y1 - y2) = R!Abs(y2 - y1)
  BY DEF R!Abs
<1>2. CASE R!Abs(y2 - y1) <= R!Abs(x2 - x1)
  <2>1. /\ R!line(x1, y1, x2, y2) = R!Forward(x1, y1, x2, y2)
        /\ R!line(x2, y2, x1, y1) = R!Forward(x2, y2, x1, y1)
    BY <1>1, <1>2 DEF R!line
  <2>2. Long(x1, y1, x2, y2) = R!Abs(x2 - x1)
    BY <1>1, <1>2 DEF Long
  <2> QED BY <1>2, <2>1, <2>2, ForwardStraight
<1>3. CASE ~ (R!Abs(y2 - y1) <= R!Abs(x2 - x1))
  <2> DEFINE F == R!Forward(y1, x1, y2, x2)
             Turned(P) == {<<q[2], q[1]>> : q \in P}
  <2>1. /\ R!line(x1, y1, x2, y2) = Turned(F)
        /\ R!line(x2, y2, x1, y1) = Turned(R!Forward(y2, x2, y1, x1))
    BY <1>1, <1>3 DEF R!line
  <2>2. Long(x1, y1, x2, y2) = R!Abs(y2 - y1) /\ R!Abs(x2 - x1) <= R!Abs(y2 - y1)
    BY <1>1, <1>3 DEF Long
  <2>3. Straight(F, y1, x1, y2, x2, R!Abs(y2 - y1)) /\ R!Forward(y2, x2, y1, x1) = F
    BY <2>2, ForwardStraight
  <2> HIDE DEF F
  <2>4. Straight(Turned(F), x1, y1, x2, y2, R!Abs(y2 - y1))
    BY <1>1, <2>3, StraightTurned
  <2> HIDE DEF Turned
  <2> QED BY <2>1, <2>2, <2>3, <2>4
<1> QED BY <1>2, <1>3

(* Each kind of call is told from the others by its function.              *)
LEMMA Kinds ==
  /\ \A p \in Printings : p.fn = "vsnprintf"
  /\ \A e \in Entries : e.fn = "SetFAT"
  /\ \A name, other : Naming(name, other).fn = "CanonicalToDir"
  /\ \A d \in Disks : d.fn = "start_user_task"
  /\ \A l \in Lines : l.fn = "line"
  /\ \A t \in Times : t.fn = "mktime"
<1>1. \A p \in Printings : p.fn = "vsnprintf"
  BY CallsAssumption
<1>2. \A e \in Entries : e.fn = "SetFAT"
  BY CallsAssumption
<1>3. \A name, other : Naming(name, other).fn = "CanonicalToDir"
  BY DEF Naming
<1>4. \A d \in Disks : d.fn = "start_user_task"
  BY CallsAssumption
<1>5. \A l \in Lines : l.fn = "line"
  <2>1. Lines \subseteq [fn : {"line"}, x1 : Int, y1 : Int, x2 : Int, y2 : Int]
    BY CallsAssumption
  <2> QED BY <2>1
<1>6. \A t \in Times : t.fn = "mktime"
  <2>1. Times \subseteq [fn : {"mktime"}, clock : C!Calendar]
    BY CallsAssumption
  <2> QED BY <2>1
<1> QED BY <1>1, <1>2, <1>3, <1>4, <1>5, <1>6

(* A line that has been drawn.                                             *)
LineInv ==
  call.fn = "line" =>
    /\ call \in Lines
    /\ \/ m.state = "DRAW"
       \/ /\ m.points = R!line(call.x1, call.y1, call.x2, call.y2)
          /\ m.back = R!line(call.x2, call.y2, call.x1, call.y1)

(* It holds at first.                                                      *)
LEMMA LineInit == Init => LineInv
BY Kinds DEF Init, LineInv

(* It is kept.                                                             *)
LEMMA LineNext == LineInv /\ [Next]_vars => LineInv'
<1> SUFFICES ASSUME LineInv, [Next]_vars, call.fn = "line", call' = call PROVE LineInv'
  BY DEF LineInv, Next, vars
<1>1. CASE Line
  BY <1>1 DEF Line, LineInv
<1>2. CASE UNCHANGED vars
  BY <1>2 DEF LineInv, vars
<1> QED BY <1>1, <1>2 DEF Next, Dopr, SetFAT, SetFirst, SetSecond, ToDir, FindVolume, Mount, CmosRead, CmosReread, Tick, Heap, HeapRuns, Malloc, Calloc, Realloc, Free

(* A line is the same drawn from either end, has one point on each column  *)
(* or row between its ends, and none is further than half a pixel from     *)
(* where the straight line crosses it (line(), graphics.c:472).            *)
THEOREM LineAlwaysExact == Spec => []LineExact
<1>1. LineInv => LineExact
  <2> SUFFICES ASSUME LineInv, call.fn = "line", m.state = "DONE" PROVE LineExact
    BY DEF LineExact, Returned
  <2> DEFINE x1 == call.x1
             y1 == call.y1
             x2 == call.x2
             y2 == call.y2
  <2>1. /\ x1 \in Int /\ y1 \in Int /\ x2 \in Int /\ y2 \in Int
        /\ m.points = R!line(x1, y1, x2, y2) /\ m.back = R!line(x2, y2, x1, y1)
    BY CallsAssumption DEF LineInv
  <2>2. Straight(m.points, x1, y1, x2, y2, Long(x1, y1, x2, y2)) /\ m.points = m.back
    <3> HIDE DEF x1, y1, x2, y2
    <3> QED BY <2>1, LineStraight
  <2> QED BY <2>2 DEF LineExact, Straight, Off, Long
<1> QED BY <1>1, LineInit, LineNext, PTL DEF Spec

--------------------------------------------------------------------------------
(***************************************************************************)
(* mktime(), and the clock that goes on while its registers are read.      *)
(***************************************************************************)

(* A sum, length by length, as the loop that adds them.                    *)
Sums(f, a, b, length) ==
  /\ f \in [a .. b -> Int]
  /\ f[a] = 0
  /\ \A i \in a .. b : i # a => f[i] = f[i - 1] + length[i - 1]

(* The lengths of the months added up: such a function there is.           *)
LEMMA SumExists ==
  ASSUME NEW a \in Int, NEW b \in Int, a <= b, NEW length \in [a .. b -> Int]
  PROVE  \E f : f = [i \in a .. b |-> IF i = a THEN 0 ELSE f[i - 1] + length[i - 1]]
<1> DEFINE S == Int
           step == [p \in (a .. b) \X S |-> IF p[1] = a THEN 0 ELSE p[2] + length[p[1] - 1]]
<1>1. Steps(step, a, b, S)
  <2>1. ASSUME NEW p \in (a .. b) \X S PROVE (IF p[1] = a THEN 0 ELSE p[2] + length[p[1] - 1]) \in S
    <3>1. p[1] # a => p[1] - 1 \in a .. b
      OBVIOUS
    <3> QED BY <3>1
  <2> QED BY <2>1 DEF Steps
<1>2. \E f : Loops(f, a, b, S, 0, step)
  <2>1. 0 \in S
    OBVIOUS
  <2> HIDE DEF S, step
  <2> QED BY <1>1, <2>1, LoopExists
<1>3. PICK f : Loops(f, a, b, S, 0, step)
  BY <1>2
<1>4. f \in [a .. b -> Int] /\ \A i \in a .. b : f[i] = IF i = a THEN 0 ELSE step[<<i, f[i - 1]>>]
  <2> HIDE DEF step
  <2> QED BY <1>3 DEF Loops
<1>5. ASSUME NEW i \in a .. b, i # a PROVE f[i] = f[i - 1] + length[i - 1]
  <2>1. i - 1 \in a .. b /\ f[i - 1] \in S
    BY <1>4, <1>5
  <2>2. step[<<i, f[i - 1]>>] = f[i - 1] + length[i - 1]
    BY <1>5, <2>1
  <2> HIDE DEF step, S
  <2> QED BY <1>4, <1>5, <2>2
<1>6. f[a] = 0
  <2> HIDE DEF step
  <2>1. a \in a .. b
    OBVIOUS
  <2> QED BY <1>4, <2>1
<1>7. f = [i \in a .. b |-> IF i = a THEN 0 ELSE f[i - 1] + length[i - 1]]
  BY <1>4, <1>5, <1>6
<1> QED BY <1>7

(* A recursive sum of lengths is the number of days in front.              *)
LEMMA SumsBefore ==
  ASSUME NEW a \in Int, NEW b \in Int, a <= b, NEW length \in [a .. b -> Int]
  PROVE  Sums(C!Before(length, a, b), a, b, length)
<1> DEFINE Rule(g) == g = [i \in a .. b |-> IF i = a THEN 0 ELSE g[i - 1] + length[i - 1]]
           f == C!Before(length, a, b)
<1>1. \E g : Rule(g)
  BY SumExists
<1>2. f = CHOOSE g : Rule(g)
  BY DEF C!Before
<1>3. Rule(f)
  <2> HIDE DEF Rule, f
  <2> QED BY <1>1, <1>2
<1> HIDE DEF f
<1> DEFINE T == {i \in a .. b : f[i] \in Int}
<1>4. \A i \in a .. b : f[i] = IF i = a THEN 0 ELSE f[i - 1] + length[i - 1]
  BY <1>3
<1>5. a \in T /\ f[a] = 0
  <2>1. a \in a .. b
    OBVIOUS
  <2> QED BY <1>4, <2>1
<1>6. ASSUME NEW i \in a .. b, i < b, i \in T PROVE i + 1 \in T
  <2>1. i + 1 \in a .. b /\ (i + 1) - 1 = i /\ i + 1 # a
    BY <1>6
  <2>2. f[i + 1] = f[i] + length[i]
    BY <1>4, <2>1
  <2> QED BY <1>6, <2>1, <2>2
<1>7. \A i \in a .. b : i \in T
  <2> HIDE DEF T
  <2> QED BY ONLY <1>5, <1>6, Induction, a \in Int, b \in Int
<1>8. f \in [a .. b -> Int]
  <2>1. f = [i \in a .. b |-> IF i = a THEN 0 ELSE f[i - 1] + length[i - 1]]
    BY <1>3
  <2>2. f = [i \in a .. b |-> f[i]]
    BY <2>1
  <2> QED BY <1>7, <2>2
<1> QED BY <1>4, <1>5, <1>8 DEF Sums, f

(* The days from 1970 to the beginning of a year.                          *)
LEMMA YearBegins ==
  \A y \in 1970 .. 2069 : C!NewYear[y] = 365 * (y - 1970) + ((y - 1970) + 1) \div 4
<1> DEFINE a == 1970
           b == 2069
           length == [y \in a .. b |-> IF C!Leap(y) THEN 366 ELSE 365]
           F == C!NewYear
<1>1. a \in Int /\ b \in Int /\ a <= b /\ length \in [a .. b -> Int]
  OBVIOUS
<1>2. Sums(F, a, b, length)
  <2>1. F = C!Before(length, a, b)
    BY SMT DEF C!NewYear
  <2> HIDE DEF F, a, b, length
  <2> QED BY <1>1, <2>1, SumsBefore
<1> DEFINE T == {y \in a .. b : F[y] = 365 * (y - a) + ((y - a) + 1) \div 4}
<1> HIDE DEF F
<1>3. a \in T
  BY SMT, <1>2 DEF Sums
<1>4. ASSUME NEW y \in a .. b, y < b, y \in T PROVE y + 1 \in T
  <2>1. y + 1 \in a .. b /\ (y + 1) - 1 = y /\ y + 1 # a
    BY SMT, <1>4
  <2>2. F[y + 1] = F[y] + length[y]
    <3> HIDE DEF a, b, length
    <3> QED BY <1>2, <2>1 DEF Sums
  <2>3. length[y] = 365 + (IF y % 4 = 0 THEN 1 ELSE 0)
    BY SMT DEF C!Leap
  <2>4. ((y + 1 - a) + 1) \div 4 = ((y - a) + 1) \div 4 + (IF y % 4 = 0 THEN 1 ELSE 0)
    BY SMT
  <2> HIDE DEF length
  <2> QED BY SMT, <1>4, <2>1, <2>2, <2>3, <2>4
<1>5. \A y \in a .. b : y \in T
  <2> HIDE DEF T, a, b
  <2> QED BY ONLY <1>1, <1>3, <1>4, Induction
<1> QED BY <1>5 DEF F

(* The days before a month, of a year of the calendar.                     *)
MonthsBegin(y) ==
  \A mon \in 1 .. 12 : C!FirstOf(y)[mon] = C!month[mon] - (IF mon - 1 > 1 /\ y % 4 # 0 THEN 1 ELSE 0)

(* The days of a year in front of a month.                                 *)
LEMMA MonthBegins ==
  ASSUME NEW y \in 1970 .. 2069
  PROVE  MonthsBegin(y)
<1> DEFINE a == 1
           b == 12
           length == [mon \in a .. b |-> C!MonthLength(y, mon)]
           F == C!FirstOf(y)
<1>1. a \in Int /\ b \in Int /\ a <= b /\ length \in [a .. b -> Int]
  BY DEF C!MonthLength
<1>2. Sums(F, a, b, length)
  <2>1. F = C!Before(length, a, b)
    BY SMT DEF C!FirstOf
  <2> HIDE DEF F, a, b, length
  <2> QED BY ONLY <1>1, <2>1, SumsBefore
<1> HIDE DEF F
<1>7. C!Leap(y) <=> y % 4 = 0
  BY SMT DEF C!Leap
<1> DEFINE feb == IF y % 4 = 0 THEN 29 ELSE 28
<1>8. /\ length[1] = 31 /\ length[2] = feb /\ length[3] = 31 /\ length[4] = 30 /\ length[5] = 31 /\ length[6] = 30
      /\ length[7] = 31 /\ length[8] = 31 /\ length[9] = 30 /\ length[10] = 31 /\ length[11] = 30
  BY <1>7 DEF C!MonthLength
<1> HIDE DEF length
<1>9. /\ F[1] = 0 /\ F[2] = F[1] + length[1] /\ F[3] = F[2] + length[2] /\ F[4] = F[3] + length[3]
      /\ F[5] = F[4] + length[4] /\ F[6] = F[5] + length[5] /\ F[7] = F[6] + length[6] /\ F[8] = F[7] + length[7]
      /\ F[9] = F[8] + length[8] /\ F[10] = F[9] + length[9] /\ F[11] = F[10] + length[10] /\ F[12] = F[11] + length[11]
  BY <1>2 DEF Sums
<1>10. /\ F[1] = 0 /\ F[2] = 31 /\ F[3] = 31 + feb /\ F[4] = 62 + feb /\ F[5] = 92 + feb /\ F[6] = 123 + feb
       /\ F[7] = 153 + feb /\ F[8] = 184 + feb /\ F[9] = 215 + feb /\ F[10] = 245 + feb /\ F[11] = 276 + feb
       /\ F[12] = 306 + feb
  BY <1>8, <1>9
<1>11. /\ C!month[1] = 0 /\ C!month[2] = 31 /\ C!month[3] = 60 /\ C!month[4] = 91 /\ C!month[5] = 121 /\ C!month[6] = 152
       /\ C!month[7] = 182 /\ C!month[8] = 213 /\ C!month[9] = 244 /\ C!month[10] = 274 /\ C!month[11] = 305
       /\ C!month[12] = 335
  BY DEF C!month
<1>12. \A mon \in 1 .. 12 : mon \in {1, 2, 3, 4, 5, 6, 7, 8, 9, 10, 11, 12}
  OBVIOUS
<1>13. ASSUME NEW mon \in 1 .. 12
       PROVE  F[mon] = C!month[mon] - (IF mon - 1 > 1 /\ y % 4 # 0 THEN 1 ELSE 0)
  BY <1>10, <1>11, <1>12
<1> QED BY <1>13 DEF F, MonthsBegin

(* Two digits of a register, and the number they stand for.                *)
LEMMA BcdBack == \A n \in 0 .. 99 : C!ToBcd(n) \in Int /\ C!BCD_TO_BIN(C!ToBcd(n)) = n
BY SMT DEF C!ToBcd, C!BCD_TO_BIN

Registers == {"sec", "min", "hour", "mday", "mon", "year"}
Shown == [sec : 0 .. 59, min : 0 .. 59, hour : 0 .. 23, mday : 1 .. 31, mon : 1 .. 12, year : 0 .. 99]

(* Registers that all belong to one time give that time.                   *)
LEMMA StartupIsEpoch ==
  ASSUME NEW c \in Shown, NEW tm, DOMAIN tm = Registers, \A f \in Registers : tm[f] = C!ToBcd(c[f])
  PROVE  C!StartupTime(tm) = C!Epoch(c)
<1> DEFINE y == C!FullYear(c)
           bin == [f \in DOMAIN tm |-> C!BCD_TO_BIN(tm[f])]
           t == [bin EXCEPT !.mon = @ - 1, !.year = IF @ + 1900 < 1970 THEN @ + 100 ELSE @]
<1>1. \A f \in Registers : c[f] \in 0 .. 99 /\ C!BCD_TO_BIN(tm[f]) = c[f]
  <2>1. \A f \in Registers : c[f] \in 0 .. 99
    BY DEF Registers, Shown
  <2> QED BY <2>1, BcdBack
<1>2. /\ DOMAIN bin = Registers
      /\ bin.sec = c.sec /\ bin.min = c.min /\ bin.hour = c.hour /\ bin.mday = c.mday /\ bin.mon = c.mon /\ bin.year = c.year
  BY <1>1 DEF Registers
<1> HIDE DEF bin
<1>3. /\ t.sec = c.sec /\ t.min = c.min /\ t.hour = c.hour /\ t.mday = c.mday /\ t.mon = c.mon - 1
      /\ t.year = IF c.year + 1900 < 1970 THEN c.year + 100 ELSE c.year
  BY <1>2 DEF Registers
<1>4. C!StartupTime(tm) = C!mktime(t)
  BY DEF C!StartupTime, bin
<1> HIDE DEF t
<1>5. c.year \in 0 .. 99 /\ c.mon \in 1 .. 12 /\ c.mday \in Int /\ c.hour \in Int /\ c.min \in Int /\ c.sec \in Int
  BY DEF Shown
<1>6. y \in 1970 .. 2069 /\ t.year - 70 = y - 1970 /\ ((t.year - 70) + 2) % 4 = y % 4
  BY SMT, <1>3, <1>5 DEF C!FullYear
<1> HIDE DEF y
<1> DEFINE n == y - 1970
           q == (n + 1) \div 4
           mo == C!month[c.mon]
           r == IF c.mon - 1 > 1 /\ y % 4 # 0 THEN 1 ELSE 0
<1>7. C!NewYear[y] = 365 * n + q /\ C!FirstOf(y)[c.mon] = mo - r
  <2>1. C!NewYear[y] = 365 * n + q
    BY SMT, <1>6, YearBegins
  <2>2. MonthsBegin(y)
    BY SMT, <1>6, MonthBegins
  <2>3. C!FirstOf(y)[c.mon] = mo - r
    BY <1>5, <2>2 DEF MonthsBegin
  <2> QED BY <2>1, <2>3
<1>8. mo \in Int /\ n \in Int /\ q \in Int /\ r \in {0, 1}
  <2>1. mo \in Int
    BY <1>5 DEF C!month
  <2>2. n \in Int
    BY SMT, <1>6
  <2>3. q \in Int
    <3> HIDE DEF n
    <3> QED BY <2>2
  <2>4. r \in {0, 1}
    OBVIOUS
  <2> QED BY <2>1, <2>2, <2>3, <2>4
<1>9. C!mktime(t) = C!YEAR * n + C!DAY * q + C!DAY * mo - (IF r = 1 THEN C!DAY ELSE 0)
                    + C!DAY * (c.mday - 1) + C!HOUR * c.hour + C!MINUTE * c.min + c.sec
  <2>1. t.mon + 1 = c.mon /\ (t.mon > 1 /\ ((t.year - 70) + 2) % 4 # 0 <=> r = 1)
    BY <1>3, <1>5, <1>6
  <2> HIDE DEF r, mo, n, q
  <2>2. C!mktime(t) = C!YEAR * (t.year - 70) + C!DAY * (((t.year - 70) + 1) \div 4) + C!DAY * C!month[t.mon + 1]
                    - (IF t.mon > 1 /\ ((t.year - 70) + 2) % 4 # 0 THEN C!DAY ELSE 0)
                    + C!DAY * (t.mday - 1) + C!HOUR * t.hour + C!MINUTE * t.min + t.sec
    BY DEF C!mktime
  <2>3. t.year - 70 = n /\ ((t.year - 70) + 1) \div 4 = q /\ C!month[t.mon + 1] = mo
    BY <1>6, <2>1 DEF n, q, mo
  <2> QED BY <1>3, <2>1, <2>2, <2>3
<1>10. C!Epoch(c) = (C!NewYear[y] + C!FirstOf(y)[c.mon] + c.mday - 1) * C!DAY + c.hour * C!HOUR + c.min * C!MINUTE + c.sec
  BY DEF C!Epoch, y
<1> HIDE DEF mo, n, q, r
<1>11. C!Epoch(c) = (365 * n + q + mo - r + c.mday - 1) * C!DAY + c.hour * C!HOUR + c.min * C!MINUTE + c.sec
  <2>1. C!NewYear[y] + C!FirstOf(y)[c.mon] + c.mday - 1 = 365 * n + q + mo - r + c.mday - 1
    BY <1>5, <1>7, <1>8
  <2> QED BY <1>10, <2>1
<1> QED BY SMT, <1>4, <1>5, <1>8, <1>9, <1>11 DEF C!YEAR, C!DAY, C!HOUR, C!MINUTE

(* A register changes within its range.                                    *)
With(t, f, n) == [t EXCEPT ![f] = n]

(* What the registers show of a time of the calendar.                      *)
LEMMA Shows ==
  ASSUME NEW t \in Shown
  PROVE  /\ \A n \in 0 .. 59 : With(t, "sec", n) \in Shown /\ With(t, "sec", n).sec = n
         /\ \A n \in 0 .. 59 : With(t, "min", n) \in Shown /\ With(t, "min", n).sec = t.sec
         /\ \A n \in 0 .. 23 : With(t, "hour", n) \in Shown /\ With(t, "hour", n).sec = t.sec
         /\ \A n \in 1 .. 31 : With(t, "mday", n) \in Shown /\ With(t, "mday", n).sec = t.sec
         /\ \A n \in 1 .. 12 : With(t, "mon", n) \in Shown /\ With(t, "mon", n).sec = t.sec
         /\ \A n \in 0 .. 99 : With(t, "year", n) \in Shown /\ With(t, "year", n).sec = t.sec
<1>1. ASSUME NEW n \in 0 .. 59 PROVE With(t, "sec", n) \in Shown /\ With(t, "sec", n).sec = n
  BY DEF Shown, With
<1>2. ASSUME NEW n \in 0 .. 59 PROVE With(t, "min", n) \in Shown /\ With(t, "min", n).sec = t.sec
  BY DEF Shown, With
<1>3. ASSUME NEW n \in 0 .. 23 PROVE With(t, "hour", n) \in Shown /\ With(t, "hour", n).sec = t.sec
  BY DEF Shown, With
<1>4. ASSUME NEW n \in 1 .. 31 PROVE With(t, "mday", n) \in Shown /\ With(t, "mday", n).sec = t.sec
  BY DEF Shown, With
<1>5. ASSUME NEW n \in 1 .. 12 PROVE With(t, "mon", n) \in Shown /\ With(t, "mon", n).sec = t.sec
  BY DEF Shown, With
<1>6. ASSUME NEW n \in 0 .. 99 PROVE With(t, "year", n) \in Shown /\ With(t, "year", n).sec = t.sec
  BY DEF Shown, With
<1> QED BY <1>1, <1>2, <1>3, <1>4, <1>5, <1>6

(* A second passes: the clock still shows a time, its seconds go on.       *)
LEMMA Ticks ==
  ASSUME NEW c \in Shown
  PROVE  C!TickOf(c) \in Shown /\ C!TickOf(c).sec = IF c.sec = 59 THEN 0 ELSE c.sec + 1
<1> DEFINE len == C!MonthLength(C!FullYear(c), c.mon)
<1>1. len \in Int /\ len <= 31
  BY DEF C!MonthLength
<1> HIDE DEF len
<1> DEFINE zero == With(c, "sec", 0)
           midnight == With(zero, "min", 0)
           day == With(midnight, "hour", 0)
           first == With(day, "mday", 1)
           next == With(first, "mon", 1)
<1>2. zero \in Shown /\ zero.sec = 0
  BY Shows
<1>3. midnight \in Shown /\ midnight.sec = 0
  <2> HIDE DEF zero
  <2> QED BY <1>2, Shows
<1>4. day \in Shown /\ day.sec = 0
  <2> HIDE DEF midnight
  <2> QED BY <1>3, Shows
<1>5. first \in Shown /\ first.sec = 0
  <2> HIDE DEF day
  <2> QED BY <1>4, Shows
<1>6. next \in Shown /\ next.sec = 0
  <2> HIDE DEF first
  <2> QED BY <1>5, Shows
<1>7. /\ c.sec \in 0 .. 59 /\ c.min \in 0 .. 59 /\ c.hour \in 0 .. 23
      /\ c.mday \in 1 .. 31 /\ c.mon \in 1 .. 12 /\ c.year \in 0 .. 99
  BY DEF Shown
<1>8. zero.min = c.min /\ [c EXCEPT !.sec = 0, !.min = @ + 1] = With(zero, "min", zero.min + 1)
  BY DEF Shown, With
<1>9. [c EXCEPT !.sec = 0, !.min = 0] = midnight
  BY DEF Shown, With
<1>10. midnight.hour = c.hour /\ midnight.mday = c.mday /\ midnight.mon = c.mon /\ midnight.year = c.year
  <2>1. zero.hour = c.hour /\ zero.mday = c.mday /\ zero.mon = c.mon /\ zero.year = c.year
    BY DEF Shown, With
  <2> HIDE DEF zero
  <2> QED BY <1>2, <2>1 DEF Shown, With
<1>11. C!TickOf(c) = IF c.sec < 59 THEN [c EXCEPT !.sec = @ + 1]
                     ELSE IF c.min < 59 THEN [c EXCEPT !.sec = 0, !.min = @ + 1]
                     ELSE IF midnight.hour < 23 THEN [midnight EXCEPT !.hour = @ + 1]
                     ELSE IF midnight.mday < len THEN [midnight EXCEPT !.hour = 0, !.mday = @ + 1]
                     ELSE IF midnight.mon < 12 THEN [midnight EXCEPT !.hour = 0, !.mday = 1, !.mon = @ + 1]
                     ELSE [midnight EXCEPT !.hour = 0, !.mday = 1, !.mon = 1, !.year = (@ + 1) % 100]
  <2> HIDE DEF midnight
  <2> QED BY <1>9, <1>10 DEF C!TickOf, len
<1>12. CASE c.sec < 59
  <2>1. c.sec + 1 \in 0 .. 59 /\ [c EXCEPT !.sec = @ + 1] = With(c, "sec", c.sec + 1)
    BY <1>7, <1>12 DEF With
  <2> HIDE DEF midnight
  <2> QED BY <1>7, <1>11, <1>12, <2>1, Shows
<1>13. CASE c.sec = 59 /\ c.min < 59
  <2>1. c.min + 1 \in 0 .. 59
    BY <1>7, <1>13
  <2> HIDE DEF zero, midnight
  <2> QED BY <1>2, <1>8, <1>11, <1>13, <2>1, Shows
<1>14. CASE c.sec = 59 /\ ~ (c.min < 59)
  <2> HIDE DEF midnight
  <2> DEFINE hour == midnight.hour
             mday == midnight.mday
             mon == midnight.mon
             year == (midnight.year + 1) % 100
             A == [midnight EXCEPT !.hour = @ + 1]
             B == [midnight EXCEPT !.hour = 0, !.mday = @ + 1]
             D == [midnight EXCEPT !.hour = 0, !.mday = 1, !.mon = @ + 1]
             E == [midnight EXCEPT !.hour = 0, !.mday = 1, !.mon = 1, !.year = (@ + 1) % 100]
  <2>1. A = With(midnight, "hour", hour + 1)
    BY DEF With
  <2>2. B = With(day, "mday", mday + 1)
    BY <1>3 DEF Shown, With
  <2>3. D = With(first, "mon", mon + 1)
    BY <1>3 DEF Shown, With
  <2>4. E = With(next, "year", year)
    BY <1>3 DEF Shown, With
  <2>5. c.sec = 59 /\ ~ (c.sec < 59) /\ ~ (c.min < 59)
    BY <1>14
  <2>6. C!TickOf(c) = IF hour < 23 THEN A ELSE IF mday < len THEN B ELSE IF mon < 12 THEN D ELSE E
    BY <1>11, <2>5
  <2>7. /\ hour \in 0 .. 23 /\ mday \in 1 .. 31 /\ mon \in 1 .. 12 /\ year \in 0 .. 99
        /\ (hour < 23 => hour + 1 \in 0 .. 23) /\ (mday < len => mday + 1 \in 1 .. 31) /\ (mon < 12 => mon + 1 \in 1 .. 12)
    BY SMT, <1>1, <1>7, <1>10
  <2> HIDE DEF day, first, next, hour, mday, mon, year, A, B, D, E
  <2>8. hour < 23 => A \in Shown /\ A.sec = 0
    BY <1>3, <2>1, <2>7, Shows
  <2>9. mday < len => B \in Shown /\ B.sec = 0
    BY <1>4, <2>2, <2>7, Shows
  <2>10. mon < 12 => D \in Shown /\ D.sec = 0
    BY <1>5, <2>3, <2>7, Shows
  <2>11. E \in Shown /\ E.sec = 0
    BY <1>6, <2>4, <2>7, Shows
  <2> QED BY <2>5, <2>6, <2>8, <2>9, <2>10, <2>11
<1> HIDE DEF midnight
<1> QED BY <1>7, <1>12, <1>13, <1>14

(* The registers read since the seconds were, before each is.              *)
Behind ==
  [SEC |-> {}, MIN |-> {"sec"}, HOUR |-> {"sec", "min"}, MDAY |-> {"sec", "min", "hour"},
   MON |-> {"sec", "min", "hour", "mday"}, YEAR |-> {"sec", "min", "hour", "mday", "mon"}, AGAIN |-> Registers]

(* The clock t has gone on by d seconds since it showed those of tm; if it *)
(* has not, all that was read belongs to what it shows.                    *)
Since(tm, t, read, s, d) ==
  /\ tm["sec"] = C!ToBcd(s)
  /\ t.sec = IF s + d < 60 THEN s + d ELSE s + d - 60
  /\ d = 0 => \A f \in read : tm[f] = C!ToBcd(t[f])

(* While the registers are read, and when the time is known.               *)
Reading(read) ==
  /\ m = [state |-> m.state, clock |-> m.clock, tm |-> m.tm, ticks |-> m.ticks]
  /\ m.clock \in Shown /\ m.ticks \in 0 .. MaxTicks
  /\ read \subseteq DOMAIN m.tm /\ DOMAIN m.tm \subseteq Registers
  /\ read # {} => \E s \in 0 .. 59, d \in 0 .. m.ticks : Since(m.tm, m.clock, read, s, d)
ClockInv ==
  call.fn = "mktime" =>
    \/ m.state \in DOMAIN Behind /\ Reading(Behind[m.state])
    \/ m.state = "DONE" /\ m.time = C!Epoch(m.clock)

(* It holds at first.                                                      *)
LEMMA ClockInit == Init => ClockInv
<1> SUFFICES ASSUME call \in Times, m = [state |-> "SEC", clock |-> call.clock, tm |-> << >>, ticks |-> 0]
             PROVE  ClockInv
  BY Kinds DEF Init, ClockInv
<1>1. m.clock \in Shown
  <2>1. call.clock \in C!Calendar
    BY CallsAssumption
  <2> QED BY SMT, <2>1 DEF C!Calendar, Shown
<1>2. DOMAIN m.tm = {} /\ m.ticks \in 0 .. MaxTicks
  BY TicksAssumption
<1>3. "SEC" \in DOMAIN Behind /\ Behind["SEC"] = {}
  BY DEF Behind
<1> QED BY <1>1, <1>2, <1>3 DEF ClockInv, Reading

(* One register more.                                                      *)
LEMMA ReadNext ==
  ASSUME NEW read, Reading(read), NEW f \in Registers, NEW then,
         m' = [m EXCEPT !.tm = Entered(@, f, C!ToBcd(m.clock[f])), !.state = then],
         f = "sec" => read = {}, f # "sec" => "sec" \in read /\ f \notin read
  PROVE  m'.state = then /\ Reading(read \cup {f})'
<1> DEFINE tm == Entered(m.tm, f, C!ToBcd(m.clock[f]))
<1>1. m' = [state |-> then, clock |-> m.clock, tm |-> tm, ticks |-> m.ticks]
  BY DEF Reading
<1>2. DOMAIN tm = DOMAIN m.tm \cup {f} /\ tm[f] = C!ToBcd(m.clock[f]) /\ \A g \in DOMAIN m.tm \ {f} : tm[g] = m.tm[g]
  BY DEF Entered
<1> HIDE DEF tm
<1>3. m'.state = then /\ m'.clock = m.clock /\ m'.tm = tm /\ m'.ticks = m.ticks
  BY ONLY <1>1
<1>4. m' = [state |-> m'.state, clock |-> m'.clock, tm |-> m'.tm, ticks |-> m'.ticks]
  BY <1>1
<1>5. \E s \in 0 .. 59, d \in 0 .. m.ticks : Since(tm, m.clock, read \cup {f}, s, d)
  <2>1. CASE f = "sec"
    <3>1. m.clock.sec \in 0 .. 59 /\ 0 \in 0 .. m.ticks
      BY DEF Reading, Shown
    <3>2. Since(tm, m.clock, read \cup {f}, m.clock.sec, 0)
      BY <1>2, <2>1, <3>1 DEF Since
    <3> QED BY <3>1, <3>2
  <2>2. CASE f # "sec"
    <3>1. PICK s \in 0 .. 59, d \in 0 .. m.ticks : Since(m.tm, m.clock, read, s, d)
      BY <2>2 DEF Reading
    <3>2. \A g \in read : tm[g] = m.tm[g]
      BY <1>2, <2>2 DEF Reading
    <3>3. Since(tm, m.clock, read \cup {f}, s, d)
      BY <1>2, <2>2, <3>1, <3>2 DEF Since
    <3> QED BY <3>3
  <2> QED BY <2>1, <2>2
<1> QED BY <1>2, <1>3, <1>4, <1>5 DEF Reading

(* It is kept.                                                             *)
LEMMA ClockNext == ClockInv /\ [Next]_vars => ClockInv'
<1> SUFFICES ASSUME ClockInv, [Next]_vars, call.fn = "mktime", call' = call PROVE ClockInv'
  BY DEF ClockInv, Next, vars
<1>1. CASE CmosRead
  <2>1. PICK i \in DOMAIN C!Fields : Reads(C!Fields[i], IF i = Len(C!Fields) THEN "AGAIN" ELSE States[C!Fields[i + 1]])
    BY <1>1 DEF CmosRead
  <2> DEFINE f == C!Fields[i]
             then == IF i = Len(C!Fields) THEN "AGAIN" ELSE States[C!Fields[i + 1]]
             read == Behind[States[f]]
  <2>2. i \in {1, 2, 3, 4, 5, 6} /\ Len(C!Fields) = 6
    BY DEF C!Fields
  <2>3. /\ f \in Registers /\ States[f] \in DOMAIN Behind \ {"AGAIN"} /\ then \in DOMAIN Behind
        /\ Behind[then] = read \cup {f} /\ (f = "sec" => read = {}) /\ (f # "sec" => "sec" \in read /\ f \notin read)
    <3>1. CASE i = 1
      BY <2>2, <3>1 DEF C!Fields, States, Behind, Registers
    <3>2. CASE i = 2
      BY <2>2, <3>2 DEF C!Fields, States, Behind, Registers
    <3>3. CASE i = 3
      BY <2>2, <3>3 DEF C!Fields, States, Behind, Registers
    <3>4. CASE i = 4
      BY <2>2, <3>4 DEF C!Fields, States, Behind, Registers
    <3>5. CASE i = 5
      BY <2>2, <3>5 DEF C!Fields, States, Behind, Registers
    <3>6. CASE i = 6
      BY <2>2, <3>6 DEF C!Fields, States, Behind, Registers
    <3> QED BY <2>2, <3>1, <3>2, <3>3, <3>4, <3>5, <3>6
  <2>4. m.state = States[f] /\ m' = [m EXCEPT !.tm = Entered(@, f, C!ToBcd(m.clock[f])), !.state = then]
    BY <2>1 DEF Reads
  <2> HIDE DEF f, then
  <2>5. Reading(read)
    <3>1. m.state # "DONE"
      BY <2>3, <2>4 DEF Behind
    <3> QED BY <2>4, <3>1 DEF ClockInv
  <2> HIDE DEF read
  <2>6. m'.state = then /\ Reading(read \cup {f})'
    BY <2>3, <2>4, <2>5, ReadNext
  <2> QED BY <2>3, <2>6 DEF ClockInv
<1>2. CASE CmosReread
  <2>1. m.state = "AGAIN" /\ Behind["AGAIN"] = Registers /\ "AGAIN" \in DOMAIN Behind /\ Reading(Registers)
    BY <1>2 DEF CmosReread, ClockInv, Behind
  <2>2. PICK s \in 0 .. 59, d \in 0 .. m.ticks : Since(m.tm, m.clock, Registers, s, d)
    BY <2>1 DEF Reading, Registers
  <2>3. CASE Settled
    <3>1. C!ToBcd(s) = C!ToBcd(m.clock.sec)
      BY <2>2, <2>3 DEF Settled, Since
    <3>2. s \in 0 .. 99 /\ m.clock.sec \in 0 .. 99 /\ d \in 0 .. 59
      BY <2>1, TicksAssumption DEF Reading, Shown
    <3>3. s = m.clock.sec
      BY <3>1, <3>2, BcdBack
    <3>4. d = 0
      BY <2>2, <3>2, <3>3 DEF Since
    <3>5. DOMAIN m.tm = Registers /\ \A f \in Registers : m.tm[f] = C!ToBcd(m.clock[f])
      BY <2>1, <2>2, <3>4 DEF Reading, Since
    <3>6. C!StartupTime(m.tm) = C!Epoch(m.clock)
      BY <2>1, <3>5, StartupIsEpoch DEF Reading
    <3>7. m' = [state |-> "DONE", clock |-> m.clock, time |-> C!StartupTime(m.tm)]
      BY <1>2, <2>3 DEF CmosReread
    <3>8. m'.state = "DONE" /\ m'.time = C!StartupTime(m.tm) /\ m'.clock = m.clock
      BY ONLY <3>7
    <3> QED BY <3>6, <3>8 DEF ClockInv
  <2>4. CASE ~ Settled
    <3>1. m' = [m EXCEPT !.state = "SEC"]
      BY <1>2, <2>4 DEF CmosReread
    <3>2. m' = [state |-> "SEC", clock |-> m.clock, tm |-> m.tm, ticks |-> m.ticks]
      BY <2>1, <3>1 DEF Reading
    <3>3. m'.state = "SEC" /\ m'.clock = m.clock /\ m'.tm = m.tm /\ m'.ticks = m.ticks
      BY ONLY <3>2
    <3>4. Reading({})'
      BY <2>1, <3>2, <3>3 DEF Reading
    <3>5. "SEC" \in DOMAIN Behind /\ Behind["SEC"] = {}
      BY DEF Behind
    <3> QED BY <3>3, <3>4, <3>5 DEF ClockInv
  <2> QED BY <2>3, <2>4
<1>3. CASE Tick
  <2> DEFINE read == Behind[m.state]
             t == C!TickOf(m.clock)
  <2>1. m.state \in DOMAIN Behind /\ Reading(read)
    BY <1>3 DEF Tick, ClockInv
  <2> HIDE DEF read, t
  <2>2. m' = [m EXCEPT !.clock = t, !.ticks = @ + 1] /\ m.ticks + 1 <= MaxTicks
    BY <1>3, <2>1, TicksAssumption DEF Tick, Reading, t
  <2>3. m' = [state |-> m.state, clock |-> t, tm |-> m.tm, ticks |-> m.ticks + 1]
    BY <2>1, <2>2 DEF Reading
  <2>4. m'.state = m.state /\ m'.clock = t /\ m'.tm = m.tm /\ m'.ticks = m.ticks + 1
    BY ONLY <2>3
  <2>5. t \in Shown /\ t.sec = IF m.clock.sec = 59 THEN 0 ELSE m.clock.sec + 1
    <3>1. m.clock \in Shown
      BY <2>1 DEF Reading
    <3> QED BY ONLY <3>1, Ticks DEF t
  <2>6. ASSUME read # {} PROVE \E s \in 0 .. 59, d \in 0 .. m.ticks + 1 : Since(m.tm, t, read, s, d)
    <3>1. PICK s \in 0 .. 59, d \in 0 .. m.ticks : Since(m.tm, m.clock, read, s, d)
      BY <2>1, <2>6 DEF Reading
    <3>2. d + 1 \in 0 .. m.ticks + 1 /\ d + 1 # 0 /\ d + 1 <= 59
      BY <2>1, <2>2, TicksAssumption DEF Reading
    <3>3. Since(m.tm, t, read, s, d + 1)
      <4>1. t.sec = IF s + (d + 1) < 60 THEN s + (d + 1) ELSE s + (d + 1) - 60
        BY <2>5, <3>1, <3>2 DEF Since
      <4> QED BY <3>1, <3>2, <4>1 DEF Since
    <3> QED BY <3>2, <3>3
  <2>7. Reading(read)'
    <3>1. m' = [state |-> m'.state, clock |-> m'.clock, tm |-> m'.tm, ticks |-> m'.ticks]
      BY ONLY <2>3
    <3>2. m.ticks + 1 \in 0 .. MaxTicks
      BY <2>1, <2>2, TicksAssumption DEF Reading
    <3>3. read \subseteq DOMAIN m.tm /\ DOMAIN m.tm \subseteq Registers
      BY <2>1 DEF Reading
    <3>4. read' = read
      BY <2>4 DEF read
    <3> QED BY <2>4, <2>5, <2>6, <3>1, <3>2, <3>3, <3>4 DEF Reading
  <2> QED BY <2>1, <2>4, <2>7 DEF ClockInv, read
<1>4. CASE UNCHANGED vars
  BY <1>4 DEF ClockInv, Reading, vars
<1> QED BY <1>1, <1>2, <1>3, <1>4 DEF Next, Dopr, SetFAT, SetFirst, SetSecond, ToDir, FindVolume, Mount, Line, Heap, HeapRuns, Malloc, Calloc, Realloc, Free

(* The time the machine takes for its start is the one the clock showed    *)
(* when the seconds were read for the last time, whatever went over to the *)
(* next minute, month or year while cstart() read the registers            *)
(* (machdep.c:1147, mktime.c): from 1970 to the end of 2037.               *)
THEOREM ClockAlwaysExact == Spec => []ClockExact
<1>1. ClockInv => ClockExact
  BY DEF ClockInv, ClockExact, Returned, Behind
<1> QED BY <1>1, ClockInit, ClockNext, PTL DEF Spec

--------------------------------------------------------------------------------
(***************************************************************************)
(* What DOSFS stores and finds again: FAT entries, volumes and names.      *)
(***************************************************************************)

(* Half a byte replaced, and the other half kept.                          *)
LEMMA Halves ==
  ASSUME NEW x \in 0 .. 255, NEW n \in 0 .. 15
  PROVE  /\ KeepHigh(x, n) \in 0 .. 255 /\ KeepHigh(x, n) % 16 = n /\ KeepHigh(x, n) \div 16 = x \div 16
         /\ (x % 16) + 16 * n \in 0 .. 255 /\ ((x % 16) + 16 * n) % 16 = x % 16
BY DEF KeepHigh


(* What the bytes of a number add up to.                                   *)
LEMMA Remainder ==
  ASSUME NEW K \in Nat, K > 0, NEW v \in Nat, NEW d \in Nat, NEW r \in Int, 0 <= r, r < K, v = K * d + r PROVE r = v % K
OBVIOUS

(* Two bytes of a number make up its low 16 bits.                          *)
LEMMA Bytes2 == \A v \in Nat : (v % 256) + 256 * ((v \div 256) % 256) = v % Bits(FAT16)
BY SMT DEF Bits, FAT16, FAT32

Quad(v) == (v % 256) + 256 * ((v \div 256) % 256) + 65536 * (((v \div 65536) % 256) + 256 * ((v \div 16777216) % 16))
(* Three bytes and a half of a number make up its low 28 bits.             *)
LEMMA Bytes4 == \A v \in Nat : Quad(v) = v % Bits(FAT32)
<1> SUFFICES ASSUME NEW v \in Nat PROVE Quad(v) = v % Bits(FAT32)
  OBVIOUS
<1> DEFINE a == v \div 256
           b == v \div 65536
           c == v \div 16777216
<1>1. a \in Nat /\ v = 256 * a + (v % 256) /\ v % 256 \in 0 .. 255
  BY SMT
<1>2. b = a \div 256 /\ b \in Nat
  BY SMT
<1>3. c = b \div 256 /\ c \in Nat
  BY SMT
<1> HIDE DEF a, b, c
<1>4. a = 256 * b + (a % 256) /\ a % 256 \in 0 .. 255
  BY SMT, <1>1, <1>2
<1>5. b = 256 * c + (b % 256) /\ b % 256 \in 0 .. 255
  BY SMT, <1>2, <1>3
<1>6. c = 16 * (c \div 16) + (c % 16) /\ c % 16 \in 0 .. 15 /\ c \div 16 \in Nat
  BY SMT, <1>3
<1> DEFINE v0 == v % 256
           a0 == a % 256
           b0 == b % 256
           c0 == c % 16
           d == c \div 16
           r == v0 + 256 * a0 + 65536 * (b0 + 256 * c0)
<1> HIDE DEF v0, a0, b0, c0, d
<1>7. /\ v = 256 * a + v0 /\ a = 256 * b + a0 /\ b = 256 * c + b0 /\ c = 16 * d + c0
      /\ v0 \in 0 .. 255 /\ a0 \in 0 .. 255 /\ b0 \in 0 .. 255 /\ c0 \in 0 .. 15 /\ d \in Nat
  BY SMT, <1>1, <1>4, <1>5, <1>6 DEF v0, a0, b0, c0, d
<1>8. b = 4096 * d + 256 * c0 + b0
  BY SMT, <1>7
<1>9. a = 1048576 * d + 65536 * c0 + 256 * b0 + a0
  BY SMT, <1>7, <1>8
<1>10. v = 268435456 * d + 16777216 * c0 + 65536 * b0 + 256 * a0 + v0
  BY SMT, <1>7, <1>9
<1>11. r = 16777216 * c0 + 65536 * b0 + 256 * a0 + v0
  BY SMT, <1>7
<1>12. 0 <= r /\ r < 268435456 /\ r \in Int
  BY SMT, <1>7, <1>11
<1> HIDE DEF r
<1>14. v = 268435456 * d + r
  BY SMT, <1>7, <1>10, <1>11, <1>12
<1>15. r = v % Bits(FAT32)
  <2>1. r = v % 268435456
    BY SMT, <1>7, <1>12, <1>14, Remainder
  <2>2. Bits(FAT32) = 268435456
    BY SMT DEF Bits, FAT16, FAT32
  <2> QED BY SMT, <2>1, <2>2
<1>16. Quad(v) = r
  BY SMT DEF Quad, r, a, b, c, v0, a0, b0, c0
<1> QED BY ONLY <1>15, <1>16

Byte == 0 .. 255

(* Two bytes without the high four bits of the second or the low four of   *)
(* the first.                                                              *)
LEMMA Words ==
  ASSUME NEW x \in Byte, NEW y \in Byte
  PROVE  (x + 256 * y) % 4096 = x + 256 * (y % 16) /\ (x + 256 * y) \div 16 = (x \div 16) + 16 * y
BY SMT DEF Byte

(* What SetEntry() leaves of the other entries of a table of bytes 0 ..    *)
(* last, for each width and, at 12 bits, for odd and for even clusters.    *)
Same(fs, one, b, c, last) ==
  \A k \in Nat \ {c} : LastByte(fs, k) <= last => GetEntry(fs, one, k) = GetEntry(fs, b, k)

(* The entry of an odd cluster of FAT12.                                   *)
LEMMA Odd12 ==
  ASSUME NEW last \in Nat, NEW b \in [0 .. last -> Byte], NEW c \in Nat, NEW v \in Nat,
         LastByte(FAT12, c) <= last, c % 2 = 1
  PROVE  Same(FAT12, SetEntry(FAT12, b, c, v), b, c, last) /\ GetEntry(FAT12, SetEntry(FAT12, b, c, v), c) = Left12(c, v)
<1> DEFINE o == c + c \div 2
           n == v % 16
           one == [b EXCEPT ![o] = (@ % 16) + 16 * (v % 16), ![o + 1] = 0]
<1>1. SetEntry(FAT12, b, c, v) = one
  <2>1. SetEntry(FAT12, b, c, v) = [b EXCEPT ![o] = First12(@, c, v), ![o + 1] = Second12(@, c, v)]
    BY DEF SetEntry, Offset, FAT12, FAT16, FAT32
  <2> QED BY <2>1 DEF First12, Second12
<1>2. o \in 0 .. last /\ o + 1 \in 0 .. last /\ n \in 0 .. 15
  <2>1. n \in 0 .. 15
    OBVIOUS
  <2>2. o \in Nat /\ o + 1 <= last
    BY DEF LastByte, Offset, FAT12, FAT16, FAT32
  <2> HIDE DEF o
  <2> QED BY <2>1, <2>2
<1>3. one[o] = (b[o] % 16) + 16 * n /\ one[o + 1] = 0 /\ \A i \in 0 .. last : i # o /\ i # o + 1 => one[i] = b[i]
  BY <1>2
<1>4. b[o] \in Byte /\ one[o] \in Byte /\ one[o] % 16 = b[o] % 16
  <2>1. b[o] \in 0 .. 255
    BY <1>2 DEF Byte
  <2> HIDE DEF n
  <2>2. (b[o] % 16) + 16 * n \in 0 .. 255 /\ ((b[o] % 16) + 16 * n) % 16 = b[o] % 16
    BY <1>2, <2>1, Halves
  <2> HIDE DEF one
  <2> QED BY <1>3, <2>1, <2>2 DEF Byte
<1> HIDE DEF one, n
<1>5. ASSUME NEW k \in Nat \ {c}, LastByte(FAT12, k) <= last PROVE GetEntry(FAT12, one, k) = GetEntry(FAT12, b, k)
  <2> DEFINE p == k + k \div 2
  <2>1. p \in 0 .. last /\ p + 1 \in 0 .. last
    BY <1>5 DEF LastByte, Offset, FAT12, FAT16, FAT32
  <2>2. CASE k % 2 = 0
    <3>1. p # o /\ p # o + 1 /\ p + 1 # o + 1
      BY <2>2
    <3>2. one[p] = b[p] /\ one[p + 1] \in Byte /\ one[p + 1] % 16 = b[p + 1] % 16 /\ b[p] \in Byte /\ b[p + 1] \in Byte
      <4> HIDE DEF p, o
      <4> QED BY <1>3, <1>4, <2>1, <3>1
    <3>3. (one[p] + 256 * one[p + 1]) % 4096 = (b[p] + 256 * b[p + 1]) % 4096
      <4> HIDE DEF p, o
      <4> QED BY <3>2, Words
    <3> QED BY <2>2, <3>3 DEF GetEntry, Offset, FAT12, FAT16, FAT32
  <2>3. CASE k % 2 = 1
    <3>1. p # o /\ p # o + 1 /\ p + 1 # o /\ p + 1 # o + 1
      BY <1>5, <2>3
    <3>2. one[p] = b[p] /\ one[p + 1] = b[p + 1]
      <4> HIDE DEF p, o
      <4> QED BY <1>3, <2>1, <3>1
    <3> QED BY <2>3, <3>2 DEF GetEntry, Offset, FAT12, FAT16, FAT32
  <2> QED BY <2>2, <2>3
<1>6. GetEntry(FAT12, one, c) = Left12(c, v)
  <2>1. GetEntry(FAT12, one, c) = (one[o] + 256 * one[o + 1]) \div 16
    BY DEF GetEntry, Offset, FAT12, FAT16, FAT32
  <2>2. n \in 0 .. 15 /\ b[o] \in 0 .. 255 /\ n = v % 16
    BY <1>2, <1>4 DEF Byte, n
  <2> DEFINE x == b[o]
  <2>3. one[o] = (x % 16) + 16 * n /\ one[o + 1] = 0 /\ x \in 0 .. 255
    BY <1>3, <2>2
  <2> HIDE DEF o, n, x
  <2>4. (((x % 16) + 16 * n) + 256 * 0) \div 16 = n
    BY ONLY <2>2, <2>3
  <2> QED BY <2>1, <2>2, <2>3, <2>4 DEF Left12
<1> QED BY <1>1, <1>5, <1>6 DEF Same

(* The entry of an even cluster of FAT12.                                  *)
LEMMA Even12 ==
  ASSUME NEW last \in Nat, NEW b \in [0 .. last -> Byte], NEW c \in Nat, NEW v \in Nat,
         LastByte(FAT12, c) <= last, c % 2 = 0
  PROVE  Same(FAT12, SetEntry(FAT12, b, c, v), b, c, last) /\ GetEntry(FAT12, SetEntry(FAT12, b, c, v), c) = Left12(c, v)
<1> DEFINE o == c + c \div 2
           n == v % 16
           one == [b EXCEPT ![o] = v % 256, ![o + 1] = KeepHigh(@, v % 16)]
<1>1. SetEntry(FAT12, b, c, v) = one
  <2>1. SetEntry(FAT12, b, c, v) = [b EXCEPT ![o] = First12(@, c, v), ![o + 1] = Second12(@, c, v)]
    BY DEF SetEntry, Offset, FAT12, FAT16, FAT32
  <2>2. \A x : First12(x, c, v) = v % 256 /\ Second12(x, c, v) = KeepHigh(x, v % 16)
    BY DEF First12, Second12
  <2> QED BY ONLY <2>1, <2>2
<1>2. o \in 0 .. last /\ o + 1 \in 0 .. last /\ n \in 0 .. 15
  <2>1. n \in 0 .. 15
    OBVIOUS
  <2>2. o \in Nat /\ o + 1 <= last
    BY DEF LastByte, Offset, FAT12, FAT16, FAT32
  <2> HIDE DEF o
  <2> QED BY <2>1, <2>2
<1>3. one[o + 1] = KeepHigh(b[o + 1], n) /\ one[o] = v % 256 /\ \A i \in 0 .. last : i # o /\ i # o + 1 => one[i] = b[i]
  BY <1>2
<1>4. /\ b[o + 1] \in Byte /\ one[o + 1] \in Byte /\ one[o + 1] \div 16 = b[o + 1] \div 16
      /\ one[o + 1] % 16 = n
  <2>1. b[o + 1] \in 0 .. 255
    BY <1>2 DEF Byte
  <2> HIDE DEF n
  <2>2. KeepHigh(b[o + 1], n) \in 0 .. 255 /\ KeepHigh(b[o + 1], n) \div 16 = b[o + 1] \div 16 /\ KeepHigh(b[o + 1], n) % 16 = n
    BY <1>2, <2>1, Halves
  <2> HIDE DEF one
  <2> QED BY <1>3, <2>1, <2>2 DEF Byte
<1> HIDE DEF one, n
<1>5. ASSUME NEW k \in Nat \ {c}, LastByte(FAT12, k) <= last PROVE GetEntry(FAT12, one, k) = GetEntry(FAT12, b, k)
  <2> DEFINE p == k + k \div 2
  <2>1. p \in 0 .. last /\ p + 1 \in 0 .. last
    BY <1>5 DEF LastByte, Offset, FAT12, FAT16, FAT32
  <2>2. CASE k % 2 = 1
    <3>1. p # o /\ p + 1 # o /\ p + 1 # o + 1
      BY <2>2
    <3>2. one[p + 1] = b[p + 1] /\ one[p] \in Byte /\ one[p] \div 16 = b[p] \div 16 /\ b[p] \in Byte /\ b[p + 1] \in Byte
      <4> HIDE DEF p, o
      <4> QED BY <1>3, <1>4, <2>1, <3>1
    <3>3. (one[p] + 256 * one[p + 1]) \div 16 = (b[p] + 256 * b[p + 1]) \div 16
      <4> HIDE DEF p, o
      <4> QED BY <3>2, Words
    <3> QED BY <2>2, <3>3 DEF GetEntry, Offset, FAT12, FAT16, FAT32
  <2>3. CASE k % 2 = 0
    <3>1. p # o /\ p # o + 1 /\ p + 1 # o /\ p + 1 # o + 1
      BY <1>5, <2>3
    <3>2. one[p] = b[p] /\ one[p + 1] = b[p + 1]
      <4> HIDE DEF p, o
      <4> QED BY <1>3, <2>1, <3>1
    <3> QED BY <2>3, <3>2 DEF GetEntry, Offset, FAT12, FAT16, FAT32
  <2> QED BY <2>2, <2>3
<1>6. GetEntry(FAT12, one, c) = Left12(c, v)
  <2>1. GetEntry(FAT12, one, c) = (one[o] + 256 * one[o + 1]) % 4096
    BY DEF GetEntry, Offset, FAT12, FAT16, FAT32
  <2>2. v % 256 \in Byte /\ n = v % 16
    BY DEF Byte, n
  <2>3. ((v % 256) + 256 * one[o + 1]) % 4096 = (v % 256) + 256 * (one[o + 1] % 16)
    BY ONLY <1>4, <2>2, Words
  <2>4. one[o] = v % 256 /\ one[o + 1] % 16 = v % 16
    BY ONLY <1>3, <1>4, <2>2
  <2>5. Left12(c, v) = (v % 256) + 256 * (v % 16)
    BY DEF Left12
  <2> HIDE DEF o
  <2> QED BY ONLY <2>1, <2>3, <2>4, <2>5
<1> QED BY <1>1, <1>5, <1>6 DEF Same

(* An entry of FAT16.                                                      *)
LEMMA Entry16 ==
  ASSUME NEW last \in Nat, NEW b \in [0 .. last -> Byte], NEW c \in Nat, NEW v \in Nat, LastByte(FAT16, c) <= last
  PROVE  /\ Same(FAT16, SetEntry(FAT16, b, c, v), b, c, last)
         /\ GetEntry(FAT16, SetEntry(FAT16, b, c, v), c) = v % Bits(FAT16)
<1> DEFINE o == 2 * c
           one == [b EXCEPT ![o] = v % 256, ![o + 1] = (v \div 256) % 256]
<1>1. SetEntry(FAT16, b, c, v) = one
  BY SMT DEF SetEntry, Offset, FAT12, FAT16, FAT32
<1>2. o \in 0 .. last /\ o + 1 \in 0 .. last /\ o # o + 1
  BY SMT DEF LastByte, Offset, FAT12, FAT16, FAT32
<1>3. /\ one[o] = v % 256 /\ one[o + 1] = (v \div 256) % 256
      /\ \A i \in 0 .. last : i # o /\ i # o + 1 => one[i] = b[i]
  BY SMT, <1>2
<1> HIDE DEF one
<1>4. GetEntry(FAT16, one, c) = v % Bits(FAT16)
  <2>1. GetEntry(FAT16, one, c) = one[o] + 256 * one[o + 1]
    BY SMT DEF GetEntry, Offset, FAT12, FAT16, FAT32
  <2>2. (v % 256) + 256 * ((v \div 256) % 256) = v % Bits(FAT16)
    BY Bytes2
  <2> QED BY <1>3, <2>1, <2>2
<1>5. ASSUME NEW k \in Nat \ {c}, LastByte(FAT16, k) <= last PROVE GetEntry(FAT16, one, k) = GetEntry(FAT16, b, k)
  <2>1. 2 * k \in 0 .. last /\ 2 * k + 1 \in 0 .. last
    BY SMT, <1>5 DEF LastByte, Offset, FAT12, FAT16, FAT32
  <2>2. 2 * k # o /\ 2 * k # o + 1 /\ 2 * k + 1 # o /\ 2 * k + 1 # o + 1
    BY SMT, <1>5
  <2>3. one[2 * k] = b[2 * k] /\ one[2 * k + 1] = b[2 * k + 1]
    BY SMT, <1>3, <2>1, <2>2
  <2> QED BY SMT, <2>3 DEF GetEntry, Offset, FAT12, FAT16, FAT32
<1> QED BY SMT, <1>1, <1>4, <1>5 DEF Same

(* An entry of FAT32: four bits stay.                                      *)
LEMMA Entry32 ==
  ASSUME NEW last \in Nat, NEW b \in [0 .. last -> Byte], NEW c \in Nat, NEW v \in Nat, LastByte(FAT32, c) <= last
  PROVE  /\ Same(FAT32, SetEntry(FAT32, b, c, v), b, c, last)
         /\ GetEntry(FAT32, SetEntry(FAT32, b, c, v), c) = v % Bits(FAT32)
         /\ SetEntry(FAT32, b, c, v)[4 * c + 3] \div 16 = b[4 * c + 3] \div 16
<1> DEFINE o == 4 * c
           n == (v \div 16777216) % 16
           one == [b EXCEPT ![o] = v % 256, ![o + 1] = (v \div 256) % 256, ![o + 2] = (v \div 65536) % 256,
                            ![o + 3] = KeepHigh(@, n)]
<1>1. SetEntry(FAT32, b, c, v) = one
  BY SMT DEF SetEntry, Offset, FAT12, FAT16, FAT32
<1>2. o \in 0 .. last /\ o + 1 \in 0 .. last /\ o + 2 \in 0 .. last /\ o + 3 \in 0 .. last /\ n \in 0 .. 15
  <2>1. n \in 0 .. 15
    BY SMT
  <2> HIDE DEF n
  <2> QED BY SMT, <2>1 DEF LastByte, Offset, FAT12, FAT16, FAT32
<1> HIDE DEF n
<1>3. /\ one[o] = v % 256 /\ one[o + 1] = (v \div 256) % 256 /\ one[o + 2] = (v \div 65536) % 256
      /\ one[o + 3] = KeepHigh(b[o + 3], n)
      /\ \A i \in 0 .. last : i # o /\ i # o + 1 /\ i # o + 2 /\ i # o + 3 => one[i] = b[i]
  BY SMT, <1>2
<1> HIDE DEF one
<1>4. one[o + 3] % 16 = n /\ one[o + 3] \div 16 = b[o + 3] \div 16
  <2>1. b[o + 3] \in 0 .. 255
    BY SMT, <1>2 DEF Byte
  <2>2. KeepHigh(b[o + 3], n) % 16 = n /\ KeepHigh(b[o + 3], n) \div 16 = b[o + 3] \div 16
    BY ONLY <1>2, <2>1, Halves
  <2> HIDE DEF o
  <2> QED BY SMT, <1>3, <2>2
<1>5. GetEntry(FAT32, one, c) = v % Bits(FAT32)
  <2>1. GetEntry(FAT32, one, c) = (one[o] + 256 * one[o + 1]) + 65536 * (one[o + 2] + 256 * (one[o + 3] % 16))
    BY SMT DEF GetEntry, Offset, FAT12, FAT16, FAT32
  <2>2. (v % 256) + 256 * ((v \div 256) % 256) + 65536 * (((v \div 65536) % 256) + 256 * n) = v % Bits(FAT32)
    <3>1. Quad(v) = v % Bits(FAT32)
      BY Bytes4
    <3> QED BY SMT, <3>1 DEF Quad, n
  <2> HIDE DEF o
  <2> QED BY SMT, <1>3, <1>4, <2>1, <2>2
<1>6. ASSUME NEW k \in Nat \ {c}, LastByte(FAT32, k) <= last PROVE GetEntry(FAT32, one, k) = GetEntry(FAT32, b, k)
  <2> DEFINE p == 4 * k
  <2>1. p \in 0 .. last /\ p + 1 \in 0 .. last /\ p + 2 \in 0 .. last /\ p + 3 \in 0 .. last
    BY SMT, <1>6 DEF LastByte, Offset, FAT12, FAT16, FAT32
  <2>2. p \in Nat /\ (p > o + 3 \/ p + 3 < o)
    BY SMT, <1>6
  <2>3. GetEntry(FAT32, one, k) = (one[p] + 256 * one[p + 1]) + 65536 * (one[p + 2] + 256 * (one[p + 3] % 16))
    BY SMT DEF GetEntry, Offset, FAT12, FAT16, FAT32
  <2>4. GetEntry(FAT32, b, k) = (b[p] + 256 * b[p + 1]) + 65536 * (b[p + 2] + 256 * (b[p + 3] % 16))
    BY SMT DEF GetEntry, Offset, FAT12, FAT16, FAT32
  <2> HIDE DEF p
  <2>5. one[p] = b[p] /\ one[p + 1] = b[p + 1] /\ one[p + 2] = b[p + 2] /\ one[p + 3] = b[p + 3]
    BY SMT, <1>3, <2>1, <2>2
  <2> QED BY SMT, <2>3, <2>4, <2>5
<1> QED BY SMT, <1>1, <1>4, <1>5, <1>6 DEF Same
(* Division by the same number, rounded down.                              *)
LEMMA Floor ==
  ASSUME NEW a \in Nat, NEW s \in Nat \ {0}
  PROVE  a \div s \in Nat /\ s * (a \div s) <= a /\ a < s * (a \div s) + s
OBVIOUS

(* The parts of a volume do not overlap.                                   *)
LEMMA Floors ==
  ASSUME NEW a \in Nat, NEW t \in Nat, t <= a, NEW s \in Nat \ {0}
  PROVE  (a - t) \div s <= a \div s /\ a \div s <= ((a - t) \div s) + (t \div s) + 1
<1> DEFINE p == a \div s
           q == (a - t) \div s
           r == t \div s
<1>1. p \in Nat /\ s * p <= a /\ a < s * p + s
  BY Floor
<1>2. q \in Nat /\ s * q <= a - t /\ a - t < s * q + s
  <2>1. a - t \in Nat
    OBVIOUS
  <2> QED BY <2>1, Floor
<1>3. r \in Nat /\ s * r <= t /\ t < s * r + s
  BY Floor
<1> HIDE DEF p, q, r
<1>4. s * (q + r + 2) = s * q + s + s * r + s /\ s * (p + 1) = s * p + s
  BY <1>1, <1>2, <1>3
<1>5. s * p < s * (q + r + 2)
  BY <1>1, <1>2, <1>3, <1>4
<1>6. p < q + r + 2
  BY <1>1, <1>2, <1>3, <1>5
<1>7. s * q < s * (p + 1)
  BY <1>1, <1>2, <1>4
<1>8. q < p + 1
  BY <1>1, <1>2, <1>7
<1> QED BY <1>1, <1>2, <1>3, <1>6, <1>8 DEF p, q, r

(* More clusters never make a smaller type.                                *)
LEMMA Types ==
  ASSUME NEW few \in Nat, NEW many \in Nat, few <= many
  PROVE  TypeFor(few) = TypeFor(many) \/ \E limit \in {4085, 65525} : few < limit /\ limit <= many
BY DEF TypeFor

(* A volume as it has been formatted, and what is to be found of it.       *)
Lbr(lbr) ==
  /\ lbr.secperclus \in Nat \ {0} /\ lbr.reserved \in Nat /\ lbr.rootentries \in Nat
  /\ lbr.sectors_s \in Nat /\ lbr.sectors_l \in Nat /\ lbr.secperfat \in Nat /\ lbr.fatsize \in Nat
  /\ Sectors(lbr) \div lbr.secperclus < Huge

LaidOut(v, lbr) ==
    LET root == (lbr.rootentries * 32 + 511) \div 512
        true == (v.numsecs - lbr.reserved - 2 * v.secperfat - root) \div v.secperclus
    IN  /\ v.fat1 = v.start + lbr.reserved
        /\ lbr.rootentries # 0 => v.rootdir = v.fat1 + 2 * v.secperfat /\ (v.dataarea - v.rootdir) * 512 >= lbr.rootentries * 32
        /\ v.numclusters # Huge =>
             /\ v.dataarea + v.numclusters * v.secperclus <= v.start + v.numsecs
             /\ v.filesystem = TypeFor(true) \/ \E limit \in {4085, 65525} : true - limit \in 0 .. v.start \div v.secperclus
        /\ v.numclusters = Huge => v.numsecs < v.dataarea

(* Wherever the partition starts, and whatever its volume counts.          *)
LEMMA Volumes ==
  ASSUME NEW lbr, Lbr(lbr), NEW start \in Nat
  PROVE  LaidOut(GetVolInfo(lbr, start), lbr)
<1> DEFINE v == GetVolInfo(lbr, start)
           numsecs == IF lbr.sectors_s # 0 THEN lbr.sectors_s ELSE lbr.sectors_l
           perfat == IF lbr.secperfat # 0 THEN lbr.secperfat ELSE lbr.fatsize
           spc == lbr.secperclus
           res == lbr.reserved
           entries == lbr.rootentries
           root == (entries * 32 + 511) \div 512
           afterfats == start + res + 2 * perfat
           dataarea == afterfats + root
           clusters == IF numsecs < dataarea THEN Huge ELSE (numsecs - dataarea) \div spc
<1>1. /\ numsecs \in Nat /\ perfat \in Nat /\ spc \in Nat \ {0} /\ res \in Nat /\ entries \in Nat
      /\ numsecs \div spc < Huge
  BY DEF Lbr, Sectors
<1>2. RootSectors(entries) = root /\ root \in Nat /\ root * 512 >= entries * 32
  BY <1>1 DEF RootSectors, SECTOR_SIZE
<1>3. /\ v.start = start /\ v.fat1 = start + res /\ v.secperclus = spc /\ v.numsecs = numsecs /\ v.secperfat = perfat
      /\ v.dataarea = dataarea /\ v.numclusters = clusters /\ v.filesystem = TypeFor(clusters)
      /\ (entries # 0 => v.rootdir = afterfats)
  <2> HIDE DEF root
  <2> QED BY <1>2 DEF GetVolInfo
<1> HIDE DEF v, numsecs, perfat, spc, res, entries, root
<1> SUFFICES LaidOut(v, lbr)
  BY DEF v
<1>4. afterfats \in Nat /\ dataarea \in Nat
  BY <1>1, <1>2
<1>5. (dataarea - afterfats) * 512 >= entries * 32
  <2>1. dataarea - afterfats = root
    BY <1>1, <1>2
  <2> QED BY <1>2, <2>1
<1> DEFINE all == numsecs - res - 2 * perfat - root
           true == all \div spc
<1>6. CASE numsecs < dataarea
  <2>1. clusters = Huge
    BY <1>6
  <2>2. v.numclusters = Huge /\ v.numsecs < v.dataarea
    <3> HIDE DEF dataarea, clusters
    <3> QED BY <1>3, <1>6, <2>1
  <2>3. v.fat1 = v.start + lbr.reserved
    BY <1>3 DEF res
  <2> HIDE DEF clusters, dataarea
  <2>4. lbr.rootentries # 0 => v.rootdir = v.fat1 + 2 * v.secperfat /\ (v.dataarea - v.rootdir) * 512 >= lbr.rootentries * 32
    BY <1>3, <1>5 DEF entries
  <2> QED BY ONLY <2>2, <2>3, <2>4 DEF LaidOut
<1>7. CASE ~ (numsecs < dataarea)
  <2> DEFINE few == (numsecs - dataarea) \div spc
  <2>1. all \in Nat /\ start <= all /\ all - start = numsecs - dataarea
    BY <1>1, <1>2, <1>7
  <2> HIDE DEF all
  <2>2. few \in Nat /\ true \in Nat /\ few <= true /\ true <= few + start \div spc + 1 /\ start \div spc \in Nat
    <3>1. few = (all - start) \div spc /\ all - start \in Nat
      BY <2>1
    <3>2. few \in Nat /\ true \in Nat /\ start \div spc \in Nat
      BY <1>1, <2>1, <3>1, Floor
    <3>3. few <= true /\ true <= few + start \div spc + 1
      BY <1>1, <2>1, <3>1, Floors
    <3> QED BY <3>2, <3>3
  <2>3. spc * few <= numsecs - dataarea
    <3>1. numsecs - dataarea \in Nat
      BY <1>1, <1>4, <1>7
    <3> HIDE DEF dataarea
    <3> QED BY <1>1, <3>1, Floor
  <2>4. clusters = few
    BY <1>7
  <2> HIDE DEF few
  <2>5. few # Huge
    <3> DEFINE most == numsecs \div spc
    <3>1. few <= most /\ most \in Nat /\ most < Huge
      <4> HIDE DEF dataarea
      <4>1. numsecs - dataarea = numsecs - dataarea /\ dataarea <= numsecs
        BY <1>1, <1>4, <1>7
      <4>2. (numsecs - dataarea) \div spc <= numsecs \div spc
        BY <1>1, <1>4, <4>1, Floors
      <4> QED BY <1>1, <4>2, Floor DEF few
    <3> HIDE DEF most
    <3> QED BY <2>2, <3>1 DEF Huge
  <2>6. dataarea + few * spc <= start + numsecs
    <3>1. few * spc = spc * few /\ spc * few \in Int
      BY <1>1, <2>2
    <3> HIDE DEF dataarea
    <3> QED BY <1>1, <1>4, <2>3, <3>1
  <2> HIDE DEF true
  <2>7. TypeFor(few) = TypeFor(true) \/ \E limit \in {4085, 65525} : true - limit \in 0 .. start \div spc
    <3>1. CASE TypeFor(few) # TypeFor(true)
      <4>1. PICK limit \in {4085, 65525} : few < limit /\ limit <= true
        BY <2>2, <3>1, Types
      <4>2. true - limit \in 0 .. start \div spc
        BY <2>2, <4>1
      <4> QED BY <4>2
    <3> QED BY <3>1
  <2> HIDE DEF dataarea, afterfats
  <2>8. v.numclusters = few /\ v.dataarea = dataarea /\ v.filesystem = TypeFor(few)
    BY <1>3, <2>4
  <2>9. true = (v.numsecs - lbr.reserved - 2 * v.secperfat - ((lbr.rootentries * 32 + 511) \div 512)) \div v.secperclus
    BY <1>3 DEF true, all, root, res, entries
  <2>10. lbr.rootentries # 0 => v.rootdir = v.fat1 + 2 * v.secperfat /\ (v.dataarea - v.rootdir) * 512 >= lbr.rootentries * 32
    BY <1>3, <1>5 DEF entries, afterfats
  <2>11. v.fat1 = v.start + lbr.reserved
    BY <1>3 DEF res
  <2>12. v.dataarea + v.numclusters * v.secperclus <= v.start + v.numsecs
    BY <1>3, <2>6, <2>8
  <2>13. v.filesystem = TypeFor(true) \/ \E limit \in {4085, 65525} : true - limit \in 0 .. v.start \div v.secperclus
    BY <1>3, <2>7, <2>8
  <2> HIDE DEF clusters
  <2> QED BY ONLY <2>5, <2>8, <2>9, <2>10, <2>11, <2>12, <2>13 DEF LaidOut
<1> QED BY <1>6, <1>7

(* Capital letters: no other character becomes a dot or a blank.           *)
LEMMA CapitalOf ==
  ASSUME NEW ch
  PROVE  (Capital(ch) = "." <=> ch = ".") /\ (Capital(ch) = BLANK <=> ch = BLANK)
<1> DEFINE small == \E p \in {<<"a", "A">>, <<"b", "B">>, <<"c", "C">>} : p[1] = ch
           P(u) == <<ch, u>> \in {<<"a", "A">>, <<"b", "B">>, <<"c", "C">>}
<1>1. CASE small
  <2>1. \E u \in {"A", "B", "C"} : P(u)
    BY <1>1
  <2>2. Capital(ch) = CHOOSE u \in {"A", "B", "C"} : P(u)
    BY <1>1 DEF Capital
  <2>3. Capital(ch) \in {"A", "B", "C"}
    <3> HIDE DEF P
    <3> QED BY <2>1, <2>2
  <2>4. ch = "a" \/ ch = "b" \/ ch = "c"
    BY <1>1
  <2>5. Capital(ch) # "." /\ Capital(ch) # BLANK /\ ch # "." /\ ch # BLANK
    BY Zenon, <2>3, <2>4 DEF BLANK
  <2> QED BY <2>5
<1>2. CASE ~ small
  <2>1. Capital(ch) = ch
    BY <1>2 DEF Capital
  <2> QED BY <2>1
<1>3. small \/ ~ small
  OBVIOUS
<1> HIDE DEF small
<1> QED BY ONLY <1>1, <1>2, <1>3

(* The element of name that a lookup takes has n characters, and a dot at  *)
(* d, or d is behind them; it is short.                                    *)
Parts(name, n, d) ==
  /\ n \in 0 .. Len(name) /\ d \in 1 .. n + 1
  /\ \A i \in 1 .. n : name[i] # SEPARATOR /\ (name[i] = "." <=> i = d)
  /\ n < Len(name) => name[n + 1] = SEPARATOR
  /\ d - 1 <= 8 /\ (d <= n => n - d \in 1 .. 3)
Letters(name) == {Capital(name[i]) : i \in 1 .. Len(name)} \cup {BLANK}
Place(name, d, i, j) ==
  IF j <= 8 THEN IF j <= i /\ j < d THEN Capital(name[j]) ELSE BLANK
            ELSE IF d + (j - 8) <= i THEN Capital(name[d + (j - 8)]) ELSE BLANK
Slots == 1 .. 11
Dest(name, d, i) == [j \in Slots |-> Place(name, d, i, j)]
NextPlace(d, i) == IF i < d THEN i ELSE 8 + (i - d)
Formed(name, d, i) ==
  [dest |-> Dest(name, d, i), at |-> NextPlace(d, i), ended |-> FALSE]
Blank == [dest |-> [j \in 1 .. 11 |-> BLANK], at |-> 0, ended |-> FALSE]
Converts(after, name) ==
  \A i \in 0 .. Len(name) : after[i] = IF i = 0 THEN Blank ELSE Canonical(after[i - 1], name[i])

(* The loop of CanonicalToDir(), character by character.                   *)
LEMMA ConversionExists ==
  ASSUME NEW name \in Seq(STRING)
  PROVE  \E after : Converts(after, name) /\ CanonicalToDir(name) = after[Len(name)].dest
<1> DEFINE n == Len(name)
           S == [dest : [1 .. 11 -> Letters(name)], at : Nat, ended : BOOLEAN]
           step == [p \in (0 .. n) \X S |-> IF p[1] = 0 THEN Blank ELSE Canonical(p[2], name[p[1]])]
           Rule(g) == g = [i \in 0 .. n |-> IF i = 0 THEN Blank ELSE Canonical(g[i - 1], name[i])]
<1>1. n \in Nat /\ Blank \in S
  BY DEF Blank, Letters
<1>2. Steps(step, 0, n, S)
  <2>1. ASSUME NEW p \in S, NEW i \in 1 .. n PROVE Canonical(p, name[i]) \in S
    <3> DEFINE ch == name[i]
    <3>1. p = [dest |-> p.dest, at |-> p.at, ended |-> p.ended] /\ p.dest \in [1 .. 11 -> Letters(name)] /\ p.at \in Nat
      OBVIOUS
    <3>2. [p EXCEPT !.ended = TRUE] \in S
      OBVIOUS
    <3>3. [p EXCEPT !.at = 8] \in S
      OBVIOUS
    <3>4. Put(p, ch) \in S
      <4>1. Capital(ch) \in Letters(name)
        BY DEF Letters
      <4>2. [p.dest EXCEPT ![p.at + 1] = Capital(ch)] \in [1 .. 11 -> Letters(name)]
        BY <3>1, <4>1
      <4> QED BY <3>1, <4>2 DEF Put
    <3> HIDE DEF S, ch
    <3>5. \/ Canonical(p, ch) = [p EXCEPT !.ended = TRUE] \/ Canonical(p, ch) = [p EXCEPT !.at = 8] \/ Canonical(p, ch) = Put(p, ch)
      <4>1. CASE p.ended \/ p.at >= 11 \/ ch = SEPARATOR
        BY <4>1 DEF Canonical
      <4>2. CASE ~ (p.ended \/ p.at >= 11 \/ ch = SEPARATOR) /\ ch = "."
        BY <4>2 DEF Canonical
      <4>3. CASE ~ (p.ended \/ p.at >= 11 \/ ch = SEPARATOR) /\ ch # "."
        BY <4>3 DEF Canonical
      <4> QED BY <4>1, <4>2, <4>3
    <3> QED BY <3>2, <3>3, <3>4, <3>5 DEF ch
  <2>2. ASSUME NEW p \in (0 .. n) \X S PROVE (IF p[1] = 0 THEN Blank ELSE Canonical(p[2], name[p[1]])) \in S
    <3> HIDE DEF S
    <3> QED BY <1>1, <2>1
  <2> HIDE DEF S
  <2> QED BY <2>2 DEF Steps
<1>3. \E f : Loops(f, 0, n, S, Blank, step)
  <2> HIDE DEF S, step
  <2> QED BY <1>1, <1>2, LoopExists
<1>4. PICK f : Loops(f, 0, n, S, Blank, step)
  BY <1>3
<1>5. f \in [0 .. n -> S] /\ \A i \in 0 .. n : f[i] = IF i = 0 THEN Blank ELSE step[<<i, f[i - 1]>>]
  <2> HIDE DEF step, S
  <2> QED BY <1>4 DEF Loops
<1>6. ASSUME NEW i \in 0 .. n, i # 0 PROVE f[i] = Canonical(f[i - 1], name[i])
  <2>1. i - 1 \in 0 .. n /\ f[i - 1] \in S
    <3> HIDE DEF S
    <3> QED BY <1>1, <1>5, <1>6
  <2> HIDE DEF S
  <2>2. step[<<i, f[i - 1]>>] = Canonical(f[i - 1], name[i])
    BY <1>6, <2>1
  <2> HIDE DEF step
  <2> QED BY <1>5, <1>6, <2>2
<1>7. \E g : Rule(g)
  <2>1. f = [i \in 0 .. n |-> f[i]]
    BY <1>5
  <2>2. Rule(f)
    BY <1>5, <1>6, <2>1
  <2> QED BY <2>2
<1> DEFINE after == CHOOSE g : Rule(g)
<1>8. Rule(after)
  <2> HIDE DEF Rule
  <2> QED BY <1>7
<1>9. CanonicalToDir(name) = after[Len(name)].dest
  BY DEF CanonicalToDir, Blank
<1> HIDE DEF after
<1>10. Converts(after, name)
  BY <1>8 DEF Converts
<1> QED BY <1>9, <1>10

(* What the loop of CanonicalToDir() has stored when it is at character i. *)
LEMMA ConversionStores ==
  ASSUME NEW name \in Seq(STRING), NEW after, Converts(after, name), NEW n, NEW d, Parts(name, n, d)
  PROVE  after[Len(name)].dest = Dest(name, d, n)
<1> DEFINE T == {i \in 0 .. n : after[i] = Formed(name, d, i)}
           last == [Formed(name, d, n) EXCEPT !.ended = TRUE]
           Ended == {i \in n .. Len(name) : after[i] = IF i = n THEN Formed(name, d, n) ELSE last}
<1>1. n \in Nat /\ Len(name) \in Nat /\ n <= Len(name) /\ d \in Nat /\ d >= 1 /\ d <= n + 1 /\ d <= 9 /\ (d <= n => n - d <= 3)
  BY DEF Parts
<1>2. 0 \in T
  <2>1. ASSUME NEW j \in Slots PROVE Place(name, d, 0, j) = BLANK
    <3>1. j \in Int /\ 1 <= j
      BY DEF Slots
    <3> QED BY <1>1, <3>1 DEF Place
  <2>2. Dest(name, d, 0) = [j \in 1 .. 11 |-> BLANK]
    BY <2>1 DEF Dest, Slots
  <2>3. Formed(name, d, 0) = Blank
    <3>1. NextPlace(d, 0) = 0
      BY <1>1 DEF NextPlace
    <3> QED BY <2>2, <3>1 DEF Blank, Formed
  <2>4. 0 \in 0 .. n /\ 0 \in 0 .. Len(name)
    BY <1>1
  <2>5. after[0] = Blank
    BY <2>4 DEF Converts
  <2> QED BY <2>3, <2>4, <2>5
<1>3. ASSUME NEW i \in 0 .. n, i < n, i \in T PROVE i + 1 \in T
  <2> DEFINE p == Formed(name, d, i)
             ch == name[i + 1]
  <2>1. after[i + 1] = Canonical(p, ch) /\ i + 1 \in 1 .. n
    <3>1. i + 1 \in 0 .. Len(name) /\ i + 1 # 0 /\ (i + 1) - 1 = i
      BY <1>1, <1>3
    <3>2. after[i + 1] = Canonical(after[i], ch)
      BY <3>1 DEF Converts
    <3> QED BY <1>1, <1>3, <3>2
  <2>2. ch # SEPARATOR /\ (ch = "." <=> i + 1 = d)
    BY <2>1 DEF Parts
  <2>3. p.at = (IF i < d THEN i ELSE 8 + (i - d)) /\ p.at \in Nat /\ p.at < 11 /\ ~ p.ended /\ p.dest = Dest(name, d, i)
    BY <1>1, <1>3 DEF Formed, NextPlace
  <2>4. Canonical(p, ch) = Formed(name, d, i + 1)
    <3>1. CASE i + 1 = d
      <4>1. Canonical(p, ch) = [p EXCEPT !.at = 8]
        <5> HIDE DEF p, ch
        <5> QED BY <2>2, <2>3, <3>1 DEF Canonical, SEPARATOR
      <4>2. ASSUME NEW j \in Slots PROVE Place(name, d, i + 1, j) = Place(name, d, i, j)
        <5>1. j \in Int
            BY DEF Slots
        <5> QED BY <1>1, <1>3, <3>1, <5>1 DEF Place
      <4>3. Dest(name, d, i + 1) = Dest(name, d, i)
        BY <4>2 DEF Dest
      <4>4. p = [dest |-> Dest(name, d, i), at |-> i, ended |-> FALSE]
        <5>1. NextPlace(d, i) = i
          BY <1>3, <3>1 DEF NextPlace
        <5> QED BY <5>1 DEF Formed
      <4>5. Formed(name, d, i + 1) = [dest |-> Dest(name, d, i), at |-> 8, ended |-> FALSE]
        <5>1. NextPlace(d, i + 1) = 8
          BY <1>1, <3>1 DEF NextPlace
        <5> QED BY <4>3, <5>1 DEF Formed
      <4> HIDE DEF p
      <4> QED BY <4>1, <4>4, <4>5
    <3>2. CASE i + 1 # d
      <4>1. Canonical(p, ch) = Put(p, ch)
        <5> HIDE DEF p, ch
        <5> QED BY <2>2, <2>3, <3>2 DEF Canonical
      <4>2. Put(p, ch) = [dest |-> [Dest(name, d, i) EXCEPT ![p.at + 1] = Capital(ch)], at |-> p.at + 1, ended |-> FALSE]
        <5> HIDE DEF p
        <5> QED BY <2>3 DEF Put
      <4>3. [Dest(name, d, i) EXCEPT ![p.at + 1] = Capital(ch)] = Dest(name, d, i + 1)
        <5> HIDE DEF p
        <5> DEFINE a == p.at + 1
        <5>1. CASE i < d
          <6>1. a = i + 1 /\ i + 1 < d /\ i + 1 <= 8
            BY <1>1, <1>3, <2>3, <3>2, <5>1
          <6> HIDE DEF a
          <6>2. Place(name, d, i + 1, a) = Capital(ch)
            BY <1>1, <1>3, <6>1 DEF Place
          <6>3. ASSUME NEW j \in Slots, j # a PROVE Place(name, d, i + 1, j) = Place(name, d, i, j)
            <7>1. j \in Int /\ j >= 1
              BY DEF Slots
            <7> QED BY <1>1, <1>3, <6>1, <6>3, <7>1 DEF Place
          <6>4. a \in Slots
            BY <1>1, <1>3, <6>1 DEF Slots
          <6> HIDE DEF ch
          <6> QED BY <6>2, <6>3, <6>4 DEF Dest, a
        <5>2. CASE ~ (i < d)
          <6>1. a = 9 + (i - d) /\ a >= 9 /\ d + (a - 8) = i + 1
            BY <1>1, <1>3, <2>3, <5>2
          <6> HIDE DEF a
          <6>2. Place(name, d, i + 1, a) = Capital(ch)
            BY <1>1, <1>3, <6>1 DEF Place
          <6>3. ASSUME NEW j \in Slots, j # a PROVE Place(name, d, i + 1, j) = Place(name, d, i, j)
            <7>1. j \in Int /\ j >= 1
              BY DEF Slots
            <7> QED BY <1>1, <1>3, <5>2, <6>1, <6>3, <7>1 DEF Place
          <6>4. a \in Slots
            BY <1>1, <1>3, <6>1 DEF Slots
          <6> HIDE DEF ch
          <6> QED BY <6>2, <6>3, <6>4 DEF Dest, a
        <5> QED BY <5>1, <5>2
      <4>4. p.at + 1 = IF i + 1 < d THEN i + 1 ELSE 8 + ((i + 1) - d)
        <5> HIDE DEF p
        <5> QED BY <1>1, <1>3, <2>3, <3>2
      <4> HIDE DEF p, ch
      <4> QED BY <4>1, <4>2, <4>3, <4>4 DEF Formed, NextPlace
    <3> QED BY <3>1, <3>2
  <2> QED BY <2>1, <2>4
<1>4. n \in T
  <2> HIDE DEF T
  <2>1. \A i \in 0 .. n : i \in T
    BY ONLY <1>1, <1>2, <1>3, Induction
  <2> QED BY <1>1, <2>1
<1>5. n \in Ended
  BY <1>1, <1>4
<1>6. ASSUME NEW i \in n .. Len(name), i < Len(name), i \in Ended PROVE i + 1 \in Ended
  <2> DEFINE p == after[i]
             ch == name[i + 1]
  <2>1. after[i + 1] = Canonical(p, ch) /\ i + 1 \in n .. Len(name) /\ i + 1 # n
    <3>1. i + 1 \in 0 .. Len(name) /\ i + 1 # 0 /\ (i + 1) - 1 = i /\ i + 1 \in n .. Len(name) /\ i + 1 # n
      BY <1>1, <1>6
    <3> QED BY <3>1 DEF Converts
  <2>2. p = Formed(name, d, n) \/ (p = last /\ p.ended)
    BY <1>6 DEF Formed
  <2>3. i = n => ch = SEPARATOR
    BY <1>6 DEF Parts
  <2>4. Canonical(p, ch) = [p EXCEPT !.ended = TRUE]
    <3>1. p.ended \/ ch = SEPARATOR
      BY <1>6, <2>3 DEF Formed
    <3> HIDE DEF p, ch
    <3>2. p.ended \/ p.at >= 11 \/ ch = SEPARATOR
      BY <3>1
    <3>3. ~ (ch = "." /\ ~ p.ended /\ p.at < 11) \/ ch # SEPARATOR
      BY DEF SEPARATOR
    <3> QED BY <3>1, <3>2, <3>3 DEF Canonical, SEPARATOR
  <2>5. [p EXCEPT !.ended = TRUE] = last
    BY <2>2 DEF Formed
  <2> HIDE DEF p, ch, last
  <2> QED BY <2>1, <2>4, <2>5
<1>7. Len(name) \in Ended
  <2> HIDE DEF Ended, last
  <2>1. n \in Int /\ Len(name) \in Int /\ (n <= Len(name) => n \in Ended)
    BY <1>1, <1>5
  <2>2. \A i \in n .. Len(name) : i < Len(name) /\ i \in Ended => i + 1 \in Ended
    BY <1>6
  <2>3. \A i \in n .. Len(name) : i \in Ended
    BY ONLY <2>1, <2>2, Induction
  <2> QED BY <1>1, <2>3
<1> QED BY <1>7 DEF Formed

(* Two short elements are stored alike just when they differ in case only. *)
LEMMA DestApart ==
  ASSUME NEW name, NEW other, NEW n, NEW d, NEW k, NEW e, Parts(name, n, d), Parts(other, k, e),
         Len(name) \in Nat, Len(other) \in Nat,
         \A i \in 1 .. n : name[i] # BLANK, \A i \in 1 .. k : other[i] # BLANK
  PROVE  Dest(name, d, n) = Dest(other, e, k)
           <=> [i \in 1 .. n |-> Capital(name[i])] = [i \in 1 .. k |-> Capital(other[i])]
<1>1. /\ n \in Nat /\ d \in Nat /\ d >= 1 /\ d <= n + 1 /\ d <= 9 /\ (d <= n => n - d <= 3 /\ 1 <= n - d)
      /\ k \in Nat /\ e \in Nat /\ e >= 1 /\ e <= k + 1 /\ e <= 9 /\ (e <= k => k - e <= 3 /\ 1 <= k - e)
  BY DEF Parts
<1> DEFINE X == [i \in 1 .. n |-> Capital(name[i])]
           V == [i \in 1 .. k |-> Capital(other[i])]
           P == Dest(name, d, n)
           Q == Dest(other, e, k)
<1>2. /\ \A i \in 1 .. n : Capital(name[i]) # BLANK /\ (Capital(name[i]) = "." <=> i = d)
      /\ \A i \in 1 .. k : Capital(other[i]) # BLANK /\ (Capital(other[i]) = "." <=> i = e)
  BY CapitalOf DEF Parts
<1>3. \A j \in Slots : P[j] = Place(name, d, n, j) /\ Q[j] = Place(other, e, k, j)
  BY DEF Dest
<1>4. ASSUME X = V PROVE P = Q
  <2>1. n = k
    <3>1. DOMAIN X = 1 .. n /\ DOMAIN V = 1 .. k
      OBVIOUS
    <3>2. 1 .. n = 1 .. k
      BY <1>4, <3>1
    <3> HIDE DEF X, V
    <3>3. (n \in 1 .. n \/ n = 0) /\ (k \in 1 .. k \/ k = 0)
      BY <1>1
    <3> QED BY <1>1, <3>2, <3>3
  <2>2. \A i \in 1 .. n : X[i] = Capital(name[i]) /\ V[i] = Capital(other[i])
    BY <2>1
  <2> HIDE DEF X, V
  <2>3. \A i \in 1 .. n : Capital(name[i]) = Capital(other[i])
    BY <1>4, <2>2
  <2>4. d = e
    <3>1. (d \in 1 .. n \/ d = n + 1) /\ (e \in 1 .. n \/ e = n + 1)
      BY <1>1, <2>1
    <3> QED BY <1>2, <2>1, <2>3, <3>1
  <2>5. ASSUME NEW j \in Slots PROVE Place(name, d, n, j) = Place(other, e, k, j)
    <3>1. j \in Int /\ j >= 1
      BY DEF Slots
    <3>2. CASE j <= 8 /\ j < d
      <4>1. j \in 1 .. n
        BY <1>1, <3>1, <3>2
      <4> QED BY <2>1, <2>3, <2>4, <3>1, <3>2, <4>1 DEF Place
    <3>3. CASE j <= 8 /\ ~ (j < d)
      BY <2>4, <3>1, <3>3 DEF Place
    <3>4. CASE ~ (j <= 8) /\ d + (j - 8) <= n
      <4>1. d + (j - 8) \in 1 .. n
        BY <1>1, <3>1, <3>4
      <4> QED BY <2>1, <2>3, <2>4, <3>1, <3>4, <4>1 DEF Place
    <3>5. CASE ~ (j <= 8) /\ ~ (d + (j - 8) <= n)
      BY <2>1, <2>4, <3>1, <3>5 DEF Place
    <3> QED BY <3>2, <3>3, <3>4, <3>5
  <2> QED BY <2>5 DEF Dest
<1>5. ASSUME P = Q PROVE X = V
  <2>1. \A j \in Slots : Place(name, d, n, j) = Place(other, e, k, j)
    <3> HIDE DEF P, Q
    <3> QED BY <1>3, <1>5
  <2>2. \A i \in Nat : 1 <= i /\ i <= 8 =>
          /\ i \in Slots
          /\ Place(name, d, n, i) = IF i < d THEN Capital(name[i]) ELSE BLANK
          /\ Place(other, e, k, i) = IF i < e THEN Capital(other[i]) ELSE BLANK
    BY <1>1 DEF Place, Slots
  <2>3. d = e
    <3>1. CASE d < e
      <4>1. 1 <= d /\ d <= 8 /\ ~ (d < d) /\ d \in 1 .. k
        BY <1>1, <3>1
      <4>2. Place(name, d, n, d) = BLANK /\ Place(other, e, k, d) = Capital(other[d]) /\ d \in Slots
        BY <1>1, <2>2, <3>1, <4>1
      <4> QED BY <1>2, <2>1, <4>1, <4>2
    <3>2. CASE e < d
      <4>1. 1 <= e /\ e <= 8 /\ ~ (e < e) /\ e \in 1 .. n
        BY <1>1, <3>2
      <4>2. Place(other, e, k, e) = BLANK /\ Place(name, d, n, e) = Capital(name[e]) /\ e \in Slots
        BY <1>1, <2>2, <3>2, <4>1
      <4> QED BY <1>2, <2>1, <4>1, <4>2
    <3> QED BY <1>1, <3>1, <3>2
  <2>4. \A i \in Nat : i > d /\ i <= d + 3 =>
          /\ 8 + (i - d) \in Slots
          /\ Place(name, d, n, 8 + (i - d)) = IF i <= n THEN Capital(name[i]) ELSE BLANK
          /\ Place(other, e, k, 8 + (i - d)) = IF i <= k THEN Capital(other[i]) ELSE BLANK
    <3>1. ASSUME NEW i \in Nat, i > d, i <= d + 3
          PROVE  /\ 8 + (i - d) \in Slots
                 /\ Place(name, d, n, 8 + (i - d)) = IF i <= n THEN Capital(name[i]) ELSE BLANK
                 /\ Place(other, e, k, 8 + (i - d)) = IF i <= k THEN Capital(other[i]) ELSE BLANK
      <4> DEFINE j == 8 + (i - d)
      <4>1. j \in Int /\ ~ (j <= 8) /\ d + (j - 8) = i /\ e + (j - 8) = i /\ j >= 1 /\ j <= 11
        BY <1>1, <2>3, <3>1
      <4> HIDE DEF j
      <4>2. j \in Slots /\ Place(name, d, n, j) = (IF i <= n THEN Capital(name[i]) ELSE BLANK)
                      /\ Place(other, e, k, j) = (IF i <= k THEN Capital(other[i]) ELSE BLANK)
        BY <4>1 DEF Place, Slots
      <4> QED BY <4>2 DEF j
    <3> QED BY <3>1
  <2>5. n = k
    <3>1. CASE n < k
      <4>1. k \in Nat /\ k > d /\ k <= d + 3 /\ ~ (k <= n) /\ k <= k /\ k \in 1 .. k
        BY <1>1, <2>3, <3>1
      <4>2. Place(name, d, n, 8 + (k - d)) = BLANK /\ Place(other, e, k, 8 + (k - d)) = Capital(other[k]) /\ 8 + (k - d) \in Slots
        BY <2>4, <4>1
      <4> QED BY <1>2, <2>1, <4>1, <4>2
    <3>2. CASE k < n
      <4>1. n \in Nat /\ n > d /\ n <= d + 3 /\ ~ (n <= k) /\ n <= n /\ n \in 1 .. n
        BY <1>1, <2>3, <3>2
      <4>2. Place(other, e, k, 8 + (n - d)) = BLANK /\ Place(name, d, n, 8 + (n - d)) = Capital(name[n]) /\ 8 + (n - d) \in Slots
        BY <2>4, <4>1
      <4> QED BY <1>2, <2>1, <4>1, <4>2
    <3> QED BY <1>1, <3>1, <3>2
  <2>6. ASSUME NEW i \in 1 .. n PROVE Capital(name[i]) = Capital(other[i])
    <3>1. CASE i = d
      BY <1>2, <2>3, <2>5, <3>1
    <3>2. CASE i < d
      <4>1. i \in Nat /\ 1 <= i /\ i <= 8 /\ i < e
        BY <1>1, <2>3, <3>2
      <4>2. Place(name, d, n, i) = Capital(name[i]) /\ Place(other, e, k, i) = Capital(other[i]) /\ i \in Slots
        BY <2>2, <3>2, <4>1
      <4> QED BY <2>1, <4>2
    <3>3. CASE d < i
      <4>1. i \in Nat /\ i > d /\ i <= d + 3 /\ i <= n /\ i <= k
        BY <1>1, <2>5, <3>3
      <4>2. /\ Place(name, d, n, 8 + (i - d)) = Capital(name[i]) /\ Place(other, e, k, 8 + (i - d)) = Capital(other[i])
            /\ 8 + (i - d) \in Slots
        BY <2>4, <4>1
      <4> QED BY <2>1, <4>2
    <3> QED BY <1>1, <3>1, <3>2, <3>3
  <2> QED BY <2>5, <2>6
<1> QED BY <1>4, <1>5

(* The least of some natural numbers.                                      *)
LEMMA Minimum ==
  ASSUME NEW S, S \subseteq Nat, S # {}
  PROVE  Min(S) \in S /\ \A x \in S : Min(S) <= x
<1>1. \E x \in S : \A y \in S : ~ (<<y, x>> \in OpToRel(<, Nat))
  BY NatLessThanWellFounded, WFMin
<1>2. PICK x \in S : \A y \in S : ~ (<<y, x>> \in OpToRel(<, Nat))
  BY <1>1
<1>3. \A y \in S : x <= y
  <2>1. \A y \in S : ~ (y < x)
    BY <1>2 DEF OpToRel
  <2> QED BY <2>1
<1> DEFINE P(z) == \A y \in S : z <= y
<1>4. \E z \in S : P(z)
  BY <1>3
<1>5. Min(S) = CHOOSE z \in S : P(z)
  BY DEF Min
<1> HIDE DEF P
<1>6. Min(S) \in S /\ P(Min(S))
  BY <1>4, <1>5
<1> QED BY <1>6 DEF P

(* A short name in its parts.                                              *)
LEMMA ShortParts ==
  ASSUME NEW name \in Seq(STRING), Short(name)
  PROVE  \E n \in Nat, d \in Nat : Parts(name, n, d) /\ Upper(name) = [i \in 1 .. n |-> Capital(name[i])]
<1> DEFINE ends == {i \in DOMAIN name : name[i] = SEPARATOR}
           e == Element(name)
           n == Len(e)
           dots == {i \in DOMAIN e : e[i] = "."}
<1>1. /\ n \in 0 .. Len(name) /\ e \in Seq(STRING) /\ (n < Len(name) => name[n + 1] = SEPARATOR)
      /\ \A i \in 1 .. n : e[i] = name[i] /\ name[i] # SEPARATOR
  <2>1. CASE ends = {}
    BY <2>1 DEF Element
  <2>2. CASE ends # {}
    <3> DEFINE k == Min(ends)
    <3>1. k \in 1 .. Len(name) /\ name[k] = SEPARATOR /\ \A i \in 1 .. Len(name) : i < k => name[i] # SEPARATOR
      <4>1. ends \subseteq Nat
        OBVIOUS
      <4>2. k \in ends /\ \A i \in ends : k <= i
        <5> HIDE DEF ends
        <5> QED BY <2>2, <4>1, Minimum
      <4> HIDE DEF k
      <4> QED BY <4>2
    <3>2. e = SubSeq(name, 1, k - 1)
      BY <2>2 DEF Element
    <3> HIDE DEF k, e
    <3>3. e \in Seq(STRING) /\ Len(e) = k - 1 /\ \A i \in 1 .. k - 1 : e[i] = name[i]
      BY <3>1, <3>2
    <3> QED BY <3>1, <3>3
  <2> QED BY <2>1, <2>2
<1>2. IF dots = {} THEN n <= 8 ELSE \E i \in dots : dots = {i} /\ i - 1 <= 8 /\ n - i \in 1 .. 3
  BY DEF Short
<1>3. DOMAIN e = 1 .. n /\ n \in Nat
  BY <1>1
<1> HIDE DEF e
<1>4. PICK d \in Nat : /\ d \in 1 .. n + 1 /\ \A i \in 1 .. n : e[i] = "." <=> i = d
                      /\ d - 1 <= 8 /\ (d <= n => n - d \in 1 .. 3)
  <2>1. CASE dots = {}
    <3>1. \A i \in 1 .. n : e[i] # "."
      BY <1>3, <2>1
    <3>2. n + 1 \in Nat /\ n + 1 \in 1 .. n + 1 /\ (n + 1) - 1 <= 8 /\ ~ (n + 1 <= n)
      BY <1>2, <1>3, <2>1
    <3>3. \A i \in 1 .. n : i # n + 1
      BY <1>3
    <3> QED BY <3>1, <3>2, <3>3
  <2>2. CASE dots # {}
    <3>1. PICK d \in dots : dots = {d} /\ d - 1 <= 8 /\ n - d \in 1 .. 3
      BY <1>2, <2>2
    <3>2. d \in 1 .. n /\ d \in Nat /\ d \in 1 .. n + 1
      BY <1>3, <3>1
    <3>3. \A i \in 1 .. n : e[i] = "." <=> i = d
      BY <1>3, <3>1
    <3> HIDE DEF dots
    <3> QED BY <3>1, <3>2, <3>3
  <2> QED BY <2>1, <2>2
<1>5. Parts(name, n, d)
  BY <1>1, <1>4 DEF Parts
<1>6. Upper(name) = [i \in 1 .. n |-> Capital(name[i])]
  BY <1>3 DEF Upper, e
<1> QED BY <1>3, <1>5, <1>6

(* What has been written, converted or found so far.                       *)
WrittenInv ==
  call.fn = "SetFAT" =>
    /\ call \in Entries
    /\ \/ m.state = "READ" /\ m.one = call.b /\ m.two = call.b
       \/ /\ m.state = "NEXT" /\ call.fs = FAT12
          /\ m.one = [call.b EXCEPT ![Offset(call.fs, call.c)] = First12(@, call.c, call.v)] /\ m.two = m.one
       \/ m.state = "DONE" /\ m.one = SetEntry(call.fs, call.b, call.c, call.v) /\ m.two = m.one
NamedInv ==
  call.fn = "CanonicalToDir" =>
    /\ call.name \in Names /\ call.other \in Names
    /\ \/ m.state = "READ"
       \/ m.state = "DONE" /\ m.name = CanonicalToDir(call.name) /\ m.other = CanonicalToDir(call.other)
FoundInv ==
  call.fn = "start_user_task" =>
    /\ call \in Disks
    /\ \/ m.state = "MBR"
       \/ m.state = "LBR" /\ m.pstart = call.mbr.ptable[1].start
       \/ m.state = "DONE" /\ m.vol = GetVolInfo(call.lbr, call.mbr.ptable[1].start)
StoreInv == WrittenInv /\ NamedInv /\ FoundInv

(* It holds at first.                                                      *)
LEMMA StoreInit == Init => StoreInv
<1> SUFFICES ASSUME Init PROVE StoreInv
  OBVIOUS
<1>1. WrittenInv
  BY Kinds DEF Init, WrittenInv
<1>2. NamedInv
  BY Kinds DEF Init, NamedInv, Naming
<1>3. FoundInv
  BY Kinds DEF Init, FoundInv
<1> QED BY <1>1, <1>2, <1>3 DEF StoreInv

(* It is kept.                                                             *)
LEMMA StoreNext == StoreInv /\ [Next]_vars => StoreInv'
<1> SUFFICES ASSUME StoreInv, [Next]_vars PROVE StoreInv'
  OBVIOUS
<1>1. CASE SetFAT /\ call' = call
  BY <1>1 DEF SetFAT, StoreInv, WrittenInv, NamedInv, FoundInv
<1>7. CASE SetFirst /\ call' = call
  <2> DEFINE o == Offset(call.fs, call.c)
             b == [m.one EXCEPT ![o] = First12(@, call.c, call.v)]
  <2>1. m' = [state |-> "NEXT", one |-> b, two |-> b] /\ call.fn = "SetFAT" /\ m.state = "READ" /\ call.fs = FAT12
    BY <1>7 DEF SetFirst, Straddles
  <2>2. call \in Entries /\ m.one = call.b
    BY <2>1 DEF StoreInv, WrittenInv
  <2>3. b = [call.b EXCEPT ![o] = First12(@, call.c, call.v)]
    BY <2>2
  <2> HIDE DEF b
  <2>4. m'.state = "NEXT" /\ m'.one = b /\ m'.two = b
    BY ONLY <2>1
  <2>5. WrittenInv'
    BY <1>7, <2>1, <2>2, <2>3, <2>4 DEF WrittenInv
  <2> QED BY <1>7, <2>1, <2>5 DEF StoreInv, NamedInv, FoundInv
<1>8. CASE SetSecond /\ call' = call
  <2> DEFINE o == Offset(call.fs, call.c)
             b == [m.one EXCEPT ![o + 1] = Second12(@, call.c, call.v)]
             first == [call.b EXCEPT ![o] = First12(@, call.c, call.v)]
  <2>1. m' = [state |-> "DONE", one |-> b, two |-> b] /\ call.fn = "SetFAT" /\ m.state = "NEXT"
    BY <1>8 DEF SetSecond
  <2>2. call \in Entries /\ call.fs = FAT12 /\ m.one = first
    BY <2>1 DEF StoreInv, WrittenInv
  <2>3. b = [call.b EXCEPT ![o] = First12(@, call.c, call.v), ![o + 1] = Second12(@, call.c, call.v)]
    BY <2>2
  <2>4. SetEntry(call.fs, call.b, call.c, call.v) = b
    BY <2>2, <2>3 DEF SetEntry, FAT12, FAT16, FAT32
  <2> HIDE DEF b
  <2>5. m'.state = "DONE" /\ m'.one = b /\ m'.two = b
    BY ONLY <2>1
  <2>6. WrittenInv'
    BY <1>8, <2>1, <2>2, <2>4, <2>5 DEF WrittenInv
  <2> QED BY <1>8, <2>1, <2>6 DEF StoreInv, NamedInv, FoundInv
<1>2. CASE ToDir /\ call' = call
  BY <1>2 DEF ToDir, StoreInv, WrittenInv, NamedInv, FoundInv
<1>3. CASE FindVolume /\ call' = call
  BY <1>3 DEF FindVolume, StoreInv, WrittenInv, NamedInv, FoundInv, GetPtnStart
<1>4. CASE Mount /\ call' = call
  BY <1>4 DEF Mount, StoreInv, WrittenInv, NamedInv, FoundInv
<1>5. CASE UNCHANGED vars
  BY <1>5 DEF StoreInv, WrittenInv, NamedInv, FoundInv, vars
<1>6. CASE (Dopr \/ Line \/ CmosRead \/ CmosReread \/ Tick \/ Heap) /\ call' = call
  <2>1. call.fn \notin {"SetFAT", "CanonicalToDir", "start_user_task"}
    BY <1>6 DEF Dopr, Line, CmosRead, CmosReread, Tick, Heap, HeapRuns, Malloc, Calloc
  <2> QED BY <1>6, <2>1 DEF StoreInv, WrittenInv, NamedInv, FoundInv
<1> QED BY <1>1, <1>2, <1>3, <1>4, <1>5, <1>6, <1>7, <1>8 DEF Next

(* An entry leaves all others of the table alone and reads back as         *)
(* written, of FAT12 as what DFS_SetFAT() leaves of the value; short names *)
(* are told apart; the parts of a volume are where it looks for them:      *)
(* DFS_SetFAT(), DFS_CanonicalToDir() and DFS_GetVolInfo() (dosfs.c), for  *)
(* every table, value, cluster, name and volume there is room for.         *)
THEOREM StoredIsAlwaysFound == Spec => []StoredIsFound
<1>1. ASSUME WrittenInv PROVE EntriesExact
  <2> SUFFICES ASSUME call.fn = "SetFAT", m.state = "DONE" PROVE EntriesExact
    BY DEF EntriesExact, Returned
  <2> DEFINE fs == call.fs
             b == call.b
             c == call.c
             v == call.v
             one == SetEntry(fs, b, c, v)
  <2>1. /\ m.one = one /\ m.two = one /\ fs \in {FAT12, FAT16, FAT32} /\ c \in Nat /\ v \in Nat
        /\ \E last \in DOMAIN b : last \in Nat /\ DOMAIN b = 0 .. last
        /\ b \in [DOMAIN b -> 0 .. 255] /\ LastByte(fs, c) \in DOMAIN b
    BY <1>1, CallsAssumption DEF WrittenInv
  <2>2. PICK last \in Nat : DOMAIN b = 0 .. last
    BY <2>1
  <2> HIDE DEF fs, b, c, v
  <2>3. b \in [0 .. last -> Byte] /\ LastByte(fs, c) <= last
    BY <2>1, <2>2 DEF Byte
  <2>4. DOMAIN one = DOMAIN b
    BY <2>1 DEF SetEntry, FAT12, FAT16, FAT32
  <2>5. /\ Same(fs, one, b, c, last)
        /\ GetEntry(fs, one, c) = ReadsAs(fs, c, v)
        /\ fs = FAT32 => one[4 * c + 3] \div 16 = b[4 * c + 3] \div 16
    <3>1. CASE fs = FAT12
      <4>1. c % 2 = 1 \/ c % 2 = 0
        BY <2>1
      <4>2. Same(FAT12, SetEntry(FAT12, b, c, v), b, c, last) /\ GetEntry(FAT12, SetEntry(FAT12, b, c, v), c) = Left12(c, v)
        <5>1. b \in [0 .. last -> Byte] /\ c \in Nat /\ v \in Nat /\ last \in Nat /\ LastByte(FAT12, c) <= last
          BY <2>1, <2>3, <3>1
        <5> HIDE DEF one
        <5>2. CASE c % 2 = 1
          BY ONLY <5>1, <5>2, Odd12
        <5>3. CASE c % 2 = 0
          BY ONLY <5>1, <5>3, Even12
        <5> QED BY <4>1, <5>2, <5>3
      <4>3. FAT12 # FAT32
        BY DEF FAT12, FAT32
      <4> QED BY <3>1, <4>2, <4>3 DEF ReadsAs
    <3>2. CASE fs = FAT16
      <4>1. Same(FAT16, SetEntry(FAT16, b, c, v), b, c, last) /\ GetEntry(FAT16, SetEntry(FAT16, b, c, v), c) = v % Bits(FAT16)
        BY <2>1, <2>3, <3>2, Entry16
      <4>2. FAT16 # FAT32 /\ FAT16 # FAT12
        BY DEF FAT12, FAT16, FAT32
      <4> QED BY <3>2, <4>1, <4>2 DEF ReadsAs
    <3>3. CASE fs = FAT32
      <4>1. /\ Same(FAT32, SetEntry(FAT32, b, c, v), b, c, last)
            /\ GetEntry(FAT32, SetEntry(FAT32, b, c, v), c) = v % Bits(FAT32)
            /\ SetEntry(FAT32, b, c, v)[4 * c + 3] \div 16 = b[4 * c + 3] \div 16
        BY <2>1, <2>3, <3>3, Entry32
      <4>2. FAT32 # FAT12
        BY DEF FAT12, FAT32
      <4> QED BY <3>3, <4>1, <4>2 DEF ReadsAs
    <3>4. fs = FAT12 \/ fs = FAT16 \/ fs = FAT32
      BY <2>1
    <3> HIDE DEF one
    <3> QED BY ONLY <3>1, <3>2, <3>3, <3>4
  <2>6. ASSUME NEW k \in Others(fs) \ {c} PROVE GetEntry(fs, one, k) = GetEntry(fs, b, k)
    <3> HIDE DEF one
    <3>1. k \in 0 .. last /\ LastByte(fs, k) \in DOMAIN m.one
      <4>1. k \in DOMAIN m.one /\ LastByte(fs, k) \in DOMAIN m.one
        BY Zenon DEF Others
      <4> QED BY ONLY <2>1, <2>2, <2>4, <4>1
    <3>2. k \in Nat \ {c} /\ LastByte(fs, k) \in 0 .. last
      <4>1. k \in Nat /\ k # c
        BY ONLY <3>1, <2>6, SMT
      <4>2. DOMAIN m.one = 0 .. last
        BY ONLY <2>1, <2>2, <2>4
      <4> QED BY ONLY <3>1, <4>1, <4>2
    <3>3. LastByte(fs, k) <= last
      BY <3>2
    <3> QED BY <2>5, <3>2, <3>3 DEF Same
  <2> HIDE DEF one
  <2> QED BY <2>1, <2>5, <2>6 DEF EntriesExact, fs, b, c, v
<1>2. ASSUME NamedInv PROVE NamesApart
  <2> SUFFICES ASSUME call.fn = "CanonicalToDir", m.state = "DONE", Short(call.name), Short(call.other)
               PROVE  m.name = m.other <=> Upper(call.name) = Upper(call.other)
    BY DEF NamesApart, Returned
  <2> DEFINE name == call.name
             other == call.other
  <2>1. /\ name \in Seq(STRING) /\ (\A i \in DOMAIN name : name[i] # BLANK) /\ Short(name)
        /\ other \in Seq(STRING) /\ (\A i \in DOMAIN other : other[i] # BLANK) /\ Short(other)
        /\ m.name = CanonicalToDir(name) /\ m.other = CanonicalToDir(other)
    BY <1>2, CallsAssumption DEF NamedInv
  <2> HIDE DEF name, other
  <2>2. PICK n \in Nat, d \in Nat : Parts(name, n, d) /\ Upper(name) = [i \in 1 .. n |-> Capital(name[i])]
    BY <2>1, ShortParts
  <2>3. PICK k \in Nat, e \in Nat : Parts(other, k, e) /\ Upper(other) = [i \in 1 .. k |-> Capital(other[i])]
    BY <2>1, ShortParts
  <2>4. m.name = Dest(name, d, n)
    <3>1. PICK after : Converts(after, name) /\ CanonicalToDir(name) = after[Len(name)].dest
      BY <2>1, ConversionExists
    <3> QED BY <2>1, <2>2, <3>1, ConversionStores
  <2>5. m.other = Dest(other, e, k)
    <3>1. PICK after : Converts(after, other) /\ CanonicalToDir(other) = after[Len(other)].dest
      BY <2>1, ConversionExists
    <3> QED BY <2>1, <2>3, <3>1, ConversionStores
  <2>6. Dest(name, d, n) = Dest(other, e, k) <=> Upper(name) = Upper(other)
    <3>1. /\ Len(name) \in Nat /\ Len(other) \in Nat
          /\ \A i \in 1 .. n : name[i] # BLANK
          /\ \A i \in 1 .. k : other[i] # BLANK
      BY <2>1, <2>2, <2>3 DEF Parts
    <3>2. Dest(name, d, n) = Dest(other, e, k)
            <=> [i \in 1 .. n |-> Capital(name[i])] = [i \in 1 .. k |-> Capital(other[i])]
      BY <2>2, <2>3, <3>1, DestApart
    <3> QED BY <2>2, <2>3, <3>2
  <2> QED BY <2>4, <2>5, <2>6 DEF name, other
<1>3. ASSUME FoundInv PROVE VolumeLaidOut
  <2> SUFFICES ASSUME call.fn = "start_user_task", m.state = "DONE" PROVE VolumeLaidOut
    BY DEF VolumeLaidOut, Returned
  <2>1. Lbr(call.lbr) /\ call.mbr.ptable[1].start \in Nat
    BY <1>3, CallsAssumption DEF FoundInv, Lbr
  <2>2. m.vol = GetVolInfo(call.lbr, call.mbr.ptable[1].start)
    BY <1>3 DEF FoundInv
  <2>3. LaidOut(m.vol, call.lbr)
    BY <2>1, <2>2, Volumes
  <2> QED BY <2>3 DEF VolumeLaidOut, LaidOut
<1>4. StoreInv => StoredIsFound
  BY <1>1, <1>2, <1>3 DEF StoreInv, StoredIsFound
<1> QED BY <1>4, StoreInit, StoreNext, PTL DEF Spec

--------------------------------------------------------------------------------
(***************************************************************************)
(* The user heap.                                                          *)
(***************************************************************************)
Chunk == [at : Nat, used : BOOLEAN, size : Nat]
Cells == 0 .. Pool - 1
AHeap == [chunks : Seq(Chunk), mem : [Cells -> Int]]
End(chunk) == chunk.at + Header + chunk.size
\* The units of its block, as far as they lie in the heap.
Block(chunk) == {a \in Cells : chunk.at + Header <= a /\ a < End(chunk)}

Chained(s) ==
  /\ s \in Seq(Chunk) /\ Len(s) >= 1 /\ s[1].at = 0
  /\ \A i \in 1 .. Len(s) : i < Len(s) => s[i + 1].at = End(s[i])
  /\ End(s[Len(s)]) = Pool + Header

Taken(s) == {s[i] : i \in {j \in 1 .. Len(s) : s[j].used}}

(* A chunk lies in front of all those that come later in the list.         *)
LEMMA Ahead ==
  ASSUME NEW s, Chained(s)
  PROVE  /\ \A i \in 1 .. Len(s) : \A j \in i + 1 .. Len(s) : End(s[i]) <= s[j].at
         /\ \A i \in 1 .. Len(s) : End(s[i]) <= Pool + Header
<1>1. Len(s) \in Nat /\ \A i \in 1 .. Len(s) : s[i] \in Chunk
  BY DEF Chained
<1>2. \A c \in Chunk : c.at \in Nat /\ c.size \in Nat /\ End(c) \in Nat /\ c.at < End(c) /\ c.used \in BOOLEAN
  BY HeapAssumption DEF Chunk, End
<1>3. ASSUME NEW i \in 1 .. Len(s) PROVE \A j \in i + 1 .. Len(s) : End(s[i]) <= s[j].at
  <2> DEFINE T == {j \in i + 1 .. Len(s) : End(s[i]) <= s[j].at}
  <2>1. i + 1 <= Len(s) => i + 1 \in T
    BY <1>1, <1>2 DEF Chained
  <2>2. ASSUME NEW j \in i + 1 .. Len(s), j < Len(s), j \in T PROVE j + 1 \in T
    <3>1. j \in 1 .. Len(s) /\ j + 1 \in i + 1 .. Len(s) /\ j + 1 \in 1 .. Len(s) /\ s[j + 1].at = End(s[j])
      BY <1>1, <2>2 DEF Chained
    <3>2. End(s[i]) <= s[j].at
      BY <2>2
    <3>3. End(s[i]) \in Nat /\ End(s[j]) \in Nat /\ s[j].at \in Nat /\ s[j].at < End(s[j])
      BY <1>1, <1>2, <3>1
    <3>4. End(s[i]) <= s[j + 1].at
      BY ONLY <3>1, <3>2, <3>3
    <3> QED BY <3>1, <3>4
  <2> HIDE DEF T
  <2>3. i + 1 \in Int /\ Len(s) \in Int
    BY <1>1
  <2>4. \A j \in i + 1 .. Len(s) : j \in T
    BY ONLY <2>1, <2>2, <2>3, Induction
  <2> QED BY <2>4 DEF T
<1>4. ASSUME NEW i \in 1 .. Len(s) PROVE End(s[i]) <= Pool + Header
  <2>1. CASE i = Len(s)
    BY <2>1, <1>1, <1>2 DEF Chained
  <2>2. CASE i # Len(s)
    <3>1. Len(s) \in i + 1 .. Len(s) /\ Len(s) \in 1 .. Len(s)
      BY <1>1, <2>2
    <3>2. End(s[i]) <= s[Len(s)].at
      BY <1>3, <3>1
    <3>3. s[Len(s)].at < End(s[Len(s)]) /\ End(s[Len(s)]) = Pool + Header
      BY <1>1, <1>2, <3>1 DEF Chained
    <3> QED BY <1>1, <1>2, <3>1, <3>2, <3>3
  <2> QED BY <2>1, <2>2
<1> QED BY <1>3, <1>4

(* Of two chunks one lies in front of the other.                           *)
Apart(c, d) == c = d \/ End(c) <= d.at \/ End(d) <= c.at
(* The same of any two, whichever comes first; so an address names one     *)
(* chunk.                                                                  *)
LEMMA ChunksApart ==
  ASSUME NEW s, Chained(s)
  PROVE  /\ \A i, j \in 1 .. Len(s) : i = j \/ End(s[i]) <= s[j].at \/ End(s[j]) <= s[i].at
         /\ \A i, j \in 1 .. Len(s) : s[i].at = s[j].at => i = j
<1>1. Len(s) \in Nat /\ \A i \in 1 .. Len(s) : s[i] \in Chunk
  BY DEF Chained
<1>2. \A c \in Chunk : c.at \in Nat /\ End(c) \in Nat /\ c.at < End(c)
  BY HeapAssumption DEF Chunk, End
<1>3. ASSUME NEW i \in 1 .. Len(s), NEW j \in 1 .. Len(s)
      PROVE  i = j \/ End(s[i]) <= s[j].at \/ End(s[j]) <= s[i].at
  <2>1. i = j \/ j \in i + 1 .. Len(s) \/ i \in j + 1 .. Len(s)
    BY <1>1
  <2> QED BY <2>1, Ahead
<1>4. ASSUME NEW i \in 1 .. Len(s), NEW j \in 1 .. Len(s), s[i].at = s[j].at PROVE i = j
  BY <1>1, <1>2, <1>3, <1>4
<1> QED BY <1>3, <1>4

(* The chunks in use lie in the heap, apart from each other.               *)
LEMMA TakenApart ==
  ASSUME NEW s, Chained(s)
  PROVE  /\ \A c \in Taken(s) : c \in Chunk /\ c.used /\ End(c) <= Pool + Header
         /\ \A c, d \in Taken(s) : Apart(c, d)
<1>1. ASSUME NEW c \in Taken(s) PROVE \E i \in 1 .. Len(s) : c = s[i] /\ s[i].used
  BY DEF Taken
<1>2. \A i \in 1 .. Len(s) : s[i] \in Chunk
  BY DEF Chained
<1>3. ASSUME NEW c \in Taken(s) PROVE c \in Chunk /\ c.used /\ End(c) <= Pool + Header
  BY <1>1, <1>2, Ahead
<1>4. ASSUME NEW c \in Taken(s), NEW d \in Taken(s) PROVE Apart(c, d)
  <2>1. PICK i \in 1 .. Len(s) : c = s[i]
    BY <1>1
  <2>2. PICK j \in 1 .. Len(s) : d = s[j]
    BY <1>1
  <2> QED BY <2>1, <2>2, ChunksApart DEF Apart
<1> QED BY <1>3, <1>4

(* The list with a chunk cut in two: the first of them in use.             *)
Cut(s, k, first, second) == U!InsertAt([s EXCEPT ![k] = first], k + 1, second)
(* Its items: those behind the new chunk have moved up by one.             *)
LEMMA CutItems ==
  ASSUME NEW s \in Seq(Chunk), NEW k \in 1 .. Len(s), NEW first \in Chunk, NEW second \in Chunk
  PROVE  /\ Cut(s, k, first, second) \in Seq(Chunk)
         /\ Len(Cut(s, k, first, second)) = Len(s) + 1
         /\ \A i \in 1 .. Len(s) + 1 :
              Cut(s, k, first, second)[i] = IF i < k THEN s[i] ELSE IF i = k THEN first
                                            ELSE IF i = k + 1 THEN second ELSE s[i - 1]
<1> DEFINE t == [s EXCEPT ![k] = first]
           front == SubSeq(t, 1, k)
           back == SubSeq(t, k + 1, Len(t))
<1>1. t \in Seq(Chunk) /\ Len(t) = Len(s) /\ \A i \in 1 .. Len(s) : t[i] = IF i = k THEN first ELSE s[i]
  BY ExceptSeq
<1>2. Len(s) \in Nat /\ k \in Int /\ \A i \in 1 .. Len(s) : t[i] \in Chunk
  BY <1>1
<1> HIDE DEF t
<1>3. front \in Seq(Chunk) /\ Len(front) = k /\ \A i \in 1 .. k : front[i] = t[i]
  <2>1. \A i \in 1 .. k : t[i] \in Chunk
    BY <1>2
  <2>2. 1 <= k /\ k - 1 + 1 = k /\ \A i \in 1 .. k : 1 + i - 1 = i
    BY <1>2
  <2>3. /\ front \in Seq(Chunk) /\ Len(front) = (IF 1 <= k THEN k - 1 + 1 ELSE 0)
        /\ \A i \in 1 .. k - 1 + 1 : front[i] = t[1 + i - 1]
    BY ONLY <1>2, <2>1, 1 \in Int, SubSeqProperties DEF front
  <2> QED BY ONLY <2>2, <2>3
<1>4. back \in Seq(Chunk) /\ Len(back) = Len(s) - k /\ \A i \in 1 .. Len(s) - k : back[i] = t[k + i]
  <2>1. \A i \in k + 1 .. Len(t) : t[i] \in Chunk
    BY <1>1, <1>2
  <2>2. k + 1 \in Int /\ Len(t) \in Int
    BY <1>1, <1>2
  <2>3. /\ back \in Seq(Chunk) /\ Len(back) = (IF k + 1 <= Len(t) THEN Len(t) - (k + 1) + 1 ELSE 0)
        /\ \A i \in 1 .. Len(t) - (k + 1) + 1 : back[i] = t[(k + 1) + i - 1]
    BY ONLY <2>1, <2>2, SubSeqProperties DEF back
  <2>4. Len(t) - (k + 1) + 1 = Len(s) - k /\ (k + 1 <= Len(t) \/ Len(s) - k = 0)
        /\ \A i \in 1 .. Len(s) - k : (k + 1) + i - 1 = k + i
    BY <1>1, <1>2
  <2> QED BY ONLY <2>3, <2>4
<1>5. Cut(s, k, first, second) = (front \o <<second>>) \o back
  <2>1. (k + 1) - 1 = k
    BY <1>2
  <2>2. Cut(s, k, first, second) = SubSeq(t, 1, (k + 1) - 1) \o <<second>> \o SubSeq(t, k + 1, Len(t))
    BY Zenon DEF Cut, U!InsertAt, t
  <2> QED BY ONLY <2>1, <2>2 DEF front, back
<1> DEFINE one == <<second>>
           both == front \o one
           all == both \o back
<1>6. one \in Seq(Chunk) /\ Len(one) = 1 /\ one[1] = second
  OBVIOUS
<1> HIDE DEF front, back, one
<1>7. both \in Seq(Chunk) /\ Len(both) = k + 1 /\ \A i \in 1 .. k + 1 : both[i] = IF i <= k THEN front[i] ELSE one[i - k]
  <2>1. /\ both \in Seq(Chunk) /\ Len(both) = Len(front) + Len(one)
        /\ \A i \in 1 .. Len(front) + Len(one) : both[i] = IF i <= Len(front) THEN front[i] ELSE one[i - Len(front)]
    BY ONLY <1>3, <1>6, ConcatProperties DEF both
  <2> QED BY <2>1, <1>3, <1>6
<1> HIDE DEF both
<1>8. all \in Seq(Chunk) /\ Len(all) = Len(s) + 1
      /\ \A i \in 1 .. Len(s) + 1 : all[i] = IF i <= k + 1 THEN both[i] ELSE back[i - (k + 1)]
  <2>1. /\ all \in Seq(Chunk) /\ Len(all) = Len(both) + Len(back)
        /\ \A i \in 1 .. Len(both) + Len(back) : all[i] = IF i <= Len(both) THEN both[i] ELSE back[i - Len(both)]
    BY ONLY <1>4, <1>7, ConcatProperties DEF all
  <2>2. Len(both) + Len(back) = Len(s) + 1
    BY <1>2, <1>4, <1>7
  <2> QED BY ONLY <2>1, <2>2, <1>7
<1>9. Cut(s, k, first, second) = all
  BY <1>5 DEF both, one
<1> HIDE DEF all
<1>10. ASSUME NEW i \in 1 .. Len(s) + 1
       PROVE  all[i] = IF i < k THEN s[i] ELSE IF i = k THEN first ELSE IF i = k + 1 THEN second ELSE s[i - 1]
  <2>1. CASE i <= k
    <3>1. i \in 1 .. k /\ i \in 1 .. k + 1 /\ i \in 1 .. Len(s)
      BY <1>2, <2>1
    <3>2. all[i] = t[i]
      BY <1>3, <1>7, <1>8, <2>1, <3>1
    <3> QED BY <1>1, <1>2, <2>1, <3>1, <3>2
  <2>2. CASE i = k + 1
    <3>1. i \in 1 .. k + 1 /\ ~(i <= k) /\ i - k = 1
      BY <1>2, <2>2
    <3>2. all[i] = second
      BY <1>6, <1>7, <1>8, <2>2, <3>1
    <3> QED BY <1>2, <2>2, <3>2
  <2>3. CASE i > k + 1
    <3>1. i - (k + 1) \in 1 .. Len(s) - k /\ ~(i <= k + 1) /\ i - 1 \in 1 .. Len(s) /\ i - 1 # k /\ k + (i - (k + 1)) = i - 1
      BY <1>2, <2>3
    <3>2. all[i] = t[i - 1]
      BY <1>4, <1>8, <3>1
    <3>3. all[i] = s[i - 1]
      BY <1>1, <3>1, <3>2
    <3> QED BY <1>2, <2>3, <3>3
  <2> QED BY <1>2, <2>1, <2>2, <2>3
<1> QED BY ONLY <1>8, <1>9, <1>10

(* The list with a chunk put to use or given back.                         *)
Marked(s, k, b) == [s EXCEPT ![k].used = b]
(* Its items: one has another flag.                                        *)
LEMMA MarkedItems ==
  ASSUME NEW s, Chained(s), NEW k \in 1 .. Len(s), NEW b \in BOOLEAN
  PROVE  /\ Chained(Marked(s, k, b)) /\ Len(Marked(s, k, b)) = Len(s)
         /\ Marked(s, k, b)[k] = [at |-> s[k].at, used |-> b, size |-> s[k].size]
         /\ \A i \in 1 .. Len(s) : i # k => Marked(s, k, b)[i] = s[i]
<1> DEFINE e == [at |-> s[k].at, used |-> b, size |-> s[k].size]
           t == Marked(s, k, b)
<1>1. s \in Seq(Chunk) /\ Len(s) \in Nat /\ Len(s) >= 1 /\ s[k] \in Chunk /\ \A i \in 1 .. Len(s) : s[i] \in Chunk
  BY DEF Chained
<1>2. e \in Chunk /\ [s[k] EXCEPT !.used = b] = e
  <2>1. ASSUME NEW c \in Chunk
        PROVE  /\ [at |-> c.at, used |-> b, size |-> c.size] \in Chunk
               /\ [c EXCEPT !.used = b] = [at |-> c.at, used |-> b, size |-> c.size]
    BY DEF Chunk
  <2> QED BY ONLY <1>1, <2>1 DEF e
<1>3. t = [s EXCEPT ![k] = e]
  BY <1>2 DEF Marked
<1> HIDE DEF e, t
<1>4. t \in Seq(Chunk) /\ Len(t) = Len(s) /\ \A i \in 1 .. Len(s) : t[i] = IF i = k THEN e ELSE s[i]
  BY <1>1, <1>2, <1>3, ExceptSeq
<1>5. ASSUME NEW i \in 1 .. Len(s) PROVE t[i].at = s[i].at /\ End(t[i]) = End(s[i])
  <2>1. e.at = s[k].at /\ e.size = s[k].size
    BY DEF e
  <2> QED BY <1>4, <2>1 DEF End
<1>6. Chained(t)
  <2>1. 1 \in 1 .. Len(s) /\ Len(s) \in 1 .. Len(s) /\ \A i \in 1 .. Len(s) : i < Len(s) => i + 1 \in 1 .. Len(s)
    BY <1>1
  <2> QED BY <1>1, <1>4, <1>5, <2>1 DEF Chained
<1> QED BY <1>4, <1>6 DEF e, t

(* The chunks in use are one more, or one less.                            *)
LEMMA MarkedTaken ==
  ASSUME NEW s, Chained(s), NEW k \in 1 .. Len(s)
  PROVE  /\ ~s[k].used => Taken(Marked(s, k, TRUE)) = Taken(s) \cup {[at |-> s[k].at, used |-> TRUE, size |-> s[k].size]}
         /\ Taken(Marked(s, k, FALSE)) = Taken(s) \ {s[k]}
<1>1. TRUE \in BOOLEAN /\ FALSE \in BOOLEAN
  OBVIOUS
<1>2. ASSUME ~s[k].used
      PROVE  Taken(Marked(s, k, TRUE)) = Taken(s) \cup {[at |-> s[k].at, used |-> TRUE, size |-> s[k].size]}
  <2> DEFINE t == Marked(s, k, TRUE)
             e == [at |-> s[k].at, used |-> TRUE, size |-> s[k].size]
  <2>1. Len(t) = Len(s) /\ t[k] = e /\ (\A i \in 1 .. Len(s) : i # k => t[i] = s[i]) /\ e.used
    BY <1>1, MarkedItems
  <2> HIDE DEF t, e
  <2>2. Taken(t) = Taken(s) \cup {e}
    BY <1>2, <2>1 DEF Taken
  <2> QED BY <2>2 DEF t, e
<1>3. Taken(Marked(s, k, FALSE)) = Taken(s) \ {s[k]}
  <2> DEFINE t == Marked(s, k, FALSE)
             e == [at |-> s[k].at, used |-> FALSE, size |-> s[k].size]
  <2>1. Len(t) = Len(s) /\ t[k] = e /\ (\A i \in 1 .. Len(s) : i # k => t[i] = s[i]) /\ ~e.used
    BY <1>1, MarkedItems
  <2>2. \A i \in 1 .. Len(s) : s[i] = s[k] => i = k
    BY ChunksApart
  <2> HIDE DEF t, e
  <2>3. Taken(t) = Taken(s) \ {s[k]}
    BY <2>1, <2>2 DEF Taken
  <2> QED BY <2>3 DEF t
<1> QED BY <1>2, <1>3

(* The list with a free chunk cut in two of its size.                      *)
LEMMA CutChained ==
  ASSUME NEW s, Chained(s), NEW k \in 1 .. Len(s), ~s[k].used,
         NEW first \in Chunk, NEW second \in Chunk, first.used, ~second.used,
         first.at = s[k].at, second.at = End(first), End(second) = End(s[k])
  PROVE  Chained(Cut(s, k, first, second)) /\ Taken(Cut(s, k, first, second)) = Taken(s) \cup {first}
<1> DEFINE t == Cut(s, k, first, second)
<1>1. s \in Seq(Chunk) /\ Len(s) \in Nat /\ Len(s) >= 1 /\ (\A i \in 1 .. Len(s) : s[i] \in Chunk) /\ k \in Nat
  BY DEF Chained
<1>2. /\ t \in Seq(Chunk) /\ Len(t) = Len(s) + 1
      /\ \A i \in 1 .. Len(s) + 1 :
           t[i] = IF i < k THEN s[i] ELSE IF i = k THEN first ELSE IF i = k + 1 THEN second ELSE s[i - 1]
  BY <1>1, CutItems
<1> HIDE DEF t
<1>3. t[1].at = 0
  <2>1. 1 \in 1 .. Len(s) + 1 /\ (1 < k \/ 1 = k)
    BY <1>1
  <2> QED BY <1>2, <2>1 DEF Chained
<1>4. ASSUME NEW i \in 1 .. Len(t), i < Len(t) PROVE t[i + 1].at = End(t[i])
  <2>1. i \in 1 .. Len(s) + 1 /\ i + 1 \in 1 .. Len(s) + 1
    BY <1>1, <1>2, <1>4
  <2>2. CASE i + 1 < k
    <3>1. t[i] = s[i] /\ t[i + 1] = s[i + 1] /\ i \in 1 .. Len(s) /\ i < Len(s)
      BY <1>1, <1>2, <2>1, <2>2
    <3> QED BY <3>1 DEF Chained
  <2>3. CASE i + 1 = k
    <3>1. t[i] = s[i] /\ t[i + 1] = first /\ i \in 1 .. Len(s) /\ i < Len(s)
      BY <1>1, <1>2, <2>1, <2>3
    <3>2. s[i + 1].at = End(s[i])
      BY <3>1 DEF Chained
    <3> QED BY <2>3, <3>1, <3>2
  <2>4. CASE i = k
    <3>1. t[i] = first /\ t[i + 1] = second
      BY <1>1, <1>2, <2>1, <2>4
    <3> QED BY <3>1
  <2>5. CASE i = k + 1
    <3>1. t[i] = second /\ t[i + 1] = s[k + 1] /\ k < Len(s)
      BY <1>1, <1>2, <2>1, <2>5
    <3>2. s[k + 1].at = End(s[k])
      BY <3>1 DEF Chained
    <3> QED BY <3>1, <3>2
  <2>6. CASE i > k + 1
    <3>1. t[i] = s[i - 1] /\ t[i + 1] = s[i] /\ i - 1 \in 1 .. Len(s) /\ i - 1 < Len(s) /\ (i - 1) + 1 = i
      BY <1>1, <1>2, <2>1, <2>6
    <3>2. s[(i - 1) + 1].at = End(s[i - 1])
      BY <3>1 DEF Chained
    <3> QED BY <3>1, <3>2
  <2> QED BY <1>1, <2>1, <2>2, <2>3, <2>4, <2>5, <2>6
<1>5. End(t[Len(t)]) = Pool + Header
  <2>1. Len(t) \in 1 .. Len(s) + 1 /\ Len(t) > k /\ Len(t) - 1 = Len(s)
    BY <1>1, <1>2
  <2>2. CASE Len(t) = k + 1
    <3>1. t[Len(t)] = second /\ k = Len(s)
      <4>1. k + 1 \in 1 .. Len(s) + 1 /\ ~(k + 1 < k) /\ k + 1 # k /\ k = Len(s)
        BY <1>1, <1>2, <2>2
      <4>2. t[k + 1] = second
        BY ONLY <1>2, <4>1
      <4> QED BY ONLY <4>1, <4>2, <2>2
    <3> QED BY <3>1 DEF Chained
  <2>3. CASE Len(t) # k + 1
    <3>1. t[Len(t)] = s[Len(s)]
      BY <1>1, <1>2, <2>1, <2>3
    <3> QED BY <3>1 DEF Chained
  <2> QED BY <2>2, <2>3
<1>6. Chained(t)
  <2>1. Len(t) >= 1
    BY <1>1, <1>2
  <2> QED BY <1>2, <1>3, <1>4, <1>5, <2>1 DEF Chained
<1>7. Taken(t) = Taken(s) \cup {first}
  <2>1. ASSUME NEW c \in Taken(t) PROVE c \in Taken(s) \cup {first}
    <3>1. PICK i \in 1 .. Len(s) + 1 : c = t[i] /\ t[i].used
      BY <1>2 DEF Taken
    <3>2. t[i] = first \/ t[i] = second \/ (i \in 1 .. Len(s) /\ t[i] = s[i]) \/ (i - 1 \in 1 .. Len(s) /\ t[i] = s[i - 1])
      BY <1>1, <1>2
    <3> QED BY <3>1, <3>2 DEF Taken
  <2>2. first \in Taken(t)
    <3>1. k \in 1 .. Len(s) + 1 /\ t[k] = first
      BY <1>1, <1>2
    <3> QED BY <1>2, <3>1 DEF Taken
  <2>3. ASSUME NEW c \in Taken(s) PROVE c \in Taken(t)
    <3>1. PICK i \in 1 .. Len(s) : c = s[i] /\ s[i].used
      BY DEF Taken
    <3>2. CASE i < k
      <4>1. i \in 1 .. Len(s) + 1 /\ t[i] = s[i]
        BY <1>1, <1>2, <3>2
      <4> QED BY <1>2, <3>1, <4>1 DEF Taken
    <3>3. CASE i > k
      <4>1. i + 1 \in 1 .. Len(s) + 1 /\ t[i + 1] = s[(i + 1) - 1] /\ (i + 1) - 1 = i
        BY <1>1, <1>2, <3>3
      <4> QED BY <1>2, <3>1, <4>1 DEF Taken
    <3>4. i # k
      BY <3>1
    <3> QED BY <1>1, <3>2, <3>3, <3>4
  <2> QED BY <2>1, <2>2, <2>3
<1> QED BY <1>6, <1>7 DEF t

(* What a block that has been given out is: a chunk in use apart from the  *)
(* others, as large as asked for; what they hold is as before.             *)
Allocates(h, r, c, n) ==
  /\ r.h \in AHeap /\ Chained(r.h.chunks) /\ Taken(r.h.chunks) = Taken(h.chunks) \cup {c}
  /\ c \in Chunk /\ c.used /\ n <= c.size /\ r.ptr = c.at + Header /\ End(c) <= Pool + Header
  /\ \A d \in Taken(h.chunks) : End(c) <= d.at \/ End(d) <= c.at
  /\ \A d \in Taken(h.chunks) : \A a \in Block(d) : r.h.mem[a] = h.mem[a]

(* malloc() gives out such a block, unless it fails.                       *)
LEMMA MallocAllocates ==
  ASSUME NEW h \in AHeap, Chained(h.chunks), NEW n \in Nat \ {0}, U!malloc(h, n).ptr # U!NULL
  PROVE  \E c : Allocates(h, U!malloc(h, n), c, n)
<1> DEFINE s == h.chunks
           k == U!find_free_block(h, n)
           a == s[k]
           freesize == a.size - n - Header
           first == [at |-> a.at, used |-> TRUE, size |-> n]
           new == [at |-> U!Pointer(a) + n, used |-> FALSE, size |-> freesize]
           r == U!malloc(h, n)
<1>1. /\ h = [chunks |-> s, mem |-> h.mem] /\ h.mem \in [Cells -> Int] /\ s \in Seq(Chunk)
      /\ Len(s) \in Nat /\ \A i \in 1 .. Len(s) : s[i] \in Chunk
  BY DEF AHeap
<1>2. r = IF n = 0 \/ k = 0 THEN [h |-> h, ptr |-> U!NULL]
          ELSE IF freesize <= 0 THEN [h |-> [h EXCEPT !.chunks = [@ EXCEPT ![k].used = TRUE]], ptr |-> U!Pointer(a)]
          ELSE [h |-> [chunks |-> Cut(s, k, first, new),
                       mem |-> U!Stored(h.mem, new.at, [i \in 1 .. Header |-> U!OSEX])],
                ptr |-> U!Pointer(a)]
  BY Zenon DEF U!malloc, Cut
<1>3. k \in 1 .. Len(s) /\ ~s[k].used /\ s[k].size >= n
  <2> DEFINE fit == {i \in DOMAIN s : s[i].size >= n /\ ~s[i].used}
  <2>1. k = IF fit = {} THEN 0 ELSE U!Min(fit)
    BY Zenon DEF U!find_free_block
  <2>2. k # 0
    BY <1>2
  <2>3. U!Min(fit) = Min(fit)
    BY DEF U!Min, Min
  <2>4. fit \subseteq Nat /\ DOMAIN s = 1 .. Len(s)
    BY <1>1
  <2>5. k \in fit
    BY <2>1, <2>2, <2>3, <2>4, Minimum
  <2> QED BY <2>4, <2>5
<1> HIDE DEF k
<1>4. a \in Chunk /\ a.at \in Nat /\ a.size \in Nat /\ ~a.used /\ U!Pointer(a) = a.at + Header /\ End(a) = a.at + Header + a.size
  BY <1>1, <1>3 DEF Chunk, U!Pointer, End
<1>5. Header \in Nat \ {0} /\ Pool \in Nat \ {0} /\ n \in Nat \ {0} /\ freesize \in Int
  BY HeapAssumption, <1>4
<1>6. \A d \in Taken(s) : d \in Chunk /\ d.at \in Nat /\ d.size \in Nat /\ End(d) <= Pool + Header
                          /\ (End(a) <= d.at \/ End(d) <= a.at)
  <2>1. ASSUME NEW d \in Taken(s) PROVE End(a) <= d.at \/ End(d) <= a.at
    <3>1. PICK i \in 1 .. Len(s) : d = s[i] /\ s[i].used
      BY DEF Taken
    <3>2. i # k
      BY <1>3, <3>1
    <3> QED BY <1>3, <3>1, <3>2, ChunksApart
  <2> QED BY <2>1, TakenApart DEF Chunk
<1>7. End(a) <= Pool + Header
  BY <1>3, Ahead
<1> HIDE DEF a, r
<1>8. CASE freesize <= 0
  <2> DEFINE c == [at |-> a.at, used |-> TRUE, size |-> a.size]
             t == Marked(s, k, TRUE)
  <2>1. [h EXCEPT !.chunks = [@ EXCEPT ![k].used = TRUE]] = [chunks |-> t, mem |-> h.mem]
    <3>1. [h EXCEPT !.chunks = [@ EXCEPT ![k].used = TRUE]] = [h EXCEPT !.chunks = t]
      BY Zenon DEF Marked
    <3> HIDE DEF t
    <3> QED BY <1>1, <3>1
  <2>2. r.h = [chunks |-> t, mem |-> h.mem] /\ r.ptr = a.at + Header
    BY <1>2, <1>3, <1>4, <1>5, <1>8, <2>1
  <2>3. Chained(t) /\ Taken(t) = Taken(s) \cup {c}
    BY <1>3, MarkedItems, MarkedTaken DEF a
  <2>4. c \in Chunk /\ c.used /\ n <= c.size /\ c.at = a.at /\ End(c) = End(a)
    BY <1>3, <1>4, <1>5, <1>8 DEF Chunk, End, a
  <2> HIDE DEF t, c
  <2>5. r.h \in AHeap /\ r.h.chunks = t /\ r.h.mem = h.mem
    BY <1>1, <2>2, <2>3 DEF AHeap, Chained
  <2>6. Allocates(h, r, c, n)
    BY <1>6, <1>7, <2>2, <2>3, <2>4, <2>5 DEF Allocates
  <2> QED BY <2>6 DEF r
<1>9. CASE ~(freesize <= 0)
  <2> DEFINE t == Cut(s, k, first, new)
             mem == U!Stored(h.mem, new.at, [i \in 1 .. Header |-> U!OSEX])
  <2>1. first \in Chunk /\ first.used /\ first.at = a.at /\ End(first) = a.at + Header + n /\ n <= first.size
    BY <1>4, <1>5 DEF Chunk, End
  <2>2. new \in Chunk /\ ~new.used /\ new.at = a.at + Header + n /\ End(new) = End(a)
    <3>1. freesize \in Nat
      BY <1>5, <1>9
    <3> HIDE DEF freesize
    <3>2. new \in Chunk /\ ~new.used /\ new.at = a.at + Header + n /\ End(new) = new.at + Header + freesize
      BY <1>4, <1>5, <3>1 DEF Chunk, End
    <3> QED BY <1>4, <1>5, <3>2 DEF freesize
  <2>3. r.h = [chunks |-> t, mem |-> mem] /\ r.ptr = a.at + Header
    BY <1>2, <1>3, <1>4, <1>5, <1>9
  <2> HIDE DEF first, new
  <2>4. Chained(t) /\ Taken(t) = Taken(s) \cup {first}
    BY <1>3, <2>1, <2>2, CutChained DEF a
  <2>5. /\ mem \in [Cells -> Int]
        /\ \A x \in Cells : x < new.at \/ x >= new.at + Header => mem[x] = h.mem[x]
    <3> DEFINE cells == [i \in 1 .. Header |-> U!OSEX]
    <3>1. mem = [x \in Cells |-> IF x - new.at + 1 \in 1 .. Header THEN cells[x - new.at + 1] ELSE h.mem[x]]
      BY <1>1 DEF U!Stored
    <3>2. \A i \in 1 .. Header : cells[i] \in Int
      BY DEF U!OSEX
    <3> HIDE DEF cells
    <3>3. mem \in [Cells -> Int]
      BY <1>1, <3>1, <3>2
    <3>4. ASSUME NEW x \in Cells, x < new.at \/ x >= new.at + Header PROVE mem[x] = h.mem[x]
      <4>1. x \in Int /\ new.at \in Int /\ Header \in Nat
        BY <1>4, <1>5, <2>2 DEF Cells
      <4>2. ~(x - new.at + 1 \in 1 .. Header)
        BY ONLY <3>4, <4>1
      <4> QED BY <3>1, <4>2
    <3> QED BY <3>3, <3>4
  <2> HIDE DEF t, mem
  <2>6. r.h \in AHeap /\ r.h.chunks = t /\ r.h.mem = mem
    BY <2>3, <2>4, <2>5 DEF AHeap, Chained
  <2>7. \A d \in Taken(s) : End(first) <= d.at \/ End(d) <= first.at
    BY <1>4, <1>5, <1>6, <1>9, <2>1 DEF Chunk, End
  <2>8. ASSUME NEW d \in Taken(s), NEW x \in Block(d) PROVE mem[x] = h.mem[x]
    <3>1. /\ d.at \in Nat /\ End(d) \in Nat /\ End(d) <= Pool + Header /\ (End(a) <= d.at \/ End(d) <= a.at)
          /\ End(a) \in Nat /\ new.at \in Nat /\ new.at + Header <= End(a) /\ a.at <= new.at
      <4>1. new.at + Header <= End(new) /\ new.at \in Nat /\ End(new) \in Nat
        BY <1>5, <2>2 DEF Chunk, End
      <4>2. a.at <= new.at
        BY <1>4, <1>5, <2>2
      <4>3. End(d) \in Nat
        BY <1>5, <1>6 DEF End
      <4> QED BY <1>6, <2>2, <4>1, <4>2, <4>3
    <3>2. x \in Cells /\ x \in Int /\ d.at + Header <= x /\ x < End(d)
      BY <1>5 DEF Block, Cells
    <3>3. x \in Cells /\ (x < new.at \/ x >= new.at + Header)
      BY ONLY <1>4, <1>5, <3>1, <3>2
    <3> QED BY <2>5, <3>3
  <2>9. End(first) <= Pool + Header
    BY <1>4, <1>5, <1>7, <1>9, <2>1
  <2>10. Allocates(h, r, first, n)
    BY <2>1, <2>3, <2>4, <2>6, <2>7, <2>8, <2>9 DEF Allocates
  <2> QED BY <2>10 DEF r
<1> QED BY <1>8, <1>9

(* The numbers of a chunk.                                                 *)
LEMMA Items ==
  ASSUME NEW s, Chained(s)
  PROVE  /\ Len(s) \in Nat /\ Header \in Nat
         /\ \A i \in 1 .. Len(s) : s[i].at \in Nat /\ s[i].size \in Nat /\ End(s[i]) = s[i].at + Header + s[i].size
<1>1. s \in Seq(Chunk) /\ Len(s) \in Nat /\ \A i \in 1 .. Len(s) : s[i] \in Chunk
  BY DEF Chained
<1>2. \A c \in Chunk : c.at \in Nat /\ c.size \in Nat /\ End(c) = c.at + Header + c.size
  BY DEF Chunk, End
<1> QED BY HeapAssumption, <1>1, <1>2

(* What the chunk at the head has when the free ones behind it are in it:  *)
(* all up to the end of the last of them.                                  *)
SizesSum(size, s, run) == \A i \in 1 .. run : size[i] = IF i = 1 THEN s[1].size ELSE size[i - 1] + U!Weight(s[i])
(* By induction along the list.                                            *)
LEMMA SumsTo ==
  ASSUME NEW s, Chained(s), NEW run \in 1 .. Len(s), NEW size, SizesSum(size, s, run)
  PROVE  \A i \in 1 .. run : size[i] = End(s[i]) - Header
<1> DEFINE T == {i \in 1 .. run : size[i] = End(s[i]) - Header}
<1>1. /\ Len(s) \in Nat /\ Header \in Nat
      /\ \A i \in 1 .. Len(s) : s[i].at \in Nat /\ s[i].size \in Nat /\ End(s[i]) = s[i].at + Header + s[i].size
  BY Items
<1>2. run \in Nat /\ 1 \in 1 .. run /\ 1 \in 1 .. Len(s) /\ \A i \in 1 .. run : i \in 1 .. Len(s)
  BY <1>1
<1>3. 1 \in T
  <2>1. size[1] = s[1].size /\ s[1].at = 0
    BY <1>2 DEF SizesSum, Chained
  <2> QED BY <1>1, <1>2, <2>1
<1>4. ASSUME NEW i \in 1 .. run, i < run, i \in T PROVE i + 1 \in T
  <2>1. i + 1 \in 1 .. run /\ i + 1 # 1 /\ (i + 1) - 1 = i /\ i \in 1 .. Len(s) /\ i < Len(s) /\ i + 1 \in 1 .. Len(s)
    BY <1>1, <1>4
  <2>2. size[i + 1] = size[i] + U!Weight(s[i + 1])
    BY ONLY <2>1, SizesSum(size, s, run) DEF SizesSum
  <2>3. U!Weight(s[i + 1]) = s[i + 1].size + Header
    BY DEF U!Weight
  <2>4. size[i] = End(s[i]) - Header
    BY <1>4
  <2>5. s[i + 1].at = End(s[i])
    BY <2>1 DEF Chained
  <2>6. /\ s[i + 1].at \in Nat /\ s[i + 1].size \in Nat /\ Header \in Nat
        /\ End(s[i + 1]) = s[i + 1].at + Header + s[i + 1].size
    BY <1>1, <2>1
  <2>7. size[i + 1] = End(s[i + 1]) - Header
    BY ONLY <2>2, <2>3, <2>4, <2>5, <2>6
  <2> QED BY <2>1, <2>7
<1> HIDE DEF T
<1>5. 1 \in Int /\ run \in Int
  BY <1>2
<1>6. \A i \in 1 .. run : i \in T
  BY ONLY <1>3, <1>4, <1>5, Induction
<1> QED BY <1>6 DEF T

(* The sizes add up: such a function there is.                             *)
LEMMA SumsExist ==
  ASSUME NEW s, Chained(s), NEW run \in 1 .. Len(s)
  PROVE  \E size : size = [i \in 1 .. run |-> IF i = 1 THEN s[1].size ELSE size[i - 1] + U!Weight(s[i])]
<1> DEFINE size == [i \in 1 .. run |-> End(s[i]) - Header]
<1>1. /\ Len(s) \in Nat /\ Header \in Nat
      /\ \A i \in 1 .. Len(s) : s[i].at \in Nat /\ s[i].size \in Nat /\ End(s[i]) = s[i].at + Header + s[i].size
  BY Items
<1>2. ASSUME NEW i \in 1 .. run PROVE size[i] = IF i = 1 THEN s[1].size ELSE size[i - 1] + U!Weight(s[i])
  <2>1. CASE i = 1
    <3>1. s[1].at = 0 /\ 1 \in 1 .. Len(s)
      BY <1>1 DEF Chained
    <3> QED BY <1>1, <2>1, <3>1
  <2>2. CASE i # 1
    <3>1. i \in 1 .. Len(s) /\ i - 1 \in 1 .. run /\ i - 1 \in 1 .. Len(s) /\ i - 1 < Len(s) /\ (i - 1) + 1 = i
      BY <1>1, <2>2
    <3>2. s[(i - 1) + 1].at = End(s[i - 1])
      BY <3>1 DEF Chained
    <3>3. U!Weight(s[i]) = s[i].size + Header
      BY DEF U!Weight
    <3>4. size[i - 1] = End(s[i - 1]) - Header /\ size[i] = End(s[i]) - Header
      BY <3>1
    <3> HIDE DEF size
    <3> QED BY <1>1, <2>2, <3>1, <3>2, <3>3, <3>4
  <2> QED BY <2>1, <2>2
<1>3. size = [i \in 1 .. run |-> size[i]]
  OBVIOUS
<1> HIDE DEF size
<1>4. [i \in 1 .. run |-> size[i]] = [i \in 1 .. run |-> IF i = 1 THEN s[1].size ELSE size[i - 1] + U!Weight(s[i])]
  BY <1>2
<1> QED BY <1>3, <1>4

(* The list with its free front as one chunk.                              *)
Joined(s, run) == <<[at |-> 0, used |-> FALSE, size |-> End(s[run]) - Header]>> \o SubSeq(s, run + 1, Len(s))
(* The merge joins the chunks in front of the first in use.                *)
LEMMA MergedIs ==
  ASSUME NEW s, Chained(s)
  PROVE  \E run \in 0 .. Len(s) :
           /\ \A i \in 1 .. run : ~s[i].used
           /\ run < Len(s) => s[run + 1].used
           /\ U!Merged(s) = IF run = 0 THEN s ELSE Joined(s, run)
<1> DEFINE inUse == {i \in DOMAIN s : s[i].used}
           run == IF inUse = {} THEN Len(s) ELSE U!Min(inUse) - 1
           Rule(g) == g = [i \in 1 .. run |-> IF i = 1 THEN s[1].size ELSE g[i - 1] + U!Weight(s[i])]
           size == CHOOSE g : Rule(g)
<1>1. Len(s) \in Nat /\ DOMAIN s = 1 .. Len(s) /\ s \in Seq(Chunk) /\ \A i \in 1 .. Len(s) : s[i] \in Chunk
  BY DEF Chained
<1>2. U!Merged(s) = IF run = 0 THEN s ELSE <<[s[1] EXCEPT !.size = size[run]]>> \o SubSeq(s, run + 1, Len(s))
  BY Zenon DEF U!Merged
<1>3. run \in 0 .. Len(s) /\ (\A i \in 1 .. run : ~s[i].used) /\ (run < Len(s) => s[run + 1].used)
  <2>1. CASE inUse = {}
    <3>1. run = Len(s)
      BY <2>1
    <3> QED BY <1>1, <2>1, <3>1
  <2>2. CASE inUse # {}
    <3>1. U!Min(inUse) = Min(inUse)
      BY DEF U!Min, Min
    <3>2. inUse \subseteq Nat
      BY <1>1
    <3>3. Min(inUse) \in inUse /\ \A x \in inUse : Min(inUse) <= x
      BY <2>2, <3>2, Minimum
    <3>4. run = Min(inUse) - 1
      BY <2>2, <3>1
    <3> HIDE DEF run
    <3>5. Min(inUse) \in 1 .. Len(s) /\ s[Min(inUse)].used /\ \A i \in 1 .. Len(s) : s[i].used => Min(inUse) <= i
      BY <1>1, <3>3
    <3> HIDE DEF inUse
    <3> DEFINE n == Min(inUse)
    <3> HIDE DEF n
    <3>6. run = n - 1 /\ n \in 1 .. Len(s) /\ s[n].used /\ \A i \in 1 .. Len(s) : s[i].used => n <= i
      BY <3>4, <3>5 DEF n
    <3>7. run + 1 = n /\ run \in 0 .. Len(s)
      BY <1>1, <3>6
    <3> QED BY <1>1, <3>6, <3>7
  <2> QED BY <2>1, <2>2
<1> HIDE DEF run
<1>4. CASE run = 0
  BY <1>2, <1>3, <1>4
<1>5. CASE run # 0
  <2>1. run \in 1 .. Len(s) /\ 1 \in 1 .. run /\ 1 \in 1 .. Len(s)
    BY <1>1, <1>3, <1>5
  <2>2. \E g : Rule(g)
    BY <2>1, SumsExist
  <2>3. Rule(size)
    <3> HIDE DEF Rule
    <3> QED BY <2>2
  <2> HIDE DEF size
  <2>4. SizesSum(size, s, run)
    BY <2>3 DEF SizesSum
  <2>5. size[run] = End(s[run]) - Header
    <3>1. run \in 1 .. run
      BY <2>1
    <3> QED BY <2>1, <2>4, <3>1, SumsTo
  <2>6. [s[1] EXCEPT !.size = size[run]] = [at |-> 0, used |-> FALSE, size |-> size[run]]
    <3>1. s[1] \in Chunk /\ s[1].at = 0 /\ s[1].used = FALSE
      BY <1>1, <1>3, <2>1 DEF Chained, Chunk
    <3>2. ASSUME NEW c \in Chunk, NEW n
          PROVE  [c EXCEPT !.size = n] = [at |-> c.at, used |-> c.used, size |-> n]
      BY DEF Chunk
    <3>3. [s[1] EXCEPT !.size = size[run]] = [at |-> s[1].at, used |-> s[1].used, size |-> size[run]]
      BY ONLY <3>1, <3>2
    <3> QED BY ONLY <3>1, <3>3, Zenon
  <2>7. U!Merged(s) = Joined(s, run)
    BY <1>2, <1>5, <2>5, <2>6 DEF Joined
  <2> QED BY <1>3, <1>5, <2>7
<1> QED BY <1>4, <1>5

(* Its items.                                                              *)
LEMMA JoinedItems ==
  ASSUME NEW s, Chained(s), NEW run \in 1 .. Len(s)
  PROVE  /\ Joined(s, run) \in Seq(Chunk)
         /\ Len(Joined(s, run)) = Len(s) - run + 1
         /\ Joined(s, run)[1] = [at |-> 0, used |-> FALSE, size |-> End(s[run]) - Header]
         /\ \A i \in 2 .. Len(s) - run + 1 : Joined(s, run)[i] = s[run + i - 1]
<1> DEFINE e == [at |-> 0, used |-> FALSE, size |-> End(s[run]) - Header]
           one == <<e>>
           rest == SubSeq(s, run + 1, Len(s))
           t == one \o rest
<1>1. Len(s) \in Nat /\ run \in Nat /\ \A i \in 1 .. Len(s) : s[i] \in Chunk
  BY DEF Chained
<1>2. e \in Chunk
  <2>1. /\ s[run].at \in Nat /\ s[run].size \in Nat /\ Header \in Nat
        /\ End(s[run]) = s[run].at + Header + s[run].size
    BY Items
  <2>2. End(s[run]) - Header \in Nat
    BY ONLY <2>1
  <2> QED BY <2>2 DEF Chunk
<1> HIDE DEF e
<1>3. one \in Seq(Chunk) /\ Len(one) = 1 /\ one[1] = e
  BY <1>2
<1>4. rest \in Seq(Chunk) /\ Len(rest) = Len(s) - run /\ \A i \in 1 .. Len(s) - run : rest[i] = s[run + i]
  <2>1. \A i \in run + 1 .. Len(s) : s[i] \in Chunk
    BY <1>1
  <2>2. run + 1 \in Int /\ Len(s) \in Int
    BY <1>1
  <2>3. /\ rest \in Seq(Chunk) /\ Len(rest) = (IF run + 1 <= Len(s) THEN Len(s) - (run + 1) + 1 ELSE 0)
        /\ \A i \in 1 .. Len(s) - (run + 1) + 1 : rest[i] = s[(run + 1) + i - 1]
    BY ONLY <2>1, <2>2, SubSeqProperties DEF rest
  <2>4. Len(s) - (run + 1) + 1 = Len(s) - run /\ (run + 1 <= Len(s) \/ Len(s) - run = 0)
        /\ \A i \in 1 .. Len(s) - run : (run + 1) + i - 1 = run + i
    BY <1>1
  <2> QED BY ONLY <2>3, <2>4
<1> HIDE DEF one, rest
<1>5. t \in Seq(Chunk) /\ Len(t) = Len(s) - run + 1
      /\ \A i \in 1 .. Len(s) - run + 1 : t[i] = IF i <= 1 THEN one[i] ELSE rest[i - 1]
  <2>1. /\ t \in Seq(Chunk) /\ Len(t) = Len(one) + Len(rest)
        /\ \A i \in 1 .. Len(one) + Len(rest) : t[i] = IF i <= Len(one) THEN one[i] ELSE rest[i - Len(one)]
    BY ONLY <1>3, <1>4, ConcatProperties DEF t
  <2>2. Len(one) + Len(rest) = Len(s) - run + 1
    BY <1>1, <1>3, <1>4
  <2> QED BY ONLY <2>1, <2>2, <1>3
<1>6. Joined(s, run) = t
  BY DEF Joined, t, one, rest, e
<1> HIDE DEF t
<1>7. t[1] = e
  <2>1. 1 \in 1 .. Len(s) - run + 1
    BY <1>1
  <2> QED BY <1>3, <1>5, <2>1
<1>8. ASSUME NEW i \in 2 .. Len(s) - run + 1 PROVE t[i] = s[run + i - 1]
  <2>1. i \in 1 .. Len(s) - run + 1 /\ ~(i <= 1) /\ i - 1 \in 1 .. Len(s) - run /\ run + (i - 1) = run + i - 1
    BY <1>1
  <2>2. t[i] = rest[i - 1] /\ rest[i - 1] = s[run + (i - 1)]
    BY ONLY <1>4, <1>5, <2>1
  <2> QED BY ONLY <2>1, <2>2
<1> QED BY ONLY <1>5, <1>6, <1>7, <1>8 DEF e

(* It tiles the heap, and the same chunks are in use.                      *)
LEMMA JoinedChained ==
  ASSUME NEW s, Chained(s), NEW run \in 1 .. Len(s), \A i \in 1 .. run : ~s[i].used
  PROVE  Chained(Joined(s, run)) /\ Taken(Joined(s, run)) = Taken(s)
<1> DEFINE e == [at |-> 0, used |-> FALSE, size |-> End(s[run]) - Header]
           t == Joined(s, run)
<1>1. /\ Len(s) \in Nat /\ run \in Nat /\ Header \in Nat
      /\ \A i \in 1 .. Len(s) : End(s[i]) \in Nat
  BY Items
<1>2. /\ t \in Seq(Chunk) /\ Len(t) = Len(s) - run + 1 /\ t[1] = e
      /\ \A i \in 2 .. Len(s) - run + 1 : t[i] = s[run + i - 1]
  BY JoinedItems
<1>3. e.at = 0 /\ ~e.used /\ End(e) = End(s[run])
  BY <1>1 DEF End
<1> HIDE DEF t, e
<1>4. ASSUME NEW i \in 1 .. Len(t) PROVE End(t[i]) = End(s[run + i - 1]) /\ run + i - 1 \in 1 .. Len(s)
  <2>1. CASE i = 1
    <3>1. run + i - 1 = run
      BY <1>1, <2>1
    <3> QED BY <1>2, <1>3, <2>1, <3>1
  <2>2. CASE i # 1
    <3>1. i \in 2 .. Len(s) - run + 1 /\ run + i - 1 \in 1 .. Len(s)
      BY <1>1, <1>2, <2>2
    <3> QED BY <1>2, <3>1
  <2> QED BY <2>1, <2>2
<1>5. ASSUME NEW i \in 1 .. Len(t), i < Len(t) PROVE t[i + 1].at = End(t[i])
  <2>1. /\ i + 1 \in 2 .. Len(s) - run + 1 /\ run + (i + 1) - 1 = (run + i - 1) + 1
        /\ run + i - 1 \in 1 .. Len(s) /\ run + i - 1 < Len(s)
    BY <1>1, <1>2, <1>5
  <2>2. t[i + 1] = s[(run + i - 1) + 1]
    BY ONLY <1>2, <2>1
  <2>3. s[(run + i - 1) + 1].at = End(s[run + i - 1])
    BY <2>1 DEF Chained
  <2> QED BY <1>4, <2>2, <2>3
<1>6. End(t[Len(t)]) = Pool + Header
  <2>1. Len(t) \in 1 .. Len(t) /\ run + Len(t) - 1 = Len(s)
    BY <1>1, <1>2
  <2>2. End(t[Len(t)]) = End(s[Len(s)])
    BY <1>4, <2>1
  <2> QED BY <2>2 DEF Chained
<1>7. Chained(t)
  <2>1. Len(t) >= 1 /\ t[1].at = 0
    BY <1>1, <1>2, <1>3
  <2> QED BY <1>2, <1>5, <1>6, <2>1 DEF Chained
<1>8. Taken(t) = Taken(s)
  <2>1. ASSUME NEW c \in Taken(t) PROVE c \in Taken(s)
    <3>1. PICK i \in 1 .. Len(t) : c = t[i] /\ t[i].used
      BY DEF Taken
    <3>2. i # 1
      BY <1>2, <1>3, <3>1
    <3>3. i \in 2 .. Len(s) - run + 1 /\ run + i - 1 \in 1 .. Len(s)
      BY <1>1, <1>2, <3>2
    <3>4. c = s[run + i - 1]
      BY <1>2, <3>1, <3>3
    <3> QED BY <3>1, <3>3, <3>4 DEF Taken
  <2>2. ASSUME NEW c \in Taken(s) PROVE c \in Taken(t)
    <3>1. PICK i \in 1 .. Len(s) : c = s[i] /\ s[i].used
      BY DEF Taken
    <3>2. i \in Nat /\ i <= Len(s) /\ i > run
      BY <1>1, <3>1
    <3> DEFINE j == i - run + 1
    <3>3. j \in 2 .. Len(s) - run + 1 /\ j \in 1 .. Len(t) /\ run + j - 1 = i
      <4>1. Len(s) \in Nat /\ run \in Nat /\ Len(t) = Len(s) - run + 1
        BY <1>1, <1>2
      <4> QED BY ONLY <3>2, <4>1
    <3> HIDE DEF j
    <3>4. t[j] = s[i]
      BY <1>2, <3>3
    <3> QED BY <3>1, <3>3, <3>4 DEF Taken
  <2> QED BY <2>1, <2>2
<1> QED BY <1>7, <1>8 DEF t

(* The chunks after a merge: in use are the same; without any in use there *)
(* is one.                                                                 *)
LEMMA MergedKeeps ==
  ASSUME NEW s, Chained(s)
  PROVE  /\ Chained(U!Merged(s)) /\ Taken(U!Merged(s)) = Taken(s)
         /\ Taken(s) = {} => Len(U!Merged(s)) = 1
<1>1. PICK run \in 0 .. Len(s) :
        /\ \A i \in 1 .. run : ~s[i].used
        /\ run < Len(s) => s[run + 1].used
        /\ U!Merged(s) = IF run = 0 THEN s ELSE Joined(s, run)
  BY MergedIs
<1>2. Len(s) \in Nat /\ Len(s) >= 1
  BY DEF Chained
<1>3. run < Len(s) => Taken(s) # {}
  <2>1. run < Len(s) => run + 1 \in 1 .. Len(s) /\ s[run + 1].used
    BY <1>1, <1>2
  <2> QED BY <2>1 DEF Taken
<1>4. CASE run = 0
  <2>1. U!Merged(s) = s /\ run < Len(s)
    BY <1>1, <1>2, <1>4
  <2> QED BY <1>3, <2>1
<1>5. CASE run # 0
  <2>1. run \in 1 .. Len(s) /\ U!Merged(s) = Joined(s, run)
    BY <1>1, <1>2, <1>5
  <2>2. Chained(Joined(s, run)) /\ Taken(Joined(s, run)) = Taken(s) /\ Len(Joined(s, run)) = Len(s) - run + 1
    BY <1>1, <2>1, JoinedChained, JoinedItems
  <2>3. run = Len(s) => Len(s) - run + 1 = 1
    BY <1>2
  <2>4. run < Len(s) \/ run = Len(s)
    BY <1>1, <1>2
  <2> QED BY <1>3, <2>1, <2>2, <2>3, <2>4
<1> QED BY <1>4, <1>5

(* The chunk a pointer stands for.                                         *)
LEMMA IndexIs ==
  ASSUME NEW h \in AHeap, Chained(h.chunks), NEW c \in Taken(h.chunks)
  PROVE  U!IndexOf(h, c.at + Header) \in 1 .. Len(h.chunks) /\ h.chunks[U!IndexOf(h, c.at + Header)] = c
<1> DEFINE s == h.chunks
           ptr == c.at + Header
           k == U!IndexOf(h, ptr)
<1>1. s \in Seq(Chunk) /\ Len(s) \in Nat /\ DOMAIN s = 1 .. Len(s) /\ \A i \in 1 .. Len(s) : s[i] \in Chunk
  BY DEF AHeap
<1>2. c \in Chunk /\ c.at \in Nat /\ Header \in Nat \ {0}
  BY HeapAssumption, TakenApart DEF Chunk
<1>3. PICK i \in 1 .. Len(s) : c = s[i]
  BY DEF Taken
<1>4. k = CHOOSE j \in DOMAIN s : U!Pointer(s[j]) = ptr
  BY DEF U!IndexOf
<1>5. \A j \in 1 .. Len(s) : U!Pointer(s[j]) = ptr <=> s[j].at = c.at
  <2> SUFFICES ASSUME NEW j \in 1 .. Len(s) PROVE U!Pointer(s[j]) = ptr <=> s[j].at = c.at
    OBVIOUS
  <2>1. s[j].at \in Nat
    BY <1>1 DEF Chunk
  <2>2. U!Pointer(s[j]) = s[j].at + Header
    BY DEF U!Pointer
  <2> QED BY <1>2, <2>1, <2>2
<1>6. \A j \in 1 .. Len(s) : U!Pointer(s[j]) = ptr <=> j = i
  BY <1>3, <1>5, ChunksApart
<1> HIDE DEF k, ptr
<1>7. k \in DOMAIN s /\ U!Pointer(s[k]) = ptr
  BY <1>1, <1>4, <1>6
<1> QED BY <1>1, <1>3, <1>6, <1>7 DEF k, ptr

(* What a block that has been given back leaves: the chunks in use without *)
(* its own; what they hold is as before.                                   *)
Releases(h, t, c) ==
  /\ t \in AHeap /\ Chained(t.chunks) /\ Taken(t.chunks) = Taken(h.chunks) \ {c}
  /\ Taken(t.chunks) = {} => Len(t.chunks) = 1
  /\ \A d \in Taken(t.chunks) : \A a \in Block(d) : t.mem[a] = h.mem[a]

(* free() leaves that of any block in use.                                 *)
LEMMA FreeReleases ==
  ASSUME NEW h \in AHeap, Chained(h.chunks), NEW c \in Taken(h.chunks)
  PROVE  Releases(h, U!free(h, c.at + Header), c)
<1> DEFINE s == h.chunks
           ptr == c.at + Header
           k == U!IndexOf(h, ptr)
           t == U!Merged(Marked(s, k, FALSE))
           mem == U!Forgotten(t, h.mem)
           r == U!free(h, ptr)
<1>1. h.mem \in [Cells -> Int] /\ s \in Seq(Chunk) /\ Len(s) \in Nat /\ DOMAIN s = 1 .. Len(s)
      /\ \A i \in 1 .. Len(s) : s[i] \in Chunk
  BY DEF AHeap
<1>2. c \in Chunk /\ c.at \in Nat /\ ptr \in Nat /\ ptr # 0 /\ Header \in Nat \ {0}
  BY HeapAssumption, TakenApart DEF Chunk
<1>4. k \in 1 .. Len(s) /\ s[k] = c
  BY IndexIs
<1>5. r = [chunks |-> t, mem |-> mem]
  <2>1. r = IF ptr = U!NULL THEN h ELSE [chunks |-> t, mem |-> mem]
    BY Zenon DEF U!free, Marked
  <2> QED BY <1>2, <2>1 DEF U!NULL
<1> HIDE DEF k, ptr, r
<1>6. Chained(t) /\ Taken(t) = Taken(s) \ {c} /\ (Taken(t) = {} => Len(t) = 1)
  <2>1. Chained(Marked(s, k, FALSE)) /\ Taken(Marked(s, k, FALSE)) = Taken(s) \ {c}
    BY <1>4, FALSE \in BOOLEAN, MarkedItems, MarkedTaken
  <2> QED BY <2>1, MergedKeeps
<1> HIDE DEF t
<1>7. t \in Seq(Chunk) /\ Len(t) \in Nat /\ DOMAIN t = 1 .. Len(t)
  BY <1>6 DEF Chained
<1>8. mem \in [Cells -> Int]
  <2> DEFINE Kept(a) == \E j \in DOMAIN t : a >= t[j].at /\ a < (IF t[j].used THEN U!Pointer(t[j]) + t[j].size ELSE U!Pointer(t[j]))
  <2>1. mem = [a \in Cells |-> IF Kept(a) THEN h.mem[a] ELSE U!Garbage]
    BY <1>1 DEF U!Forgotten
  <2> HIDE DEF Kept
  <2> QED BY <1>1, <2>1 DEF U!Garbage
<1>9. ASSUME NEW d \in Taken(t), NEW a \in Block(d) PROVE mem[a] = h.mem[a]
  <2>1. PICK j \in 1 .. Len(t) : d = t[j] /\ t[j].used
    BY DEF Taken
  <2>2. d \in Chunk /\ d.at \in Nat /\ d.size \in Nat /\ End(d) <= Pool + Header /\ Pool \in Nat
    BY <1>6, TakenApart, HeapAssumption DEF Chunk
  <2>3. U!Pointer(d) + d.size = End(d) /\ End(d) \in Nat
    BY <1>2, <2>2 DEF U!Pointer, End
  <2>4. a \in Cells /\ a >= d.at /\ a < End(d)
    BY <1>2, <2>2, <2>3 DEF Block, Cells
  <2>5. a >= t[j].at /\ a < (IF t[j].used THEN U!Pointer(t[j]) + t[j].size ELSE U!Pointer(t[j]))
    BY <2>1, <2>3, <2>4
  <2>6. mem[a] = IF \E z \in DOMAIN t : a >= t[z].at /\ a < (IF t[z].used THEN U!Pointer(t[z]) + t[z].size ELSE U!Pointer(t[z]))
                 THEN h.mem[a] ELSE U!Garbage
    BY <1>1, <2>4 DEF U!Forgotten
  <2> QED BY <1>7, <2>5, <2>6
<1> HIDE DEF mem
<1>10. r \in AHeap /\ r.chunks = t /\ r.mem = mem
  BY <1>5, <1>7, <1>8 DEF AHeap
<1>11. Releases(h, r, c)
  BY <1>6, <1>9, <1>10 DEF Releases
<1> QED BY <1>11 DEF r, ptr

(* What a store leaves, and what a copy that runs upwards has moved.       *)
StoredAs(new, mem, at, cells, n) ==
  /\ new \in [Cells -> Int]
  /\ \A x \in Cells : /\ x < at \/ x >= at + n => new[x] = mem[x]
                      /\ x >= at /\ x < at + n => new[x] = cells[x - at + 1]
(* The units of a store, and no other, are what was stored.                *)
LEMMA StoredCells ==
  ASSUME NEW mem \in [Cells -> Int], NEW at \in Nat, NEW cells \in Seq(Int)
  PROVE  StoredAs(U!Stored(mem, at, cells), mem, at, cells, Len(cells))
<1>1. DOMAIN cells = 1 .. Len(cells) /\ Len(cells) \in Nat /\ \A i \in 1 .. Len(cells) : cells[i] \in Int
  OBVIOUS
<1> DEFINE r == U!Stored(mem, at, cells)
           n == Len(cells)
<1>2. r = [x \in Cells |-> IF x - at + 1 \in 1 .. n THEN cells[x - at + 1] ELSE mem[x]]
  BY <1>1 DEF U!Stored
<1>3. \A x \in Cells : x \in Int
  BY HeapAssumption DEF Cells
<1> HIDE DEF r, n
<1>4. n \in Nat /\ \A i \in 1 .. n : cells[i] \in Int
  BY <1>1 DEF n
<1>5. r \in [Cells -> Int]
  BY <1>2, <1>4
<1>6. ASSUME NEW x \in Cells, x < at \/ x >= at + n PROVE r[x] = mem[x]
  <2>1. ~(x - at + 1 \in 1 .. n)
    BY <1>3, <1>4, <1>6
  <2> QED BY <1>2, <2>1
<1>7. ASSUME NEW x \in Cells, x >= at, x < at + n PROVE r[x] = cells[x - at + 1]
  <2>1. x - at + 1 \in 1 .. n
    BY <1>3, <1>4, <1>7
  <2> QED BY <1>2, <2>1
<1> QED BY <1>5, <1>6, <1>7 DEF r, n, StoredAs

CopyRule(copied, mem, to, from, n) ==
  copied = [i \in 0 .. n - 1 |-> IF from + i - to \in 0 .. i - 1 THEN copied[from + i - to] ELSE U!Loaded(mem, from + i)]
Copies(copied, mem, to, from, n) ==
  \A i \in 0 .. n - 1 : copied[i] = IF from + i - to \in 0 .. i - 1 THEN copied[from + i - to] ELSE U!Loaded(mem, from + i)

(* The copy exists: where it overtakes itself it repeats what lies between *)
(* the two blocks.                                                         *)
LEMMA CopyExists ==
  ASSUME NEW mem \in [Cells -> Int], NEW to \in Nat, NEW from \in Nat, NEW n \in Nat \ {0}
  PROVE  \E copied : CopyRule(copied, mem, to, from, n)
<1> DEFINE d == to - from
           copied == [i \in 0 .. n - 1 |-> IF d > 0 THEN U!Loaded(mem, from + (i % d)) ELSE U!Loaded(mem, from + i)]
<1>1. ASSUME NEW i \in 0 .. n - 1
      PROVE  copied[i] = IF from + i - to \in 0 .. i - 1 THEN copied[from + i - to] ELSE U!Loaded(mem, from + i)
  <2>1. i \in Nat /\ d \in Int /\ from + i - to = i - d
    OBVIOUS
  <2>2. CASE from + i - to \in 0 .. i - 1
    <3>1. i - d \in 0 .. i - 1 /\ d > 0 /\ i - d \in 0 .. n - 1 /\ d \in Nat /\ i - d \in Nat
      BY <2>1, <2>2
    <3>2. (i - d) % d = i % d
      <4> HIDE DEF d
      <4> DEFINE q == (i - d) \div d
                 r == (i - d) % d
      <4>1. i - d = d * q + r /\ q \in Nat /\ r \in Int /\ 0 <= r /\ r < d
        BY <3>1
      <4> HIDE DEF q, r
      <4>2. i = d * (q + 1) + r
        BY <2>1, <3>1, <4>1
      <4>3. q + 1 \in Nat
        BY <4>1
      <4>4. r = i % d
        BY <2>1, <3>1, <4>1, <4>2, <4>3, Remainder
      <4> QED BY <4>4 DEF r
    <3>3. copied[i] = U!Loaded(mem, from + (i % d)) /\ copied[i - d] = U!Loaded(mem, from + ((i - d) % d))
      BY <3>1
    <3> HIDE DEF copied, d
    <3> QED BY <2>1, <2>2, <3>2, <3>3
  <2>3. CASE ~(from + i - to \in 0 .. i - 1)
    <3>1. d > 0 => i < d
      BY <2>1, <2>3
    <3>2. d > 0 => i % d = i
      BY <2>1, <3>1
    <3> QED BY <2>3, <3>2
  <2> QED BY <2>2, <2>3
<1>2. copied = [i \in 0 .. n - 1 |-> copied[i]]
  OBVIOUS
<1> HIDE DEF copied
<1>3. [i \in 0 .. n - 1 |-> copied[i]] = [i \in 0 .. n - 1 |-> IF from + i - to \in 0 .. i - 1 THEN copied[from + i - to] ELSE U!Loaded(mem, from + i)]
  BY ONLY <1>1
<1>4. CopyRule(copied, mem, to, from, n)
  BY ONLY <1>2, <1>3 DEF CopyRule
<1> QED BY ONLY <1>4

Shift(copied, n) == [i \in 1 .. n |-> copied[i - 1]]
(* The copy stores such units.                                             *)
LEMMA MovedIs ==
  ASSUME NEW mem \in [Cells -> Int], NEW to \in Nat, NEW from \in Nat, NEW n \in Nat \ {0}
  PROVE  \E copied : Copies(copied, mem, to, from, n) /\ U!Moved(mem, to, from, n) = U!Stored(mem, to, Shift(copied, n))
<1> DEFINE copied == CHOOSE g : CopyRule(g, mem, to, from, n)
<1>1. U!Moved(mem, to, from, n) = U!Stored(mem, to, Shift(copied, n))
  BY Zenon DEF U!Moved, Shift, CopyRule
<1>2. \E g : CopyRule(g, mem, to, from, n)
  BY CopyExists
<1>3. CopyRule(copied, mem, to, from, n)
  BY <1>2
<1> HIDE DEF copied
<1>4. Copies(copied, mem, to, from, n)
  BY <1>3 DEF Copies, CopyRule
<1> QED BY <1>1, <1>4

MovedAs(new, mem, to, from, n, kept) ==
  /\ new \in [Cells -> Int]
  /\ \A x \in Cells : x < to \/ x >= to + n => new[x] = mem[x]
  /\ to + n <= Pool => \A i \in 1 .. kept : new[to + (i - 1)] = mem[from + (i - 1)]

(* The first units a copy moved, if none of them is in the new block; the  *)
(* units around the new block stay.                                        *)
LEMMA MovedCells ==
  ASSUME NEW mem \in [Cells -> Int], NEW to \in Nat, NEW from \in Nat, NEW n \in Nat \ {0},
         NEW kept \in 0 .. n, kept + from <= to \/ to + n <= from, kept + from <= Pool
  PROVE  MovedAs(U!Moved(mem, to, from, n), mem, to, from, n, kept)
<1>1. PICK copied : Copies(copied, mem, to, from, n) /\ U!Moved(mem, to, from, n) = U!Stored(mem, to, Shift(copied, n))
  BY MovedIs
<1> DEFINE cells == Shift(copied, n)
           r == U!Stored(mem, to, cells)
<1>2. \A a \in Int : U!Loaded(mem, a) \in Int
  BY DEF U!Loaded, U!Garbage
<1>3. \A i \in 0 .. n - 1 : copied[i] \in Int
  <2> DEFINE d == to - from
             T == {i \in 0 .. n - 1 : \A j \in 0 .. i : copied[j] \in Int}
  <2>1. \A i \in 0 .. n - 1 : copied[i] = IF from + i - to \in 0 .. i - 1 THEN copied[from + i - to] ELSE U!Loaded(mem, from + i)
    BY <1>1 DEF Copies
  <2>2. 0 \in T
    <3>1. 0 \in 0 .. n - 1 /\ ~(from + 0 - to \in 0 .. 0 - 1) /\ from + 0 \in Int
      OBVIOUS
    <3>2. copied[0] \in Int
      BY <1>2, <2>1, <3>1
    <3>3. \A j \in 0 .. 0 : j = 0
      OBVIOUS
    <3> QED BY <3>1, <3>2, <3>3
  <2>3. ASSUME NEW i \in 0 .. n - 1, i < n - 1, i \in T PROVE i + 1 \in T
    <3>1. i + 1 \in 0 .. n - 1 /\ (i + 1) - 1 = i /\ from + (i + 1) \in Int
      BY <2>3
    <3>2. copied[i + 1] \in Int
      <4>1. CASE from + (i + 1) - to \in 0 .. (i + 1) - 1
        <5>1. from + (i + 1) - to \in 0 .. i
          BY <3>1, <4>1
        <5>2. copied[from + (i + 1) - to] \in Int
          BY <2>3, <5>1
        <5> QED BY <2>1, <3>1, <4>1, <5>2
      <4>2. CASE ~(from + (i + 1) - to \in 0 .. (i + 1) - 1)
        BY <1>2, <2>1, <3>1, <4>2
      <4> QED BY <4>1, <4>2
    <3>3. \A j \in 0 .. i + 1 : j = i + 1 \/ j \in 0 .. i
      OBVIOUS
    <3> QED BY <2>3, <3>1, <3>2, <3>3
  <2> HIDE DEF T
  <2>4. 0 \in Int /\ n - 1 \in Int
    OBVIOUS
  <2>5. \A i \in 0 .. n - 1 : i \in T
    BY ONLY <2>2, <2>3, <2>4, Induction
  <2> QED BY <2>5 DEF T
<1>4. cells \in Seq(Int) /\ Len(cells) = n /\ \A i \in 1 .. n : cells[i] = copied[i - 1]
  <2>1. \A i \in 1 .. n : copied[i - 1] \in Int
    BY <1>3
  <2> QED BY <2>1 DEF Shift
<1> HIDE DEF cells
<1>5. /\ r \in [Cells -> Int]
      /\ \A x \in Cells : /\ x < to \/ x >= to + n => r[x] = mem[x]
                          /\ x >= to /\ x < to + n => r[x] = cells[x - to + 1]
  <2>1. StoredAs(U!Stored(mem, to, cells), mem, to, cells, n)
    BY <1>4, StoredCells
  <2> QED BY <2>1 DEF StoredAs
<1> HIDE DEF r
<1>6. ASSUME to + n <= Pool, NEW i \in 1 .. kept PROVE r[to + (i - 1)] = mem[from + (i - 1)]
  <2> DEFINE j == i - 1
  <2>1. j \in Nat /\ j < kept /\ j \in 0 .. n - 1 /\ j + 1 \in 1 .. n /\ (j + 1) - 1 = j /\ kept \in Nat /\ kept <= n
    OBVIOUS
  <2> HIDE DEF j
  <2>2. to + j \in Cells /\ to + j >= to /\ to + j < to + n /\ (to + j) - to + 1 = j + 1 /\ from + j \in Cells
    BY <1>6, <2>1, HeapAssumption DEF Cells
  <2>3. r[to + j] = copied[j]
    <3>1. r[to + j] = cells[j + 1]
      BY ONLY <1>5, <2>2
    <3>2. cells[j + 1] = copied[j]
      BY ONLY <1>4, <2>1
    <3> QED BY <3>1, <3>2
  <2>4. ~(from + j - to \in 0 .. j - 1)
    BY <2>1
  <2>5. copied[j] = U!Loaded(mem, from + j)
    BY <1>1, <2>1, <2>4 DEF Copies
  <2>6. U!Loaded(mem, from + j) = mem[from + j]
    BY <2>2 DEF U!Loaded
  <2> QED BY <2>3, <2>5, <2>6 DEF j
<1>7. U!Moved(mem, to, from, n) = r
  BY <1>1 DEF r, cells
<1> QED BY <1>5, <1>6, <1>7 DEF MovedAs

(* What the chunk c holds of what its holder relies on.                    *)
Good(mem, block, c) ==
  /\ block \in Seq(Int) /\ Len(block) <= c.size
  /\ \A i \in 1 .. Len(block) : c.at + Header + (i - 1) < Pool => mem[c.at + Header + (i - 1)] = block[i]
\* Around the block of c nothing has changed.
Around(new, mem, c) == \A a \in Cells : a < c.at + Header \/ a >= End(c) => new[a] = mem[a]
HeapKept(h, held) ==
  /\ h \in AHeap /\ Chained(h.chunks) /\ (Taken(h.chunks) = {} => Len(h.chunks) = 1)
  /\ DOMAIN held = {c.at + Header : c \in Taken(h.chunks)}
  /\ \A c \in Taken(h.chunks) : Good(h.mem, held[c.at + Header], c)

(* What is in a block holds as long as its units do.                       *)
LEMMA GoodKept ==
  ASSUME NEW c \in Chunk, NEW mem, NEW new, NEW block, Good(mem, block, c), \A a \in Block(c) : new[a] = mem[a]
  PROVE  Good(new, block, c)
<1>1. c.at \in Nat /\ c.size \in Nat /\ Header \in Nat /\ End(c) = c.at + Header + c.size
  BY HeapAssumption DEF Chunk, End
<1>2. block \in Seq(Int) /\ Len(block) \in Nat /\ Len(block) <= c.size
  BY DEF Good
<1>3. ASSUME NEW i \in 1 .. Len(block), c.at + Header + (i - 1) < Pool PROVE c.at + Header + (i - 1) \in Block(c)
  <2> DEFINE start == c.at + Header
             x == start + (i - 1)
  <2>1. start \in Nat /\ End(c) = start + c.size
    BY <1>1
  <2> HIDE DEF start
  <2>2. i \in Nat /\ 1 <= i /\ i <= c.size
    BY <1>1, <1>2
  <2>3. x < Pool
    BY <1>3 DEF start
  <2>4. x \in Int /\ 0 <= x /\ start <= x /\ x < End(c) /\ x < Pool
    BY <1>1, <2>1, <2>2, <2>3
  <2> HIDE DEF x
  <2>5. x \in Cells
    BY <2>4, HeapAssumption DEF Cells
  <2>6. x \in Block(c)
    BY <2>4, <2>5 DEF Block, start
  <2> QED BY <2>6 DEF x, start
<1> QED BY <1>3 DEF Good

(* A pointer stands for one chunk in use.                                  *)
LEMMA Pointers ==
  ASSUME NEW s, Chained(s)
  PROVE  \A c, d \in Taken(s) : c.at + Header = d.at + Header => c = d
<1>1. \A c \in Taken(s) : c.at \in Nat
  BY TakenApart DEF Chunk
<1>2. ASSUME NEW c \in Taken(s), NEW d \in Taken(s), c.at + Header = d.at + Header PROVE c = d
  <2>1. c.at = d.at
    BY <1>1, <1>2, HeapAssumption
  <2>2. PICK i \in 1 .. Len(s) : c = s[i]
    BY DEF Taken
  <2>3. PICK j \in 1 .. Len(s) : d = s[j]
    BY DEF Taken
  <2> QED BY <2>1, <2>2, <2>3, ChunksApart
<1> QED BY <1>2

(* A new block, with nothing in it yet.                                    *)
LEMMA AllocatedKept ==
  ASSUME NEW h, NEW held, HeapKept(h, held), NEW r, NEW c, NEW n, Allocates(h, r, c, n)
  PROVE  HeapKept(r.h, Entered(held, r.ptr, << >>)) /\ c \in Taken(r.h.chunks) /\ r.ptr \notin DOMAIN held
<1> DEFINE new == Entered(held, r.ptr, << >>)
<1>1. /\ r.h \in AHeap /\ Chained(r.h.chunks) /\ Taken(r.h.chunks) = Taken(h.chunks) \cup {c}
      /\ c \in Chunk /\ r.ptr = c.at + Header /\ c \in Taken(r.h.chunks)
      /\ \A d \in Taken(h.chunks) : End(c) <= d.at \/ End(d) <= c.at
      /\ \A d \in Taken(h.chunks) : \A a \in Block(d) : r.h.mem[a] = h.mem[a]
  BY DEF Allocates
<1>2. /\ Chained(h.chunks) /\ DOMAIN held = {d.at + Header : d \in Taken(h.chunks)}
      /\ \A d \in Taken(h.chunks) : d \in Chunk /\ Good(h.mem, held[d.at + Header], d)
  BY TakenApart DEF HeapKept
<1>3. \A d \in Chunk : d.at \in Nat /\ End(d) \in Nat /\ d.at < End(d) /\ d.size \in Nat
  BY HeapAssumption DEF Chunk, End
<1>4. c \notin Taken(h.chunks)
  BY <1>1, <1>3
<1>5. r.ptr \notin DOMAIN held
  <2> SUFFICES ASSUME NEW d \in Taken(h.chunks), d.at + Header = r.ptr PROVE FALSE
    BY <1>2
  <2>1. d \in Taken(r.h.chunks) /\ d.at + Header = c.at + Header
    BY <1>1
  <2> QED BY <1>1, <1>4, <2>1, Pointers
<1>6. DOMAIN new = {d.at + Header : d \in Taken(r.h.chunks)}
  BY <1>1, <1>2 DEF Entered
<1>7. ASSUME NEW d \in Taken(r.h.chunks) PROVE Good(r.h.mem, new[d.at + Header], d)
  <2>1. CASE d = c
    <3>1. new[d.at + Header] = << >>
      BY <1>1, <2>1 DEF Entered
    <3>2. << >> \in Seq(Int) /\ Len(<< >>) = 0 /\ 0 <= c.size /\ ~(\E i \in 1 .. 0 : TRUE)
      BY <1>1, <1>3
    <3> QED BY <2>1, <3>1, <3>2 DEF Good
  <2>2. CASE d \in Taken(h.chunks)
    <3>1. d.at + Header \in DOMAIN held
      BY <1>2, <2>2
    <3>2. new[d.at + Header] = held[d.at + Header]
      BY <1>5, <3>1 DEF Entered
    <3> QED BY <1>1, <1>2, <2>2, <3>2, GoodKept
  <2> QED BY <1>1, <2>1, <2>2
<1>8. Taken(r.h.chunks) # {}
  BY <1>1
<1> HIDE DEF new
<1>9. HeapKept(r.h, new)
  BY <1>1, <1>6, <1>7, <1>8 DEF HeapKept
<1> QED BY <1>1, <1>5, <1>9 DEF new

(* A store within a block, and what its holder relies on from then on.     *)
LEMMA RefilledKept ==
  ASSUME NEW h, NEW held, HeapKept(h, held), NEW c \in Taken(h.chunks), NEW t \in AHeap, t.chunks = h.chunks,
         NEW block, Good(t.mem, block, c),
         Around(t.mem, h.mem, c)
  PROVE  HeapKept(t, Entered(held, c.at + Header, block))
<1> DEFINE new == Entered(held, c.at + Header, block)
<1>1. /\ Chained(h.chunks) /\ (Taken(h.chunks) = {} => Len(h.chunks) = 1)
      /\ DOMAIN held = {d.at + Header : d \in Taken(h.chunks)}
      /\ \A d \in Taken(h.chunks) : d \in Chunk /\ Apart(c, d) /\ End(d) <= Pool + Header /\ Good(h.mem, held[d.at + Header], d)
  BY TakenApart DEF HeapKept
<1>2. \A d \in Chunk : d.at \in Nat /\ End(d) \in Nat /\ d.at + Header <= End(d)
  BY HeapAssumption DEF Chunk, End
<1>3. DOMAIN new = {d.at + Header : d \in Taken(h.chunks)}
  BY <1>1 DEF Entered
<1>4. ASSUME NEW d \in Taken(h.chunks) PROVE Good(t.mem, new[d.at + Header], d)
  <2>1. CASE d = c
    <3>1. new[d.at + Header] = block
      BY <2>1 DEF Entered
    <3> QED BY <2>1, <3>1
  <2>2. CASE d # c
    <3>1. d.at + Header # c.at + Header /\ d.at + Header \in DOMAIN held
      BY <1>1, <2>2, Pointers
    <3>2. new[d.at + Header] = held[d.at + Header]
      BY <3>1 DEF Entered
    <3>3. ASSUME NEW a \in Block(d) PROVE t.mem[a] = h.mem[a]
      <4>1. /\ d.at \in Nat /\ End(d) \in Nat /\ c.at \in Nat /\ End(c) \in Nat /\ End(d) <= Pool + Header
            /\ (End(c) <= d.at \/ End(d) <= c.at) /\ Header \in Nat /\ Pool \in Nat
        BY <1>1, <1>2, <2>2, HeapAssumption DEF Apart
      <4>2. a \in Cells /\ a \in Int /\ d.at + Header <= a /\ a < End(d)
        BY <4>1 DEF Block, Cells
      <4>3. a \in Cells /\ (a < c.at + Header \/ a >= End(c))
        BY ONLY <4>1, <4>2
      <4> QED BY <4>3 DEF Around
    <3> QED BY <1>1, <3>2, <3>3, GoodKept
  <2> QED BY <2>1, <2>2
<1> HIDE DEF new
<1>5. HeapKept(t, new)
  BY <1>1, <1>3, <1>4 DEF HeapKept
<1> QED BY <1>5 DEF new

(* A block given back.                                                     *)
LEMMA ReleasedKept ==
  ASSUME NEW h, NEW held, HeapKept(h, held), NEW c \in Taken(h.chunks), NEW t, Releases(h, t, c)
  PROVE  HeapKept(t, Dropped(held, c.at + Header))
<1> DEFINE new == Dropped(held, c.at + Header)
<1>1. /\ Chained(h.chunks) /\ DOMAIN held = {d.at + Header : d \in Taken(h.chunks)}
      /\ \A d \in Taken(h.chunks) : d \in Chunk /\ Good(h.mem, held[d.at + Header], d)
  BY TakenApart DEF HeapKept
<1>2. /\ t \in AHeap /\ Chained(t.chunks) /\ Taken(t.chunks) = Taken(h.chunks) \ {c}
      /\ (Taken(t.chunks) = {} => Len(t.chunks) = 1)
      /\ \A d \in Taken(t.chunks) : \A a \in Block(d) : t.mem[a] = h.mem[a]
  BY DEF Releases
<1>3. \A d \in Taken(h.chunks) : d.at + Header = c.at + Header => d = c
  BY <1>1, Pointers
<1>4. DOMAIN new = {d.at + Header : d \in Taken(t.chunks)}
  <2>1. DOMAIN new = {d.at + Header : d \in Taken(h.chunks)} \ {c.at + Header}
    BY <1>1 DEF Dropped
  <2> HIDE DEF new
  <2> QED BY <1>2, <1>3, <2>1
<1>5. ASSUME NEW d \in Taken(t.chunks) PROVE Good(t.mem, new[d.at + Header], d)
  <2>1. d \in Taken(h.chunks) /\ d # c /\ d.at + Header # c.at + Header /\ d.at + Header \in DOMAIN held
    BY <1>1, <1>2, <1>3
  <2>2. new[d.at + Header] = held[d.at + Header]
    BY <2>1 DEF Dropped
  <2> QED BY <1>1, <1>2, <2>1, <2>2, GoodKept
<1> HIDE DEF new
<1>6. HeapKept(t, new)
  BY <1>2, <1>4, <1>5 DEF HeapKept
<1> QED BY <1>6 DEF new

(* A store into a heap.                                                    *)
LEMMA FilledHeap ==
  ASSUME NEW h \in AHeap, NEW at \in Nat, NEW cells \in Seq(Int)
  PROVE  /\ Filled(h, at, cells) \in AHeap /\ Filled(h, at, cells).chunks = h.chunks
         /\ StoredAs(Filled(h, at, cells).mem, h.mem, at, cells, Len(cells))
<1> DEFINE mem == U!Stored(h.mem, at, cells)
<1>1. h.chunks \in Seq(Chunk) /\ h.mem \in [Cells -> Int]
  BY DEF AHeap
<1>2. StoredAs(mem, h.mem, at, cells, Len(cells))
  BY <1>1, StoredCells
<1>3. Filled(h, at, cells) = [h EXCEPT !.mem = mem]
  BY DEF Filled
<1> HIDE DEF mem
<1>4. [h EXCEPT !.mem = mem] = [chunks |-> h.chunks, mem |-> mem]
  BY DEF AHeap
<1>5. mem \in [Cells -> Int]
  BY <1>2 DEF StoredAs
<1>6. Filled(h, at, cells) \in AHeap /\ Filled(h, at, cells).chunks = h.chunks /\ Filled(h, at, cells).mem = mem
  BY <1>1, <1>3, <1>4, <1>5 DEF AHeap
<1> QED BY <1>2, <1>6

(* A block filled from its start on.                                       *)
LEMMA FilledGood ==
  ASSUME NEW c \in Chunk, End(c) <= Pool + Header, NEW mem, NEW new, NEW block \in Seq(Int), Len(block) <= c.size,
         StoredAs(new, mem, c.at + Header, block, Len(block))
  PROVE  Good(new, block, c) /\ Around(new, mem, c)
<1>1. /\ c.at \in Nat /\ c.size \in Nat /\ Header \in Nat /\ Pool \in Nat /\ End(c) = c.at + Header + c.size
      /\ Len(block) \in Nat
  BY HeapAssumption DEF Chunk, End
<1> DEFINE p == c.at + Header
           n == Len(block)
<1>2. p \in Nat /\ End(c) = p + c.size /\ n \in Nat /\ n <= c.size /\ p + c.size <= Pool + Header
  BY <1>1
<1>3. StoredAs(new, mem, p, block, n)
  OBVIOUS
<1> HIDE DEF p, n
<1>4. ASSUME NEW i \in 1 .. n, p + (i - 1) < Pool PROVE new[p + (i - 1)] = block[i]
  <2>1. p + (i - 1) \in Cells /\ p + (i - 1) >= p /\ p + (i - 1) < p + n /\ (p + (i - 1)) - p + 1 = i
    BY <1>1, <1>2, <1>4 DEF Cells
  <2> QED BY <1>3, <2>1 DEF StoredAs
<1>5. ASSUME NEW a \in Cells, a < p \/ a >= End(c) PROVE new[a] = mem[a]
  <2>1. a < p \/ a >= p + n
    BY <1>1, <1>2, <1>5 DEF Cells
  <2> QED BY <1>3, <2>1 DEF StoredAs
<1> QED BY <1>4, <1>5 DEF Good, Around, p, n

(* malloc(), and the program filling what it got.                          *)
LEMMA MallocKept ==
  ASSUME NEW h, NEW held, HeapKept(h, held), NEW n \in Nat \ {0}, U!malloc(h, n).ptr # U!NULL,
         NEW block \in Seq(Int), Len(block) = n
  PROVE  HeapKept(Filled(U!malloc(h, n).h, U!malloc(h, n).ptr, block), Entered(held, U!malloc(h, n).ptr, block))
<1> DEFINE r == U!malloc(h, n)
           t == Filled(r.h, r.ptr, block)
           new == Entered(held, r.ptr, << >>)
<1>1. h \in AHeap /\ Chained(h.chunks)
  BY DEF HeapKept
<1>2. PICK c : Allocates(h, r, c, n)
  BY <1>1, MallocAllocates
<1> HIDE DEF r
<1>3. HeapKept(r.h, new) /\ c \in Taken(r.h.chunks)
  BY <1>2, AllocatedKept
<1>4. /\ c \in Chunk /\ n <= c.size /\ r.ptr = c.at + Header /\ End(c) <= Pool + Header /\ r.h \in AHeap
      /\ r.ptr \in Nat
  BY <1>2, HeapAssumption DEF Allocates, Chunk
<1>5. t \in AHeap /\ t.chunks = r.h.chunks /\ StoredAs(t.mem, r.h.mem, c.at + Header, block, Len(block))
  BY <1>4, FilledHeap
<1> HIDE DEF t, new
<1>6. Good(t.mem, block, c) /\ Around(t.mem, r.h.mem, c)
  BY <1>4, <1>5, FilledGood
<1>7. HeapKept(t, Entered(new, c.at + Header, block))
  BY ONLY <1>3, <1>5, <1>6, RefilledKept
<1>8. Entered(new, c.at + Header, block) = Entered(held, r.ptr, block)
  BY <1>4 DEF Entered, new
<1> QED BY <1>7, <1>8 DEF t, r

(* calloc() is malloc() and a store of zeros.                              *)
LEMMA CallocIs ==
  ASSUME NEW h, NEW n \in Nat \ {0}, U!calloc(h, n, 1).ptr # U!NULL
  PROVE  /\ U!malloc(h, n).ptr # U!NULL /\ U!calloc(h, n, 1).ptr = U!malloc(h, n).ptr
         /\ U!calloc(h, n, 1).h = Filled(U!malloc(h, n).h, U!malloc(h, n).ptr, [i \in 1 .. n |-> 0])
<1> DEFINE r == U!malloc(h, n * 1)
           t == [r.h EXCEPT !.mem = U!Stored(@, r.ptr, [i \in 1 .. n * 1 |-> 0])]
<1>1. U!calloc(h, n, 1) = IF r.ptr = U!NULL THEN r ELSE [h |-> t, ptr |-> r.ptr]
  BY Zenon DEF U!calloc
<1>2. n * 1 = n
  OBVIOUS
<1>3. t = Filled(r.h, r.ptr, [i \in 1 .. n |-> 0]) /\ r = U!malloc(h, n)
  BY <1>2, Zenon DEF Filled
<1> HIDE DEF r, t
<1>4. r.ptr # U!NULL
  BY <1>1
<1>5. U!calloc(h, n, 1) = [h |-> t, ptr |-> r.ptr]
  BY <1>1, <1>4
<1>6. U!calloc(h, n, 1).h = t /\ U!calloc(h, n, 1).ptr = r.ptr
  BY <1>5
<1> QED BY <1>3, <1>4, <1>6, Zenon

(* Of two blocks what is asked of one lies in front of the other.          *)
Blocks(ca, cs, da, ds, hd, all, to, from, n, kept) ==
  /\ {ca, cs, da, ds, hd, all, to, from, n, kept} \subseteq Nat
  /\ n <= cs /\ kept <= ds /\ to = ca + hd /\ from = da + hd /\ to + cs <= all /\ from + ds <= all
  /\ to + cs <= da \/ from + ds <= ca
Fits(all, to, from, n, kept) ==
  (kept + from <= to \/ to + n <= from) /\ kept + from <= all /\ to + n <= all
(* Then a copy from one to the other overwrites nothing it still has to    *)
(* read.                                                                   *)
LEMMA Distances ==
  ASSUME NEW ca, NEW cs, NEW da, NEW ds, NEW hd, NEW all, NEW to, NEW from, NEW n, NEW kept,
         Blocks(ca, cs, da, ds, hd, all, to, from, n, kept)
  PROVE  Fits(all, to, from, n, kept)
<1>1. ca \in Nat /\ cs \in Nat /\ da \in Nat /\ ds \in Nat /\ hd \in Nat
  BY DEF Blocks
<1>2. all \in Nat /\ to \in Nat /\ from \in Nat /\ n \in Nat /\ kept \in Nat
  BY DEF Blocks
<1>3. /\ n <= cs /\ kept <= ds /\ to = ca + hd /\ from = da + hd /\ to + cs <= all /\ from + ds <= all
      /\ to + cs <= da \/ from + ds <= ca
  BY Zenon DEF Blocks
<1> QED BY ONLY <1>1, <1>2, <1>3 DEF Fits

(* A block moved: what its holder relied on is in the new one, as far as   *)
(* there is room, and the rest has been filled.                            *)
Reallocated(h, old, r, n) == U!free([r.h EXCEPT !.mem = U!Moved(@, r.ptr, old, n)], old)
(* realloc(), and the program filling what is new.                         *)
LEMMA ReallocKept ==
  ASSUME NEW h, NEW held, HeapKept(h, held), NEW p \in DOMAIN held, NEW n \in Nat \ {0}, U!malloc(h, n).ptr # U!NULL,
         p + n <= Pool, U!malloc(h, n).ptr + n <= Pool,
         NEW kept, kept = (IF Len(held[p]) > n THEN n ELSE Len(held[p])),
         NEW block \in Seq(Int), Len(block) = n, \A i \in 1 .. kept : block[i] = held[p][i]
  PROVE  HeapKept(Filled(Reallocated(h, p, U!malloc(h, n), n), U!malloc(h, n).ptr + kept, SubSeq(block, kept + 1, n)),
                  Entered(Dropped(held, p), U!malloc(h, n).ptr, block))
<1> DEFINE r == U!malloc(h, n)
           old == held[p]
           part == SubSeq(block, 1, kept)
           mem == U!Moved(r.h.mem, r.ptr, p, n)
           moved == [chunks |-> r.h.chunks, mem |-> mem]
           both == Entered(held, r.ptr, part)
           freed == U!free(moved, p)
           rest == SubSeq(block, kept + 1, n)
           t == Filled(freed, r.ptr + kept, rest)
           last == Entered(Dropped(held, p), r.ptr, block)
<1>1. h \in AHeap /\ Chained(h.chunks) /\ DOMAIN held = {d.at + Header : d \in Taken(h.chunks)}
      /\ \A d \in Taken(h.chunks) : Good(h.mem, held[d.at + Header], d)
  BY DEF HeapKept
<1>2. PICK d \in Taken(h.chunks) : p = d.at + Header
  BY <1>1
<1>3. PICK c : Allocates(h, r, c, n)
  BY <1>1, MallocAllocates
<1> HIDE DEF r
<1>4. HeapKept(r.h, Entered(held, r.ptr, << >>)) /\ c \in Taken(r.h.chunks) /\ r.ptr \notin DOMAIN held
  BY <1>3, AllocatedKept
<1>5. /\ c \in Chunk /\ c.at \in Nat /\ c.size \in Nat /\ n <= c.size /\ r.ptr = c.at + Header /\ End(c) <= Pool + Header
      /\ End(c) = r.ptr + c.size /\ r.h \in AHeap /\ r.ptr \in Nat /\ Header \in Nat /\ Pool \in Nat
      /\ d \in Taken(r.h.chunks) /\ (End(c) <= d.at \/ End(d) <= c.at)
      /\ \A a \in Block(d) : r.h.mem[a] = h.mem[a]
  BY <1>3, HeapAssumption DEF Allocates, Chunk, End
<1>6. /\ d \in Chunk /\ d.at \in Nat /\ d.size \in Nat /\ p \in Nat /\ End(d) = p + d.size /\ End(d) <= Pool + Header
      /\ Good(h.mem, old, d) /\ Len(old) \in Nat /\ Len(old) <= d.size
  <2>1. d \in Chunk /\ d.at \in Nat /\ d.size \in Nat /\ p \in Nat /\ End(d) = p + d.size /\ End(d) <= Pool + Header
    <3>1. d \in Chunk /\ End(d) <= Pool + Header
      BY <1>1, TakenApart
    <3>2. d.at \in Nat /\ d.size \in Nat
      BY <3>1 DEF Chunk
    <3>3. End(d) = p + d.size
      BY ONLY <1>2 DEF End
    <3> QED BY ONLY <1>2, <1>5, <3>1, <3>2, <3>3
  <2>2. Good(h.mem, old, d)
    BY <1>1, <1>2
  <2>3. Len(old) \in Nat /\ Len(old) <= d.size
    BY ONLY <2>2 DEF Good
  <2> QED BY ONLY <2>1, <2>2, <2>3
<1>7. kept \in 0 .. n /\ kept <= Len(old) /\ kept \in Nat /\ kept <= d.size
  BY <1>6
<1> HIDE DEF old
<1>8. part \in Seq(Int) /\ Len(part) = kept /\ \A i \in 1 .. kept : part[i] = old[i]
  <2>1. \A i \in 1 .. kept : block[i] \in Int
    BY <1>7
  <2>2. kept \in Int
    BY <1>7
  <2>3. /\ part \in Seq(Int) /\ Len(part) = (IF 1 <= kept THEN kept - 1 + 1 ELSE 0)
        /\ \A i \in 1 .. kept - 1 + 1 : part[i] = block[1 + i - 1]
    BY ONLY <2>1, <2>2, 1 \in Int, SubSeqProperties DEF part
  <2>4. kept - 1 + 1 = kept /\ (1 <= kept \/ kept = 0) /\ \A i \in 1 .. kept : 1 + i - 1 = i
    BY <1>7
  <2>5. \A i \in 1 .. kept : block[i] = old[i]
    BY DEF old
  <2> QED BY ONLY <2>3, <2>4, <2>5
<1>9. rest \in Seq(Int) /\ Len(rest) = n - kept /\ \A i \in 1 .. n - kept : rest[i] = block[kept + i]
  <2>1. \A i \in kept + 1 .. n : block[i] \in Int
    BY <1>7
  <2>2. kept + 1 \in Int /\ n \in Int
    BY <1>7
  <2>3. /\ rest \in Seq(Int) /\ Len(rest) = (IF kept + 1 <= n THEN n - (kept + 1) + 1 ELSE 0)
        /\ \A i \in 1 .. n - (kept + 1) + 1 : rest[i] = block[(kept + 1) + i - 1]
    BY ONLY <2>1, <2>2, SubSeqProperties DEF rest
  <2>4. n - (kept + 1) + 1 = n - kept /\ (kept + 1 <= n \/ n - kept = 0)
        /\ \A i \in 1 .. n - kept : (kept + 1) + i - 1 = kept + i
    BY <1>7
  <2> QED BY ONLY <2>3, <2>4
<1> HIDE DEF part, rest
<1>10. /\ mem \in [Cells -> Int]
       /\ \A a \in Cells : a < r.ptr \/ a >= r.ptr + n => mem[a] = r.h.mem[a]
       /\ \A i \in 1 .. kept : mem[r.ptr + (i - 1)] = r.h.mem[p + (i - 1)]
  <2>1. r.h.mem \in [Cells -> Int]
    BY <1>5 DEF AHeap
  <2>2. (kept + p <= r.ptr \/ r.ptr + n <= p) /\ kept + p <= Pool /\ r.ptr + n <= Pool
    <3>1. /\ r.ptr \in Nat /\ c.at \in Nat /\ c.size \in Nat /\ n <= c.size /\ r.ptr = c.at + Header /\ n \in Nat
          /\ r.ptr + c.size <= Pool + Header /\ Header \in Nat /\ (r.ptr + c.size <= d.at \/ p + d.size <= c.at)
      BY <1>5, <1>6
    <3>2. /\ d.at \in Nat /\ d.size \in Nat /\ p \in Nat /\ p + d.size <= Pool + Header
          /\ kept \in Nat /\ kept <= d.size /\ p = d.at + Header
      BY <1>2, <1>6, <1>7
    <3>3. Pool + Header \in Nat
      BY HeapAssumption
    <3>4. Blocks(c.at, c.size, d.at, d.size, Header, Pool + Header, r.ptr, p, n, kept)
      BY ONLY <3>1, <3>2, <3>3, Zenon DEF Blocks
    <3>5. Fits(Pool + Header, r.ptr, p, n, kept)
      BY <3>4, Distances
    <3>6. kept + p <= Pool
      BY <1>5, <1>6, <1>7
    <3> QED BY <3>5, <3>6, Zenon DEF Fits, r
  <2>3. MovedAs(U!Moved(r.h.mem, r.ptr, p, n), r.h.mem, r.ptr, p, n, kept)
    BY <1>5, <1>6, <1>7, <2>1, <2>2, MovedCells
  <2> QED BY <2>2, <2>3 DEF MovedAs, mem
<1> HIDE DEF mem
<1>11. Good(mem, part, c) /\ Around(mem, r.h.mem, c)
  <2>1. ASSUME NEW i \in 1 .. kept PROVE mem[r.ptr + (i - 1)] = part[i]
    <3>1. mem[r.ptr + (i - 1)] = r.h.mem[p + (i - 1)]
      BY <1>10
    <3>2. p + (i - 1) \in Block(d) /\ p + (i - 1) < Pool
      <4> DEFINE x == p + (i - 1)
      <4>1. x \in Int /\ 0 <= x /\ p <= x /\ x < p + kept /\ x < End(d) /\ x < Pool /\ p + kept <= Pool /\ p = d.at + Header
        <5>1. p + kept <= Pool /\ Pool \in Nat
          BY <1>5, <1>6, <1>7
        <5>2. i \in Nat /\ 1 <= i /\ i <= kept
          BY <1>7
        <5>3. p = d.at + Header /\ End(d) = p + d.size /\ p \in Nat /\ kept \in Nat /\ kept <= d.size /\ d.size \in Nat
          BY <1>2, <1>6, <1>7
        <5> QED BY ONLY <5>1, <5>2, <5>3 DEF x
      <4> HIDE DEF x
      <4>2. x \in Cells
        BY <1>5, <4>1 DEF Cells
      <4>3. x \in Block(d)
        BY <4>1, <4>2 DEF Block
      <4> QED BY <4>1, <4>3 DEF x
    <3>3. h.mem[p + (i - 1)] = old[i]
      <4>1. i \in 1 .. Len(old)
        BY <1>6, <1>7
      <4> QED BY <1>2, <1>6, <3>2, <4>1 DEF Good
    <3> QED BY <1>5, <1>8, <3>1, <3>2, <3>3
  <2>2. ASSUME NEW a \in Cells, a < r.ptr \/ a >= End(c) PROVE mem[a] = r.h.mem[a]
    <3>1. a < r.ptr \/ a >= r.ptr + n
      BY <1>5, <2>2 DEF Cells
    <3> QED BY <1>10, <3>1
  <2>3. Len(part) <= c.size
    BY <1>5, <1>7, <1>8
  <2> QED BY <1>5, <1>8, <2>1, <2>2, <2>3 DEF Good, Around
<1>12. moved \in AHeap /\ moved.chunks = r.h.chunks /\ moved.mem = mem
  BY <1>5, <1>10 DEF AHeap
<1> HIDE DEF moved
<1>13. HeapKept(moved, Entered(Entered(held, r.ptr, << >>), c.at + Header, part))
  BY <1>4, <1>11, <1>12, RefilledKept
<1>14. Entered(Entered(held, r.ptr, << >>), c.at + Header, part) = both
  BY <1>5 DEF Entered
<1> HIDE DEF both
<1>15. HeapKept(moved, both) /\ d \in Taken(moved.chunks) /\ Chained(moved.chunks)
  BY <1>5, <1>12, <1>13, <1>14 DEF HeapKept
<1>16. Releases(moved, freed, d)
  BY <1>2, <1>12, <1>15, FreeReleases
<1> HIDE DEF freed
<1>17. HeapKept(freed, Dropped(both, p))
  BY <1>2, <1>15, <1>16, ReleasedKept
<1>18. c \in Taken(freed.chunks) /\ freed \in AHeap
  <2>1. c # d
    BY <1>2, <1>4, <1>5
  <2> QED BY <1>4, <1>12, <1>16, <2>1 DEF Releases
<1>19. Good(freed.mem, part, c)
  <2>1. \A a \in Block(c) : freed.mem[a] = mem[a]
    BY <1>12, <1>16, <1>18 DEF Releases
  <2> QED BY <1>5, <1>11, <2>1, GoodKept
<1>20. /\ t \in AHeap /\ t.chunks = freed.chunks
       /\ StoredAs(t.mem, freed.mem, r.ptr + kept, rest, n - kept)
  <2>1. r.ptr + kept \in Nat
    <3>1. r.ptr \in Nat /\ kept \in Nat
      BY <1>5, <1>7
    <3> QED BY ONLY <3>1
  <2> QED BY <1>9, <1>18, <2>1, FilledHeap
<1> HIDE DEF t
<1>21. Good(t.mem, block, c) /\ Around(t.mem, freed.mem, c)
  <2> DEFINE q == r.ptr
  <2>1. /\ q \in Nat /\ q = c.at + Header /\ End(c) = q + c.size /\ q + c.size <= Pool + Header /\ n <= c.size
        /\ c.size \in Nat /\ Header \in Nat /\ Pool \in Nat
    BY <1>5
  <2>2. StoredAs(t.mem, freed.mem, q + kept, rest, n - kept)
    BY <1>20
  <2> HIDE DEF q
  <2>3. ASSUME NEW i \in 1 .. n, q + (i - 1) < Pool PROVE t.mem[q + (i - 1)] = block[i]
    <3>1. q + (i - 1) \in Cells
      BY ONLY <2>1, <2>3, n \in Nat \ {0} DEF Cells
    <3>2. CASE i <= kept
      <4>1. q + (i - 1) < q + kept /\ i \in 1 .. kept
        BY <1>7, <2>1, <3>2
      <4>2. t.mem[q + (i - 1)] = freed.mem[q + (i - 1)]
        BY <2>2, <3>1, <4>1 DEF StoredAs
      <4>3. freed.mem[q + (i - 1)] = part[i]
        BY <1>8, <1>19, <2>1, <2>3, <4>1 DEF Good
      <4>4. part[i] = block[i]
        BY <1>8, <4>1 DEF old
      <4> QED BY <4>2, <4>3, <4>4
    <3>3. CASE i > kept
      <4>1. /\ q + (i - 1) >= q + kept /\ q + (i - 1) < (q + kept) + (n - kept)
            /\ (q + (i - 1)) - (q + kept) + 1 = i - kept /\ i - kept \in 1 .. n - kept /\ kept + (i - kept) = i
        BY ONLY <1>7, <2>1, <3>3, i \in 1 .. n, n \in Nat \ {0}
      <4>2. t.mem[q + (i - 1)] = rest[(q + (i - 1)) - (q + kept) + 1]
        BY <2>2, <3>1, <4>1 DEF StoredAs
      <4>3. rest[i - kept] = block[kept + (i - kept)]
        BY <1>9, <4>1
      <4> QED BY <4>1, <4>2, <4>3
    <3> QED BY <1>7, <3>2, <3>3
  <2>4. ASSUME NEW a \in Cells, a < q \/ a >= End(c) PROVE t.mem[a] = freed.mem[a]
    <3>1. a < q + kept \/ a >= (q + kept) + (n - kept)
      BY ONLY <1>7, <2>1, <2>4, n \in Nat \ {0} DEF Cells
    <3> QED BY <2>2, <3>1 DEF StoredAs
  <2> QED BY <2>1, <2>3, <2>4 DEF Good, Around
<1>22. HeapKept(t, Entered(Dropped(both, p), c.at + Header, block))
  BY <1>17, <1>18, <1>20, <1>21, RefilledKept
<1>23. Entered(Dropped(both, p), c.at + Header, block) = last
  <2>1. p # r.ptr
    BY <1>4
  <2> QED BY <1>5, <2>1 DEF Entered, Dropped, both
<1>24. Reallocated(h, p, r, n) = freed
  <2>1. [r.h EXCEPT !.mem = U!Moved(@, r.ptr, p, n)] = [r.h EXCEPT !.mem = mem]
    BY DEF mem
  <2>2. [r.h EXCEPT !.mem = mem] = [chunks |-> r.h.chunks, mem |-> mem]
    <3>1. ASSUME NEW g \in AHeap, NEW new PROVE [g EXCEPT !.mem = new] = [chunks |-> g.chunks, mem |-> new]
      BY DEF AHeap
    <3> QED BY ONLY <1>5, <3>1
  <2> QED BY <2>1, <2>2, Zenon DEF Reallocated, freed, moved
<1>25. Filled(Reallocated(h, p, r, n), r.ptr + kept, SubSeq(block, kept + 1, n)) = t
  BY <1>24, Zenon DEF t, rest
<1>26. HeapKept(Filled(Reallocated(h, p, r, n), r.ptr + kept, SubSeq(block, kept + 1, n)), Entered(Dropped(held, p), r.ptr, block))
  BY <1>22, <1>23, <1>25, Zenon
<1> QED BY <1>26 DEF r

(* realloc() is malloc(), a copy of as much as was asked for, and free().  *)
LEMMA ReallocIs ==
  ASSUME NEW h \in AHeap, Chained(h.chunks), NEW p \in Nat \ {0}, NEW n \in Nat
  PROVE  /\ n = 0 => U!realloc(h, p, n) = [h |-> U!free(h, p), ptr |-> U!NULL, dead |-> FALSE]
         /\ n # 0 /\ ~U!realloc(h, p, n).dead =>
              /\ U!malloc(h, n).ptr # U!NULL
              /\ U!realloc(h, p, n).h = Reallocated(h, p, U!malloc(h, n), n)
              /\ U!realloc(h, p, n).ptr = U!malloc(h, n).ptr
<1> DEFINE r == U!malloc(h, n)
           chunk == r.h.chunks[U!IndexOf(r.h, r.ptr)]
           csize == IF chunk.size > n THEN n ELSE chunk.size
           t == U!free([r.h EXCEPT !.mem = U!Moved(@, r.ptr, p, csize)], p)
           z == U!realloc(h, p, n)
<1>1. z = IF n = 0 THEN [h |-> U!free(h, p), ptr |-> U!NULL, dead |-> FALSE]
          ELSE IF p = U!NULL THEN [h |-> r.h, ptr |-> r.ptr, dead |-> FALSE]
          ELSE IF r.ptr = U!NULL THEN [h |-> h, ptr |-> U!NULL, dead |-> TRUE]
          ELSE [h |-> t, ptr |-> r.ptr, dead |-> FALSE]
  BY Zenon DEF U!realloc
<1>2. p # U!NULL
  BY DEF U!NULL
<1>3. ASSUME n # 0, ~z.dead PROVE r.ptr # U!NULL /\ z.h = Reallocated(h, p, r, n) /\ z.ptr = r.ptr
  <2> HIDE DEF r, t, z
  <2>1. r.ptr # U!NULL
    <3>1. SUFFICES ASSUME r.ptr = U!NULL PROVE FALSE
      OBVIOUS
    <3>2. z = [h |-> h, ptr |-> U!NULL, dead |-> TRUE]
      BY <1>1, <1>2, <1>3, <3>1
    <3>3. z.dead
      BY <3>2
    <3> QED BY <1>3, <3>3
  <2>2. z = [h |-> t, ptr |-> r.ptr, dead |-> FALSE]
    BY <1>1, <1>2, <1>3, <2>1
  <2>3. z.h = t /\ z.ptr = r.ptr
    BY <2>2
  <2>4. csize = n
    <3>1. n \in Nat \ {0}
      BY <1>3
    <3>2. PICK c : Allocates(h, r, c, n)
      BY <2>1, <3>1, MallocAllocates DEF r
    <3>3. /\ r.h \in AHeap /\ Chained(r.h.chunks) /\ c \in Taken(r.h.chunks) /\ r.ptr = c.at + Header
          /\ c \in Chunk /\ n <= c.size
      BY <3>2 DEF Allocates
    <3>4. chunk = c
      BY <3>3, IndexIs
    <3>5. c.size \in Nat
      BY <3>3 DEF Chunk
    <3> HIDE DEF chunk
    <3> QED BY <3>1, <3>3, <3>4, <3>5
  <2>5. t = Reallocated(h, p, r, n)
    BY <2>4, Zenon DEF Reallocated, t
  <2> QED BY <2>1, <2>3, <2>5
<1>4. ASSUME n = 0 PROVE z = [h |-> U!free(h, p), ptr |-> U!NULL, dead |-> FALSE]
  BY <1>1, <1>4
<1> HIDE DEF r, z
<1>5. /\ n = 0 => z = [h |-> U!free(h, p), ptr |-> U!NULL, dead |-> FALSE]
      /\ n # 0 /\ ~z.dead => r.ptr # U!NULL /\ z.h = Reallocated(h, p, r, n) /\ z.ptr = r.ptr
  BY <1>3, <1>4
<1> QED BY <1>5, Zenon DEF r, z

(* The inductive invariant: what the program relies on is in the heap.     *)
HeapInv ==
  call.fn = "myalloc" =>
    /\ m = [state |-> m.state, h |-> m.h, held |-> m.held]
    /\ HeapKept(m.h, m.held)

(* It holds at first.                                                      *)
LEMMA HeapInit == Init => HeapInv
<1> SUFFICES ASSUME Init, call.fn = "myalloc" PROVE HeapInv
  BY DEF HeapInv
<1>1. call = [fn |-> "myalloc"] /\ m = Running(U!tlsf_create_with_pool, << >>)
  BY Kinds DEF Init
<1> DEFINE first == [at |-> 0, used |-> FALSE, size |-> Pool]
           h == U!tlsf_create_with_pool
<1>2. m = [state |-> "RUN", h |-> h, held |-> << >>]
  BY <1>1 DEF Running
<1>3. h.chunks = <<first>> /\ h.mem = [a \in Cells |-> IF a < Header THEN U!OSEX ELSE U!Garbage]
      /\ h = [chunks |-> h.chunks, mem |-> h.mem]
  BY DEF U!tlsf_create_with_pool, Cells
<1>4. first \in Chunk /\ ~first.used /\ first.at = 0 /\ End(first) = Pool + Header
  BY HeapAssumption DEF Chunk, End
<1> HIDE DEF first, h
<1>5. <<first>> \in Seq(Chunk) /\ Len(<<first>>) = 1 /\ <<first>>[1] = first
  BY <1>4
<1>6. Chained(h.chunks)
  BY <1>3, <1>4, <1>5 DEF Chained
<1>7. Taken(h.chunks) = {} /\ Len(h.chunks) = 1
  BY <1>3, <1>4, <1>5 DEF Taken
<1>8. h \in AHeap
  <2>1. h.mem \in [Cells -> Int]
    BY <1>3 DEF U!OSEX, U!Garbage
  <2> QED BY <1>3, <1>5, <2>1 DEF AHeap
<1>9. DOMAIN << >> = {}
  OBVIOUS
<1>10. HeapKept(h, << >>)
  BY <1>6, <1>7, <1>8, <1>9 DEF HeapKept
<1>11. m.state = "RUN" /\ m.h = h /\ m.held = << >>
  BY <1>2
<1> QED BY <1>2, <1>10, <1>11 DEF HeapInv

(* A block of one value.                                                   *)
LEMMA FreshCells ==
  ASSUME NEW n \in Nat, NEW x \in Int
  PROVE  [i \in 1 .. n |-> x] \in Seq(Int) /\ Len([i \in 1 .. n |-> x]) = n
OBVIOUS

(* It is kept, whatever is called.                                         *)
LEMMA HeapNext == HeapInv /\ [Next]_vars => HeapInv'
<1> SUFFICES ASSUME HeapInv, [Next]_vars, call'.fn = "myalloc" PROVE HeapInv'
  BY DEF HeapInv
<1>1. CASE UNCHANGED vars
  BY <1>1 DEF HeapInv, vars
<1> SUFFICES ASSUME Next PROVE HeapInv'
  BY <1>1
<1>2. call' = call /\ call.fn = "myalloc" /\ m = [state |-> m.state, h |-> m.h, held |-> m.held] /\ HeapKept(m.h, m.held)
  BY DEF HeapInv, Next
<1>3. ASSUME NEW h, NEW held, HeapKept(h, held), m' = Running(h, held) PROVE HeapInv'
  <2>1. m' = [state |-> "RUN", h |-> h, held |-> held]
    BY <1>3 DEF Running
  <2>2. m'.state = "RUN" /\ m'.h = h /\ m'.held = held
    BY ONLY <2>1
  <2> QED BY <1>3, <2>1, <2>2 DEF HeapInv
<1>10. ASSUME m' = Out PROVE HeapInv'
  <2>1. m' = [state |-> "OUT", h |-> m.h, held |-> m.held]
    BY <1>2, <1>10 DEF Out
  <2>2. m'.state = "OUT" /\ m'.h = m.h /\ m'.held = m.held
    BY ONLY <2>1
  <2> QED BY <1>2, <2>1, <2>2 DEF HeapInv
<1>4. ASSUME NEW n \in Requests, Malloc(n) PROVE HeapInv'
  <2> DEFINE r == U!malloc(m.h, n)
             cells == Fresh(r.ptr, n)
  <2>1. n \in Nat \ {0}
    BY HeapAssumption
  <2>2. r.ptr # U!NULL /\ (m' = Out \/ m' = Running(Filled(r.h, r.ptr, cells), Entered(m.held, r.ptr, cells)))
    BY <1>4, Zenon DEF Malloc
  <2>3. r.ptr \in Int
    <3>1. m.h \in AHeap /\ Chained(m.h.chunks)
      BY <1>2 DEF HeapKept
    <3>2. PICK c : Allocates(m.h, r, c, n)
      BY <2>1, <2>2, <3>1, MallocAllocates
    <3>3. c.at \in Nat /\ r.ptr = c.at + Header
      BY <3>2 DEF Allocates, Chunk
    <3> QED BY <3>3, HeapAssumption
  <2>4. cells \in Seq(Int) /\ Len(cells) = n
    BY <2>1, <2>3, FreshCells DEF Fresh
  <2>5. HeapKept(Filled(r.h, r.ptr, cells), Entered(m.held, r.ptr, cells))
    <3> HIDE DEF cells
    <3> QED BY <1>2, <2>1, <2>2, <2>4, MallocKept
  <2> HIDE DEF r, cells
  <2> QED BY <1>3, <1>10, <2>2, <2>5
<1>5. ASSUME NEW n \in Requests, Calloc(n) PROVE HeapInv'
  <2> DEFINE r == U!calloc(m.h, n, 1)
             z == U!malloc(m.h, n)
             cells == [i \in 1 .. n |-> 0]
  <2>1. n \in Nat \ {0}
    BY HeapAssumption
  <2>2. r.ptr # U!NULL /\ (m' = Out \/ m' = Running(r.h, Entered(m.held, r.ptr, cells)))
    BY <1>5, Zenon DEF Calloc
  <2>3. z.ptr # U!NULL /\ r.ptr = z.ptr /\ r.h = Filled(z.h, z.ptr, cells)
    BY <2>1, <2>2, CallocIs
  <2>4. cells \in Seq(Int) /\ Len(cells) = n
    BY <2>1, FreshCells
  <2>5. HeapKept(Filled(z.h, z.ptr, cells), Entered(m.held, z.ptr, cells))
    <3> HIDE DEF cells
    <3> QED BY <1>2, <2>1, <2>3, <2>4, MallocKept
  <2> HIDE DEF r, z, cells
  <2> QED BY <1>3, <1>10, <2>2, <2>3, <2>5
<1>6. ASSUME NEW p \in DOMAIN m.held PROVE p \in Nat \ {0} /\ HeapKept(U!free(m.h, p), Dropped(m.held, p))
  <2>1. PICK d \in Taken(m.h.chunks) : p = d.at + Header
    BY <1>2 DEF HeapKept
  <2>2. m.h \in AHeap /\ Chained(m.h.chunks)
    BY <1>2 DEF HeapKept
  <2>3. d.at \in Nat
    BY <2>2, TakenApart DEF Chunk
  <2>4. Releases(m.h, U!free(m.h, p), d)
    BY <2>1, <2>2, FreeReleases
  <2> QED BY <1>2, <2>1, <2>3, <2>4, ReleasedKept, HeapAssumption
<1>7. ASSUME NEW p \in DOMAIN m.held, Free(p) PROVE HeapInv'
  BY <1>3, <1>6, <1>7 DEF Free
<1>8. ASSUME NEW p \in DOMAIN m.held, NEW n \in Requests \cup {0}, Realloc(p, n) PROVE HeapInv'
  <2> DEFINE r == U!realloc(m.h, p, n)
             z == U!malloc(m.h, n)
             old == m.held[p]
             kept == IF Len(old) > n THEN n ELSE Len(old)
             cells == [i \in 1 .. n |-> IF i <= kept THEN old[i] ELSE r.ptr]
  <2>1. m' = IF r.dead THEN Out
             ELSE IF n = 0 THEN Running(r.h, Dropped(m.held, p))
             ELSE IF U!Outside(z.h, {p, r.ptr}, n) THEN Out
             ELSE Running(Filled(r.h, r.ptr + kept, SubSeq(cells, kept + 1, n)), Entered(Dropped(m.held, p), r.ptr, cells))
    BY <1>8, Zenon DEF Realloc
  <2>2. m.h \in AHeap /\ Chained(m.h.chunks) /\ p \in Nat \ {0} /\ n \in Nat
    <3>1. m.h \in AHeap /\ Chained(m.h.chunks)
      BY <1>2 DEF HeapKept
    <3>2. p \in Nat \ {0}
      BY <1>6
    <3>3. n \in Nat
      BY HeapAssumption
    <3> QED BY <3>1, <3>2, <3>3
  <2>3. /\ n = 0 => r = [h |-> U!free(m.h, p), ptr |-> U!NULL, dead |-> FALSE]
        /\ n # 0 /\ ~r.dead => z.ptr # U!NULL /\ r.h = Reallocated(m.h, p, z, n) /\ r.ptr = z.ptr
    BY <2>2, ReallocIs
  <2>4. old \in Seq(Int)
    <3>1. PICK d \in Taken(m.h.chunks) : p = d.at + Header
      BY <1>2 DEF HeapKept
    <3> QED BY <1>2, <3>1 DEF HeapKept, Good
  <2> HIDE DEF r, z, old
  <2>5. CASE r.dead
    BY <1>10, <2>1, <2>5
  <2>6. CASE ~r.dead /\ n = 0
    <3>1. r.h = U!free(m.h, p)
      BY <2>3, <2>6
    <3>2. m' = Running(U!free(m.h, p), Dropped(m.held, p))
      BY <2>1, <2>6, <3>1
    <3> QED BY <1>3, <1>6, <3>2
  <2>8. CASE ~r.dead /\ n # 0 /\ U!Outside(z.h, {p, r.ptr}, n)
    BY <1>10, <2>1, <2>8
  <2>7. CASE ~r.dead /\ n # 0 /\ ~U!Outside(z.h, {p, r.ptr}, n)
    <3>1. z.ptr # U!NULL /\ r.h = Reallocated(m.h, p, z, n) /\ r.ptr = z.ptr /\ n \in Nat \ {0}
      BY <2>2, <2>3, <2>7
    <3>2. r.ptr \in Int
      <4>1. PICK c : Allocates(m.h, z, c, n)
        BY <2>2, <3>1, MallocAllocates DEF z
      <4>2. c.at \in Nat /\ z.ptr = c.at + Header
        BY <4>1 DEF Allocates, Chunk
      <4> QED BY <3>1, <4>2, HeapAssumption
    <3>8. p + n <= Pool /\ z.ptr + n <= Pool
      <4>1. ~(p + n > Pool) /\ ~(z.ptr + n > Pool)
        BY <2>7, <3>1 DEF U!Outside
      <4> QED BY <2>2, <3>1, <3>2, <4>1, HeapAssumption
    <3>3. Len(old) \in Nat /\ \A i \in 1 .. Len(old) : old[i] \in Int
      BY <2>4
    <3>4. kept \in 0 .. n /\ kept <= Len(old)
      BY <3>1, <3>3
    <3> HIDE DEF kept
    <3>5. cells \in Seq(Int) /\ Len(cells) = n /\ \A i \in 1 .. kept : cells[i] = old[i]
      <4>1. ASSUME NEW i \in 1 .. n PROVE (IF i <= kept THEN old[i] ELSE r.ptr) \in Int
        <5>1. i <= kept => i \in 1 .. Len(old)
          BY <3>1, <3>3, <3>4
        <5> QED BY <3>2, <3>3, <5>1
      <4>2. cells \in Seq(Int) /\ Len(cells) = n
        BY <3>1, <4>1
      <4>3. ASSUME NEW i \in 1 .. kept PROVE cells[i] = old[i]
        <5>1. i \in 1 .. n /\ i <= kept
          BY <3>1, <3>4
        <5> QED BY <5>1
      <4> QED BY <4>2, <4>3
    <3> HIDE DEF cells
    <3>6. HeapKept(Filled(Reallocated(m.h, p, z, n), z.ptr + kept, SubSeq(cells, kept + 1, n)),
                   Entered(Dropped(m.held, p), z.ptr, cells))
      <4>1. kept = IF Len(m.held[p]) > n THEN n ELSE Len(m.held[p])
        BY Zenon DEF kept, old
      <4>2. \A i \in 1 .. kept : cells[i] = m.held[p][i]
        BY <3>5 DEF old
      <4> QED BY <1>2, <3>1, <3>8, <3>5, <4>1, <4>2, ReallocKept DEF z
    <3>7. m' = Running(Filled(Reallocated(m.h, p, z, n), z.ptr + kept, SubSeq(cells, kept + 1, n)),
                       Entered(Dropped(m.held, p), z.ptr, cells))
      BY <2>1, <2>7, <3>1
    <3> QED BY <1>3, <3>6, <3>7
  <2> QED BY <2>5, <2>6, <2>7, <2>8
<1>9. Heap
  <2>1. ~(Dopr \/ SetFAT \/ SetFirst \/ SetSecond \/ ToDir \/ FindVolume \/ Mount \/ Line \/ CmosRead \/ CmosReread \/ Tick)
    BY <1>2, Zenon DEF Dopr, SetFAT, SetFirst, SetSecond, ToDir, FindVolume, Mount, Line, CmosRead, CmosReread, Tick
  <2> QED BY <2>1, Zenon DEF Next
<1> QED BY <1>4, <1>5, <1>7, <1>8, <1>9 DEF Heap

(* Whatever the order of the calls of malloc(), calloc(), realloc() and    *)
(* free() (myalloc.c), as long as none touches memory outside the heap the *)
(* chunks lie one behind the other, those in use are the ones the program  *)
(* holds, each as large as asked for and, as far as it lies in the heap,   *)
(* with what was stored there, and an empty heap is one chunk again: for   *)
(* every size of the heap and of its header, and every sequence of         *)
(* requests.                                                               *)
THEOREM UserHeapAlwaysSound == Spec => []UserHeapSound
<1>1. HeapInv => UserHeapSound
  <2> SUFFICES ASSUME HeapInv, call.fn = "myalloc" PROVE UserHeapSound
    BY DEF UserHeapSound
  <2> DEFINE s == m.h.chunks
             mem == m.h.mem
             held == m.held
             InUse == {i \in DOMAIN s : s[i].used}
  <2>1. HeapKept(m.h, m.held)
    BY DEF HeapInv
  <2>2. /\ Chained(s) /\ (Taken(s) = {} => Len(s) = 1) /\ DOMAIN held = {c.at + Header : c \in Taken(s)}
        /\ \A c \in Taken(s) : Good(mem, held[c.at + Header], c)
    BY <2>1 DEF HeapKept
  <2> HIDE DEF s, mem, held
  <2>3. s \in Seq(Chunk) /\ Len(s) \in Nat /\ Len(s) >= 1 /\ DOMAIN s = 1 .. Len(s) /\ \A i \in 1 .. Len(s) : s[i] \in Chunk
    BY <2>2 DEF Chained
  <2>4. \A c : U!Pointer(c) = c.at + Header /\ U!Pointer(c) + c.size = End(c)
    BY DEF U!Pointer, End
  <2>5. s[1].at = 0
    BY <2>2 DEF Chained
  <2>6. ASSUME NEW i \in DOMAIN s
        PROVE  IF i = Len(s) THEN End(s[i]) = Pool + Header ELSE s[i + 1].at = End(s[i])
    BY <2>2, <2>3 DEF Chained
  <2>7. Taken(s) = {s[i] : i \in InUse}
    BY <2>3, Zenon DEF Taken
  <2>8. {U!Pointer(s[i]) : i \in InUse} = DOMAIN held
    BY <2>2, <2>4, <2>7
  <2>9. ASSUME NEW i \in InUse PROVE s[i].size >= Len(held[U!Pointer(s[i])])
    <3>1. s[i] \in Taken(s) /\ s[i] \in Chunk
      BY <2>3, <2>7
    <3>2. Good(mem, held[U!Pointer(s[i])], s[i])
      BY <2>2, <2>4, <3>1
    <3>3. s[i].size \in Nat
      BY <3>1 DEF Chunk
    <3> QED BY <3>2, <3>3 DEF Good
  <2>10. ASSUME NEW p \in DOMAIN held, NEW i \in DOMAIN held[p], p + i - 1 < Pool PROVE mem[p + i - 1] = held[p][i]
    <3>1. PICK c \in Taken(s) : p = c.at + Header
      BY <2>2
    <3>2. Good(mem, held[p], c)
      BY <2>2, <3>1
    <3>3. i \in 1 .. Len(held[p])
      BY <3>2 DEF Good
    <3>4. p + i - 1 = c.at + Header + (i - 1)
      BY <2>2, <3>1, <3>3, TakenApart, HeapAssumption DEF Chunk
    <3>5. mem[c.at + Header + (i - 1)] = held[p][i]
      BY <2>10, <3>2, <3>3, <3>4 DEF Good
    <3> QED BY <3>4, <3>5
  <2>11. ASSUME DOMAIN held = {} PROVE s = <<[at |-> 0, used |-> FALSE, size |-> Pool]>>
    <3>1. Taken(s) = {}
      BY <2>2, <2>11
    <3>2. Len(s) = 1 /\ 1 \in 1 .. Len(s) /\ s[1] \in Chunk
      BY <2>2, <2>3, <3>1
    <3>3. s[1].used = FALSE
      BY <3>1, <3>2 DEF Taken, Chunk
    <3>4. s[1].size = Pool
      <4>1. End(s[1]) = Pool + Header
        BY <2>2, <3>2 DEF Chained
      <4>2. s[1].size \in Nat
        BY <3>2 DEF Chunk
      <4> QED BY <2>5, <4>1, <4>2, HeapAssumption DEF End
    <3>5. s[1] = [at |-> s[1].at, used |-> s[1].used, size |-> s[1].size]
      BY <3>2 DEF Chunk
    <3>6. s[1] = [at |-> 0, used |-> FALSE, size |-> Pool]
      BY <2>5, <3>3, <3>4, <3>5, Zenon
    <3>7. s = <<s[1]>>
      BY <2>3, <3>2
    <3> QED BY <3>6, <3>7
  <2> HIDE DEF InUse
  <2>12. \A i \in DOMAIN s : IF i = Len(s) THEN U!Pointer(s[i]) + s[i].size = Pool + Header ELSE s[i + 1].at = U!Pointer(s[i]) + s[i].size
    BY <2>4, <2>6
  <2> QED BY <2>5, <2>8, <2>9, <2>10, <2>11, <2>12 DEF UserHeapSound, s, mem, held, InUse
<1> QED BY <1>1, HeapInit, HeapNext, PTL DEF Spec

--------------------------------------------------------------------------------
(***************************************************************************)
(* dopr(): what fits in a buffer, and the text the format still has.       *)
(***************************************************************************)

(* A prefix: its length and its characters.                                *)
LEMMA PrefixIs ==
  ASSUME NEW S, NEW s \in Seq(S), NEW n \in Nat
  PROVE  /\ Prefix(s, n) \in Seq(S)
         /\ Len(Prefix(s, n)) = Least(n, Len(s))
         /\ \A i \in 1 .. Least(n, Len(s)) : Prefix(s, n)[i] = s[i]
<1> DEFINE k == Least(n, Len(s))
<1>1. Len(s) \in Nat /\ \A i \in 1 .. Len(s) : s[i] \in S
  BY LenProperties
<1>2. k \in Int /\ 0 <= k /\ k <= Len(s)
  BY <1>1 DEF Least
<1>3. \A i \in 1 .. k : s[i] \in S
  BY <1>1, <1>2
<1>4. /\ SubSeq(s, 1, k) \in Seq(S)
      /\ Len(SubSeq(s, 1, k)) = IF 1 <= k THEN k - 1 + 1 ELSE 0
      /\ \A i \in 1 .. k - 1 + 1 : SubSeq(s, 1, k)[i] = s[1 + i - 1]
  <2> HIDE DEF k
  <2> QED BY ONLY <1>2, <1>3, 1 \in Int, SubSeqProperties
<1>5. Len(SubSeq(s, 1, k)) = k
  BY <1>2, <1>4
<1>6. \A i \in 1 .. k : SubSeq(s, 1, k)[i] = s[i]
  BY <1>2, <1>4
<1> QED BY <1>4, <1>5, <1>6 DEF Prefix

(* What fits is not cut.                                                   *)
LEMMA PrefixAll ==
  ASSUME NEW S, NEW s \in Seq(S), NEW n \in Nat, Len(s) <= n
  PROVE  Prefix(s, n) = s
<1>1. Len(s) \in Nat
  BY LenProperties
<1>2. Least(n, Len(s)) = Len(s)
  BY <1>1 DEF Least
<1> QED BY <1>1, <1>2, PrefixIs, SeqEqual

(* The prefix of a prefix.                                                 *)
LEMMA PrefixTwice ==
  ASSUME NEW S, NEW s \in Seq(S), NEW n \in Nat, NEW k \in Nat, k <= n
  PROVE  Prefix(Prefix(s, n), k) = Prefix(s, k)
<1> DEFINE p == Prefix(s, n)
<1>1. p \in Seq(S) /\ Len(p) = Least(n, Len(s)) /\ \A i \in 1 .. Least(n, Len(s)) : p[i] = s[i]
  BY PrefixIs
<1>2. Len(s) \in Nat
  BY LenProperties
<1> HIDE DEF p
<1>3. /\ Prefix(p, k) \in Seq(S) /\ Len(Prefix(p, k)) = Least(k, Len(p))
      /\ \A i \in 1 .. Least(k, Len(p)) : Prefix(p, k)[i] = p[i]
  BY <1>1, PrefixIs
<1>4. /\ Prefix(s, k) \in Seq(S) /\ Len(Prefix(s, k)) = Least(k, Len(s))
      /\ \A i \in 1 .. Least(k, Len(s)) : Prefix(s, k)[i] = s[i]
  BY PrefixIs
<1>5. Least(k, Len(p)) = Least(k, Len(s)) /\ Least(k, Len(s)) <= Least(n, Len(s)) /\ Least(k, Len(s)) \in Nat
  BY <1>1, <1>2 DEF Least
<1>6. \A i \in 1 .. Least(k, Len(s)) : i \in 1 .. Least(n, Len(s))
  BY <1>2, <1>5 DEF Least
<1>7. \A i \in 1 .. Len(Prefix(p, k)) : Prefix(p, k)[i] = Prefix(s, k)[i]
  BY <1>1, <1>3, <1>4, <1>5, <1>6
<1>8. Prefix(p, k) = Prefix(s, k)
  BY ONLY <1>3, <1>4, <1>5, <1>7, SeqEqual
<1> QED BY <1>8 DEF p

(* What lies behind a full buffer is lost.                                 *)
LEMMA PrefixCut ==
  ASSUME NEW S, NEW s \in Seq(S), NEW t \in Seq(S), NEW n \in Nat, n <= Len(s)
  PROVE  Prefix(s \o t, n) = Prefix(s, n)
<1> DEFINE st == s \o t
<1>1. Len(s) \in Nat /\ Len(t) \in Nat
  BY LenProperties
<1>2. st \in Seq(S) /\ Len(st) = Len(s) + Len(t) /\ \A i \in 1 .. Len(s) : st[i] = s[i]
  BY <1>1, ConcatProperties
<1> HIDE DEF st
<1>3. Least(n, Len(st)) = n /\ Least(n, Len(s)) = n
  BY <1>1, <1>2 DEF Least
<1>4. Prefix(st, n) \in Seq(S) /\ Len(Prefix(st, n)) = n /\ \A i \in 1 .. n : Prefix(st, n)[i] = st[i]
  BY <1>2, <1>3, PrefixIs
<1>5. Prefix(s, n) \in Seq(S) /\ Len(Prefix(s, n)) = n /\ \A i \in 1 .. n : Prefix(s, n)[i] = s[i]
  BY <1>3, PrefixIs
<1>6. \A i \in 1 .. n : i \in 1 .. Len(s)
  BY <1>1
<1>7. Prefix(st, n) = Prefix(s, n)
  BY <1>2, <1>4, <1>5, <1>6, SeqEqual
<1> QED BY <1>7 DEF st

(* Cut before more is appended and cut again.                              *)
LEMMA PrefixJoined ==
  ASSUME NEW S, NEW s \in Seq(S), NEW t \in Seq(S), NEW n \in Nat
  PROVE  Prefix(Prefix(s, n) \o t, n) = Prefix(s \o t, n)
<1>1. CASE Len(s) <= n
  BY <1>1, PrefixAll
<1>2. CASE ~ (Len(s) <= n)
  <2>1. Len(s) \in Nat
    BY LenProperties
  <2>2. Prefix(s, n) \in Seq(S) /\ Len(Prefix(s, n)) = n
    BY <1>2, <2>1, PrefixIs DEF Least
  <2>3. Prefix(Prefix(s, n) \o t, n) = Prefix(Prefix(s, n), n)
    BY <2>2, PrefixCut
  <2>4. Prefix(Prefix(s, n), n) = Prefix(s, n)
    BY PrefixTwice
  <2>5. Prefix(s \o t, n) = Prefix(s, n)
    BY <1>2, <2>1, PrefixCut
  <2> QED BY <2>3, <2>4, <2>5
<1> QED BY <1>1, <1>2

(* What is appended cut before.                                            *)
LEMMA PrefixInner ==
  ASSUME NEW S, NEW s \in Seq(S), NEW t \in Seq(S), NEW n \in Nat
  PROVE  Prefix(s \o Prefix(t, n), n) = Prefix(s \o t, n)
<1>1. CASE Len(t) <= n
  BY <1>1, PrefixAll
<1>2. CASE ~ (Len(t) <= n)
  <2> DEFINE p == Prefix(t, n)
             u == SubSeq(t, n + 1, Len(t))
  <2>1. Len(s) \in Nat /\ Len(t) \in Nat
    BY LenProperties
  <2>2. p \in Seq(S) /\ Len(p) = n /\ \A i \in 1 .. n : p[i] = t[i]
    BY <1>2, <2>1, PrefixIs DEF Least
  <2>3. u \in Seq(S)
    <3>1. n + 1 \in Int /\ Len(t) \in Int /\ \A i \in n + 1 .. Len(t) : t[i] \in S
      BY <2>1, LenProperties
    <3> QED BY ONLY <3>1, SubSeqProperties
  <2>4. t = p \o u
    <3>1. t = SubSeq(t, 1, n) \o SubSeq(t, n + 1, Len(t))
      <4>1. t = SubSeq(t, 1, Len(t))
        BY SubSeqFull
      <4>2. 1 \in 1 .. Len(t) + 1 /\ n \in 1 - 1 .. Len(t) /\ Len(t) \in n .. Len(t)
        BY <1>2, <2>1
      <4>3. SubSeq(t, 1, Len(t)) = SubSeq(t, 1, n) \o SubSeq(t, n + 1, Len(t))
        BY ONLY <4>2, t \in Seq(S), ConcatAdjacentSubSeq
      <4> QED BY <4>1, <4>3
    <3>2. p = SubSeq(t, 1, n)
      BY <1>2, <2>1 DEF Prefix, Least
    <3> QED BY <3>1, <3>2
  <2> HIDE DEF p, u
  <2>5. s \o t = (s \o p) \o u
    BY <2>2, <2>3, <2>4, ConcatAssociative
  <2>6. s \o p \in Seq(S) /\ Len(s \o p) = Len(s) + n
    BY <2>2, ConcatProperties
  <2>7. Prefix((s \o p) \o u, n) = Prefix(s \o p, n)
    <3>1. n <= Len(s \o p)
      BY <2>1, <2>6
    <3> QED BY ONLY <2>3, <2>6, <3>1, PrefixCut, n \in Nat
  <2> QED BY <2>5, <2>7 DEF p
<1> QED BY <1>1, <1>2

(* The numerals.                                                           *)
LEMMA NumeralIs ==
  \A d \in 0 .. 9 : IsDigit(Numerals[d + 1]) /\ char_to_int(Numerals[d + 1]) = d
<1>1. /\ Numerals[1] = "0" /\ Numerals[2] = "1" /\ Numerals[3] = "2" /\ Numerals[4] = "3" /\ Numerals[5] = "4"
      /\ Numerals[6] = "5" /\ Numerals[7] = "6" /\ Numerals[8] = "7" /\ Numerals[9] = "8" /\ Numerals[10] = "9"
  BY DEF Numerals
<1>2. \A d \in 0 .. 9 : d = 0 \/ d = 1 \/ d = 2 \/ d = 3 \/ d = 4 \/ d = 5 \/ d = 6 \/ d = 7 \/ d = 8 \/ d = 9
  OBVIOUS
<1>3. ASSUME NEW d \in 0 .. 9, NEW e \in 0 .. 9, Numerals[d + 1] = Numerals[e + 1] PROVE d = e
  BY <1>1, <1>2, <1>3
<1>4. ASSUME NEW d \in 0 .. 9 PROVE char_to_int(Numerals[d + 1]) = d
  <2>1. \E i \in 0 .. 9 : Numerals[i + 1] = Numerals[d + 1]
    OBVIOUS
  <2>2. char_to_int(Numerals[d + 1]) \in 0 .. 9 /\ Numerals[char_to_int(Numerals[d + 1]) + 1] = Numerals[d + 1]
    BY <2>1 DEF char_to_int
  <2> QED BY <1>3, <2>2
<1>5. ASSUME NEW d \in 0 .. 9 PROVE IsDigit(Numerals[d + 1])
  <2>1. d + 1 \in 1 .. 10
    OBVIOUS
  <2> QED BY <2>1 DEF IsDigit
<1> QED BY <1>4, <1>5

(* The characters of a format and of what is printed.                      *)
Chars ==
  STRING \cup {"0", "1", "2", "3", "4", "5", "6", "7", "8", "9", "a", "b", "c", "d", "e", "f",
              "-", "+", " ", ".", "*", "%", "!", "u", "x", "s", NUL}

(* The numerals are among them.                                            *)
LEMMA NumeralChars == \A d \in 0 .. 15 : Numerals[d + 1] \in Chars
<1>1. \A i \in 1 .. 16 : \/ i = 1 \/ i = 2 \/ i = 3 \/ i = 4 \/ i = 5 \/ i = 6 \/ i = 7 \/ i = 8
                         \/ i = 9 \/ i = 10 \/ i = 11 \/ i = 12 \/ i = 13 \/ i = 14 \/ i = 15 \/ i = 16
  OBVIOUS
<1>2. \A i \in 1 .. 16 : Numerals[i] \in Chars
  <2>1. /\ Numerals[1] = "0" /\ Numerals[2] = "1" /\ Numerals[3] = "2" /\ Numerals[4] = "3" /\ Numerals[5] = "4"
        /\ Numerals[6] = "5" /\ Numerals[7] = "6" /\ Numerals[8] = "7" /\ Numerals[9] = "8" /\ Numerals[10] = "9"
        /\ Numerals[11] = "a" /\ Numerals[12] = "b" /\ Numerals[13] = "c" /\ Numerals[14] = "d" /\ Numerals[15] = "e" /\ Numerals[16] = "f"
    BY DEF Numerals
  <2>2. /\ "0" \in Chars /\ "1" \in Chars /\ "2" \in Chars /\ "3" \in Chars /\ "4" \in Chars
        /\ "5" \in Chars /\ "6" \in Chars /\ "7" \in Chars /\ "8" \in Chars /\ "9" \in Chars
        /\ "a" \in Chars /\ "b" \in Chars /\ "c" \in Chars /\ "d" \in Chars /\ "e" \in Chars /\ "f" \in Chars
    BY DEF Chars
  <2> QED BY <1>1, <2>1, <2>2
<1>3. \A d \in 0 .. 15 : d + 1 \in 1 .. 16
  OBVIOUS
<1> QED BY <1>2, <1>3

(* The characters of a digit.                                              *)
LEMMA DigitsApart ==
  ASSUME NEW ch, IsDigit(ch)
  PROVE  /\ ch # "-" /\ ch # "+" /\ ch # " " /\ ch # "#" /\ ch # "*" /\ ch # "." /\ ch # NUL /\ ch # "%"
         /\ char_to_int(ch) \in 0 .. 9
<1>1. PICK i \in 1 .. 10 : Numerals[i] = ch
  BY DEF IsDigit
<1>2. i = 1 \/ i = 2 \/ i = 3 \/ i = 4 \/ i = 5 \/ i = 6 \/ i = 7 \/ i = 8 \/ i = 9 \/ i = 10
  OBVIOUS
<1>3. ch \in {"0", "1", "2", "3", "4", "5", "6", "7", "8", "9"}
  BY <1>1, <1>2 DEF Numerals
<1>4. char_to_int(ch) \in 0 .. 9
  <2>1. i - 1 \in 0 .. 9 /\ (i - 1) + 1 = i
    OBVIOUS
  <2>2. \E j \in 0 .. 9 : Numerals[j + 1] = ch
    BY <1>1, <2>1
  <2> QED BY <2>2 DEF char_to_int
<1> QED BY <1>3, <1>4 DEF NUL

(* Digits as the recursion it is.                                          *)
Spells(f, u, base) ==
  /\ f \in [0 .. u -> Seq(Chars)]
  /\ \A n \in 0 .. u :
       f[n] = (IF n < base THEN <<>> ELSE f[n \div base]) \o <<Numerals[(n % base) + 1]>>
SpellsDigits(u, base) == \E f : Spells(f, u, base) /\ Digits(u, base, Numerals) = f[u]

(* The function Digits builds is such a recursion.                         *)
LEMMA DigitsSteps ==
  ASSUME NEW u \in Nat, NEW base \in {10, 16}
  PROVE  SpellsDigits(u, base)
<1> DEFINE Numeral(n) == <<Numerals[(n % base) + 1]>>
           Over(n) == n \div base
           Made(f, n) == (IF n < base THEN <<>> ELSE f[Over(n)]) \o Numeral(n)
           T == {k \in 0 .. u : \E f \in [0 .. k -> Seq(Chars)] : \A n \in 0 .. k : f[n] = Made(f, n)}
           Rule(f) == f = [n \in 0 .. u |-> Made(f, n)]
<1>1. ASSUME NEW n \in Nat
      PROVE  /\ n % base \in 0 .. 15
             /\ Over(n) \in Nat /\ (n > 0 => Over(n) < n)
             /\ Numeral(n) \in Seq(Chars)
  <2>1. n % base \in 0 .. 15
    <3>1. CASE base = 10 BY <3>1
    <3>2. CASE base = 16 BY <3>2
    <3> QED BY <3>1, <3>2
  <2>2. Over(n) \in Nat /\ (n > 0 => Over(n) < n)
    <3>1. CASE base = 10 BY <3>1
    <3>2. CASE base = 16 BY <3>2
    <3> QED BY <3>1, <3>2
  <2>3. Numerals[(n % base) + 1] \in Chars
    BY <2>1, NumeralChars
  <2> QED BY <2>1, <2>2, <2>3
<1>2. base \in Nat /\ \A n \in Nat : Over(n) \in Nat /\ (n > 0 => Over(n) < n)
  BY <1>1
<1> HIDE DEF Numeral, Over
<1>3. 0 \in T
  <2> DEFINE f == [n \in 0 .. 0 |-> <<>> \o Numeral(n)]
  <2>1. \A n \in 0 .. 0 : <<>> \o Numeral(n) \in Seq(Chars) /\ n \in Nat /\ n < base /\ n = 0
    <3>1. Numeral(0) \in Seq(Chars)
      BY <1>1
    <3>2. <<>> \o Numeral(0) \in Seq(Chars)
      BY <3>1, EmptySeq, ConcatProperties
    <3> QED BY <3>2
  <2>2. f \in [0 .. 0 -> Seq(Chars)]
    BY <2>1
  <2>3. \A n \in 0 .. 0 : f[n] = Made(f, n)
    BY <2>1
  <2>4. 0 \in 0 .. u
    OBVIOUS
  <2> HIDE DEF f, Made
  <2> QED BY <2>2, <2>3, <2>4
<1>4. ASSUME NEW k \in 0 .. u, k < u, k \in T PROVE k + 1 \in T
  <2>1. PICK f \in [0 .. k -> Seq(Chars)] : \A n \in 0 .. k : f[n] = Made(f, n)
    BY <1>4
  <2> DEFINE g == [n \in 0 .. k + 1 |-> IF n = k + 1 THEN Made(f, k + 1) ELSE f[n]]
  <2>2. k + 1 \in Nat /\ k + 1 \in 0 .. u /\ Over(k + 1) \in 0 .. k
    <3>1. k + 1 \in Nat /\ k + 1 > 0 /\ k + 1 \in 0 .. u
      BY <1>4
    <3>2. Over(k + 1) \in Nat /\ Over(k + 1) < k + 1
      BY <3>1, <1>2
    <3> QED BY <3>1, <3>2
  <2>3. Made(f, k + 1) \in Seq(Chars)
    <3>1. (IF k + 1 < base THEN <<>> ELSE f[Over(k + 1)]) \in Seq(Chars)
      BY <2>1, <2>2, EmptySeq
    <3>2. Numeral(k + 1) \in Seq(Chars)
      BY <1>1, <2>2
    <3> QED BY <3>1, <3>2, ConcatProperties
  <2>4. g \in [0 .. k + 1 -> Seq(Chars)]
    <3>1. ASSUME NEW n \in 0 .. k + 1, n # k + 1 PROVE f[n] \in Seq(Chars)
      BY <3>1, <2>1
    <3> HIDE DEF Made
    <3> QED BY <2>3, <3>1
  <2>5. ASSUME NEW n \in 0 .. k + 1 PROVE g[n] = Made(g, n)
    <3>1. n \in Nat /\ (~ (n < base) => Over(n) \in 0 .. k)
      <4>1. n \in Nat
        OBVIOUS
      <4>2. Over(n) \in Nat /\ (n > 0 => Over(n) < n)
        BY <1>1, <4>1
      <4>3. ~ (n < base) => n > 0
        BY <1>2, <4>1
      <4> QED BY <4>1, <4>2, <4>3, <1>4
    <3>2. Made(g, n) = Made(f, n)
      <4>1. ~ (n < base) => g[Over(n)] = f[Over(n)]
        <5>1. \A j \in 0 .. k : j \in 0 .. k + 1 /\ j # k + 1
          BY <2>2
        <5> HIDE DEF Made
        <5> QED BY <3>1, <5>1
      <4> QED BY <3>1, <4>1
    <3>3. CASE n = k + 1
      <4>1. g[n] = Made(f, n)
        BY <3>3, <2>2
      <4> QED BY <3>2, <4>1
    <3>4. CASE n # k + 1
      <4>1. n \in 0 .. k /\ g[n] = f[n]
        BY <3>4
      <4> HIDE DEF Made, g
      <4> QED BY <3>2, <4>1, <2>1
    <3> QED BY <3>3, <3>4
  <2> HIDE DEF g, Made
  <2> QED BY <2>2, <2>4, <2>5
<1>5. \A i \in 0 .. u : i \in T
  <2> HIDE DEF T
  <2>1. 0 \in Int /\ u \in Int
    OBVIOUS
  <2> QED BY ONLY <1>3, <1>4, <2>1, Induction
<1>6. PICK f \in [0 .. u -> Seq(Chars)] : \A n \in 0 .. u : f[n] = Made(f, n)
  <2>1. u \in T
    <3> HIDE DEF T
    <3> QED BY <1>5
  <2> HIDE DEF Made
  <2> QED BY <2>1
<1>7. Rule(f)
  <2> HIDE DEF Made
  <2> QED BY <1>6
<1> DEFINE F == CHOOSE g : Rule(g)
<1>8. Rule(F)
  <2> HIDE DEF Rule
  <2> QED BY <1>7
<1>9. Digits(u, base, Numerals) = F[u]
  BY DEF Digits, Numeral, Over
<1>10. Spells(F, u, base)
  <2> HIDE DEF F
  <2>1. F = [n \in 0 .. u |-> F[n]] /\ \A n \in 0 .. u : F[n] = Made(F, n)
    <3> HIDE DEF Made
    <3> QED BY <1>8
  <2> DEFINE P == {k \in 0 .. u : \A n \in 0 .. k : F[n] = f[n]}
  <2>2. ASSUME NEW n \in 0 .. u, \A j \in 0 .. u : j < n => F[j] = f[j] PROVE F[n] = f[n]
    <3>1. Made(F, n) = Made(f, n)
      <4>1. n \in Nat
        OBVIOUS
      <4>2. Over(n) \in Nat /\ (n > 0 => Over(n) < n)
        BY <1>1, <4>1
      <4>3. ~ (n < base) => n > 0
        BY <1>2, <4>1
      <4>4. ~ (n < base) => F[Over(n)] = f[Over(n)]
        BY <2>2, <4>1, <4>2, <4>3
      <4> QED BY <4>4
    <3> HIDE DEF Made
    <3> QED BY <2>1, <1>6, <3>1
  <2>3. 0 \in P
    <3>1. F[0] = f[0]
      BY <2>2
    <3> QED BY <3>1
  <2>4. ASSUME NEW k \in 0 .. u, k < u, k \in P PROVE k + 1 \in P
    <3>1. k + 1 \in 0 .. u /\ \A j \in 0 .. u : j < k + 1 => F[j] = f[j]
      BY <2>4
    <3>2. F[k + 1] = f[k + 1]
      BY <2>2, <3>1
    <3>3. \A n \in 0 .. k + 1 : n \in 0 .. k \/ n = k + 1
      OBVIOUS
    <3> QED BY <2>4, <3>1, <3>2, <3>3
  <2>5. \A i \in 0 .. u : i \in P
    <3> HIDE DEF P
    <3>1. 0 \in Int /\ u \in Int
      OBVIOUS
    <3> QED BY ONLY <2>3, <2>4, <3>1, Induction
  <2>6. \A n \in 0 .. u : F[n] = f[n]
    <3>1. ASSUME NEW n \in 0 .. u PROVE n \in 0 .. n
      OBVIOUS
    <3> QED BY <2>5, <3>1
  <2>7. F = f
    <3>1. f = [n \in 0 .. u |-> f[n]]
      BY <1>6
    <3> QED BY <2>1, <2>6, <3>1
  <2> QED BY <1>6, <2>7 DEF Spells, Numeral, Over
<1> HIDE DEF F
<1> QED BY <1>9, <1>10 DEF SpellsDigits

(* Digits gives characters, at least one.                                  *)
LEMMA DigitsType ==
  ASSUME NEW u \in Nat, NEW base \in {10, 16}
  PROVE  Digits(u, base, Numerals) \in Seq(Chars)
<1>1. SpellsDigits(u, base)
  BY DigitsSteps
<1>2. u \in 0 .. u
  OBVIOUS
<1> QED BY <1>1, <1>2 DEF SpellsDigits, Spells

(* The number that digits stand for: v[i] is what the first i of them give. *)
Values(v, D) ==
  /\ v \in [0 .. Len(D) -> Nat] /\ v[0] = 0
  /\ \A i \in 1 .. Len(D) : v[i] = 10 * v[i - 1] + char_to_int(D[i])
Decimal(D, n) ==
  /\ D \in Seq(Chars) /\ Len(D) \in Nat \ {0}
  /\ \A i \in 1 .. Len(D) : IsDigit(D[i])
  /\ n > 0 => D[1] # "0"
  /\ \E v : Values(v, D) /\ v[Len(D)] = n

(* One digit more.                                                         *)
LEMMA DecimalMore ==
  ASSUME NEW D, NEW n \in Nat, Decimal(D, n), NEW d \in 0 .. 9, n > 0
  PROVE  Decimal(D \o <<Numerals[d + 1]>>, 10 * n + d)
<1> DEFINE ch == Numerals[d + 1]
           E == D \o <<ch>>
           k == Len(D)
<1>1. D \in Seq(Chars) /\ k \in Nat /\ k >= 1 /\ \A i \in 1 .. k : IsDigit(D[i])
  BY DEF Decimal
<1>2. ch \in Chars /\ IsDigit(ch) /\ char_to_int(ch) = d
  BY NumeralChars, NumeralIs
<1> HIDE DEF ch
<1>3. <<ch>> \in Seq(Chars) /\ Len(<<ch>>) = 1 /\ <<ch>>[1] = ch
  BY <1>2
<1>4. /\ E \in Seq(Chars) /\ Len(E) = k + 1
      /\ \A i \in 1 .. k : E[i] = D[i]
      /\ E[k + 1] = ch
  <2>1. /\ E \in Seq(Chars) /\ Len(E) = Len(D) + Len(<<ch>>)
        /\ \A i \in 1 .. Len(D) + Len(<<ch>>) : E[i] = IF i <= Len(D) THEN D[i] ELSE <<ch>>[i - Len(D)]
    BY <1>1, <1>3, ConcatProperties
  <2> HIDE DEF E
  <2> QED BY <1>1, <1>3, <2>1
<1>5. PICK v : Values(v, D) /\ v[k] = n
  BY DEF Decimal
<1> DEFINE w == [i \in 0 .. k + 1 |-> IF i = k + 1 THEN 10 * n + d ELSE v[i]]
<1> HIDE DEF E
<1>6. w \in [0 .. k + 1 -> Nat]
  <2>1. \A i \in 0 .. k + 1 : i # k + 1 => v[i] \in Nat
    BY <1>1, <1>5 DEF Values
  <2> QED BY <2>1
<1>7. w[0] = 0 /\ w[k + 1] = 10 * n + d
  BY <1>1, <1>5 DEF Values
<1>8. ASSUME NEW i \in 1 .. k + 1 PROVE w[i] = 10 * w[i - 1] + char_to_int(E[i])
  <2>1. CASE i = k + 1
    <3>1. w[i - 1] = n
      BY <1>1, <1>5, <2>1
    <3> HIDE DEF w
    <3> QED BY <1>2, <1>4, <1>7, <2>1, <3>1
  <2>2. CASE i # k + 1
    <3>1. w[i - 1] = v[i - 1] /\ w[i] = v[i] /\ i \in 1 .. k
      BY <1>1, <2>2
    <3> HIDE DEF w
    <3> QED BY <1>4, <1>5, <3>1 DEF Values
  <2> QED BY <2>1, <2>2
<1>9. Values(w, E)
  <2> HIDE DEF w
  <2> QED BY <1>4, <1>6, <1>7, <1>8 DEF Values
<1>10. \A i \in 1 .. k + 1 : IsDigit(E[i])
  <2>1. \A i \in 1 .. k + 1 : i \in 1 .. k \/ i = k + 1
    BY <1>1
  <2> QED BY <1>1, <1>2, <1>4, <2>1
<1>11. E[1] # "0"
  <2>1. E[1] = D[1]
    BY <1>1, <1>4
  <2> QED BY <2>1 DEF Decimal
<1>12. k + 1 \in Nat \ {0}
  BY <1>1
<1>13. Decimal(E, 10 * n + d)
  <2> HIDE DEF w
  <2> QED BY <1>4, <1>7, <1>9, <1>10, <1>11, <1>12 DEF Decimal
<1> QED BY <1>13 DEF E, ch

(* A single digit.                                                         *)
LEMMA DecimalOne ==
  ASSUME NEW d \in 0 .. 9
  PROVE  Decimal(<<Numerals[d + 1]>>, d)
<1> DEFINE ch == Numerals[d + 1]
           E == <<ch>>
<1>1. ch \in Chars /\ IsDigit(ch) /\ char_to_int(ch) = d
  BY NumeralChars, NumeralIs
<1>2. d > 0 => ch # "0"
  <2>1. char_to_int(Numerals[1]) = 0 /\ Numerals[1] = "0"
    <3>1. 0 \in 0 .. 9 /\ 0 + 1 = 1
      OBVIOUS
    <3>2. Numerals[1] = "0"
      BY DEF Numerals
    <3>3. char_to_int(Numerals[0 + 1]) = 0
      BY <3>1, NumeralIs
    <3> QED BY <3>1, <3>2, <3>3
  <2> HIDE DEF ch
  <2> QED BY <1>1, <2>1
<1> HIDE DEF ch
<1>3. E \in Seq(Chars) /\ Len(E) = 1 /\ E[1] = ch
  BY <1>1
<1> DEFINE w == [i \in 0 .. 1 |-> IF i = 1 THEN d ELSE 0]
<1>4. w \in [0 .. 1 -> Nat] /\ w[0] = 0 /\ w[1] = d
  OBVIOUS
<1> HIDE DEF w, E
<1>5. Values(w, E)
  <2>1. \A i \in 1 .. 1 : i = 1 /\ i - 1 = 0
    OBVIOUS
  <2>2. d = 10 * 0 + d
    OBVIOUS
  <2> QED BY <1>1, <1>3, <1>4, <2>1, <2>2 DEF Values
<1>6. \A i \in 1 .. 1 : i = 1
  OBVIOUS
<1>7. Decimal(E, d)
  BY <1>1, <1>2, <1>3, <1>4, <1>5, <1>6 DEF Decimal
<1> QED BY <1>7 DEF E, ch

(* The decimal digits of a number, most significant first.                 *)
LEMMA DigitsDecimal ==
  ASSUME NEW u \in Nat
  PROVE  Decimal(Digits(u, 10, Numerals), u)
<1>1. SpellsDigits(u, 10)
  BY DigitsSteps
<1>2. PICK f : Spells(f, u, 10) /\ Digits(u, 10, Numerals) = f[u]
  BY <1>1 DEF SpellsDigits
<1> DEFINE T == {k \in 0 .. u : \A n \in 0 .. k : Decimal(f[n], n)}
<1>3. ASSUME NEW n \in 0 .. u, \A j \in 0 .. u : j < n => Decimal(f[j], j) PROVE Decimal(f[n], n)
  <2> DEFINE d == n % 10
             q == n \div 10
  <2>1. d \in 0 .. 9 /\ q \in Nat /\ n = 10 * q + d
    OBVIOUS
  <2>2. f[n] = (IF n < 10 THEN <<>> ELSE f[q]) \o <<Numerals[d + 1]>>
    BY <1>2 DEF Spells
  <2> HIDE DEF d, q
  <2>3. CASE n < 10
    <3>1. n = d
      BY <2>1, <2>3
    <3>2. <<Numerals[d + 1]>> \in Seq(Chars)
      BY <2>1, NumeralChars
    <3>3. f[n] = <<Numerals[d + 1]>>
      BY <2>2, <2>3, <3>2, ConcatEmptySeq
    <3> QED BY <2>1, <3>1, <3>3, DecimalOne
  <2>4. CASE ~ (n < 10)
    <3>1. q > 0 /\ q < n /\ q \in 0 .. u
      BY <2>1, <2>4
    <3>2. Decimal(f[q], q)
      BY <1>3, <3>1
    <3>3. Decimal(f[q] \o <<Numerals[d + 1]>>, 10 * q + d)
      BY <2>1, <3>1, <3>2, DecimalMore
    <3> QED BY <2>1, <2>2, <2>4, <3>3
  <2> QED BY <2>3, <2>4
<1>4. 0 \in T
  <2>1. \A n \in 0 .. 0 : n = 0
    OBVIOUS
  <2>2. 0 \in 0 .. u /\ \A j \in 0 .. u : ~ (j < 0)
    OBVIOUS
  <2>3. Decimal(f[0], 0)
    BY <1>3, <2>2
  <2> QED BY <2>1, <2>2, <2>3
<1>5. ASSUME NEW k \in 0 .. u, k < u, k \in T PROVE k + 1 \in T
  <2>1. k + 1 \in 0 .. u /\ \A j \in 0 .. u : j < k + 1 => j \in 0 .. k
    BY <1>5
  <2>2. \A n \in 0 .. k + 1 : n \in 0 .. k \/ n = k + 1
    OBVIOUS
  <2>3. Decimal(f[k + 1], k + 1)
    BY <1>3, <1>5, <2>1
  <2> QED BY <1>5, <2>1, <2>2, <2>3
<1>6. \A i \in 0 .. u : i \in T
  <2> HIDE DEF T
  <2>1. 0 \in Int /\ u \in Int
    OBVIOUS
  <2> QED BY ONLY <1>4, <1>5, <2>1, Induction
<1>7. u \in 0 .. u
  OBVIOUS
<1>8. Decimal(f[u], u)
  BY <1>6, <1>7
<1> QED BY <1>2, <1>8

(* A printing as the assumption on the constants has it.                   *)
Printed(p) ==
  /\ p.fn = "vsnprintf" /\ p.maxlen \in Nat \ {0} /\ p.star \in BOOLEAN
  /\ p.before \in Seq(STRING) /\ \A i \in DOMAIN p.before : p.before[i] # NUL
  /\ p.d.flags \subseteq {"-", "0", "+", " "} /\ p.d.min \in Nat /\ p.d.max \in Nat \cup {-1}
  /\ p.d.conv \in {"d", "u", "x", "s"}
  /\ IF p.d.conv = "s" THEN p.arg \in Seq(STRING) /\ p.arg # Null ELSE p.arg \in Int

(* Every printing is one.                                                  *)
LEMMA PrintingsPrinted == ASSUME NEW p \in Printings PROVE Printed(p)
BY CallsAssumption DEF Printed

(* A text is one of these characters.                                      *)
LEMMA StringsAreChars == ASSUME NEW s \in Seq(STRING) PROVE s \in Seq(Chars)
<1>1. STRING \subseteq Chars
  BY DEF Chars
<1> QED BY <1>1, SeqMonotonic

(* One character in front.                                                 *)
LEMMA Before ==
  ASSUME NEW ch \in Chars, NEW rest \in Seq(Chars)
  PROVE  /\ <<ch>> \o rest \in Seq(Chars) /\ Len(<<ch>> \o rest) = Len(rest) + 1
         /\ (<<ch>> \o rest)[1] = ch
         /\ \A i \in 1 .. Len(rest) : (<<ch>> \o rest)[i + 1] = rest[i]
<1> DEFINE s == <<ch>>
           t == s \o rest
<1>1. s \in Seq(Chars) /\ Len(s) = 1 /\ s[1] = ch
  OBVIOUS
<1>2. Len(rest) \in Nat
  BY LenProperties
<1> HIDE DEF s
<1>3. /\ t \in Seq(Chars) /\ Len(t) = Len(s) + Len(rest)
      /\ \A i \in 1 .. Len(s) + Len(rest) : t[i] = IF i <= Len(s) THEN s[i] ELSE rest[i - Len(s)]
  BY <1>1, ConcatProperties
<1> HIDE DEF t
<1>4. \A i \in 1 .. Len(rest) : i + 1 \in 1 .. Len(s) + Len(rest) /\ ~ (i + 1 <= Len(s)) /\ (i + 1) - Len(s) = i
  BY <1>1, <1>2
<1>5. \A i \in 1 .. Len(rest) : t[i + 1] = rest[i]
  BY <1>3, <1>4
<1>6. t[1] = ch /\ Len(t) = Len(rest) + 1
  BY <1>1, <1>2, <1>3
<1> QED BY <1>3, <1>5, <1>6 DEF t, s

(* From pos on the format is rest.                                         *)
At(fmt, pos, rest) ==
  /\ rest \in Seq(Chars) /\ pos \in Nat \ {0} /\ DOMAIN fmt = 1 .. pos - 1 + Len(rest)
  /\ \A i \in 1 .. Len(rest) : fmt[pos - 1 + i] = rest[i]

(* In the beginning the whole format is ahead.                             *)
LEMMA AtStart == ASSUME NEW fmt \in Seq(Chars) PROVE At(fmt, 1, fmt)
<1>1. Len(fmt) \in Nat /\ DOMAIN fmt = 1 .. Len(fmt)
  BY LenProperties
<1>2. 1 - 1 + Len(fmt) = Len(fmt) /\ \A i \in 1 .. Len(fmt) : 1 - 1 + i = i
  BY <1>1
<1> QED BY <1>1, <1>2 DEF At

(* The character at pos, and what is behind it.                            *)
LEMMA AtHead ==
  ASSUME NEW fmt, NEW pos, NEW ch \in Chars, NEW rest \in Seq(Chars), At(fmt, pos, <<ch>> \o rest)
  PROVE  pos \in DOMAIN fmt /\ fmt[pos] = ch /\ At(fmt, pos + 1, rest)
<1> DEFINE t == <<ch>> \o rest
<1>1. t \in Seq(Chars) /\ Len(t) = Len(rest) + 1 /\ t[1] = ch /\ \A i \in 1 .. Len(rest) : t[i + 1] = rest[i]
  BY Before
<1>2. Len(rest) \in Nat
  BY LenProperties
<1>3. pos \in Nat \ {0} /\ DOMAIN fmt = 1 .. pos - 1 + Len(t) /\ \A i \in 1 .. Len(t) : fmt[pos - 1 + i] = t[i]
  BY DEF At
<1> HIDE DEF t
<1>4. pos \in DOMAIN fmt /\ fmt[pos] = ch
  <2>1. 1 \in 1 .. Len(t) /\ pos - 1 + 1 = pos /\ pos \in 1 .. pos - 1 + Len(t)
    BY <1>1, <1>2, <1>3
  <2> QED BY <1>1, <1>3, <2>1
<1>5. (pos + 1) \in Nat \ {0} /\ DOMAIN fmt = 1 .. (pos + 1) - 1 + Len(rest)
  <2>1. (pos + 1) - 1 + Len(rest) = pos - 1 + Len(t)
    BY <1>1, <1>2, <1>3
  <2> QED BY <1>3, <2>1
<1>6. ASSUME NEW i \in 1 .. Len(rest) PROVE fmt[(pos + 1) - 1 + i] = rest[i]
  <2>1. i + 1 \in 1 .. Len(t) /\ pos - 1 + (i + 1) = (pos + 1) - 1 + i
    BY <1>1, <1>2, <1>3
  <2> QED BY <1>1, <1>3, <2>1
<1> QED BY <1>4, <1>5, <1>6 DEF At

(* Nothing is ahead at the end.                                            *)
LEMMA AtEnd == ASSUME NEW fmt, NEW pos, At(fmt, pos, <<>>) PROVE pos \notin DOMAIN fmt
BY DEF At

(* Inside of digits D, the first i of which have been read.                *)
LEMMA AtInside ==
  ASSUME NEW fmt, NEW pos \in Nat, NEW D \in Seq(Chars), NEW rest \in Seq(Chars), NEW i \in 0 .. Len(D), At(fmt, pos - i, D \o rest)
  PROVE  /\ i < Len(D) => pos \in DOMAIN fmt /\ fmt[pos] = D[i + 1]
         /\ i = Len(D) => At(fmt, pos, rest)
<1> DEFINE t == D \o rest
<1>1. Len(D) \in Nat /\ Len(rest) \in Nat
  BY LenProperties
<1>2. /\ t \in Seq(Chars) /\ Len(t) = Len(D) + Len(rest)
      /\ \A j \in 1 .. Len(D) + Len(rest) : t[j] = IF j <= Len(D) THEN D[j] ELSE rest[j - Len(D)]
  BY ConcatProperties
<1>3. pos - i \in Nat \ {0} /\ DOMAIN fmt = 1 .. pos - i - 1 + Len(t) /\ \A j \in 1 .. Len(t) : fmt[pos - i - 1 + j] = t[j]
  BY DEF At
<1> HIDE DEF t
<1>4. ASSUME i < Len(D) PROVE pos \in DOMAIN fmt /\ fmt[pos] = D[i + 1]
  <2>1. i + 1 \in 1 .. Len(t) /\ i + 1 <= Len(D) /\ pos - i - 1 + (i + 1) = pos /\ pos \in 1 .. pos - i - 1 + Len(t)
    BY <1>1, <1>2, <1>3, <1>4
  <2>2. fmt[pos - i - 1 + (i + 1)] = t[i + 1]
    BY <1>3, <2>1
  <2>3. t[i + 1] = D[i + 1]
    BY <1>2, <2>1
  <2> QED BY <1>3, <2>1, <2>2, <2>3
<1>5. ASSUME i = Len(D) PROVE At(fmt, pos, rest)
  <2>1. pos \in Nat \ {0} /\ DOMAIN fmt = 1 .. pos - 1 + Len(rest)
    <3>1. pos - i - 1 + Len(t) = pos - 1 + Len(rest)
      BY <1>1, <1>2, <1>3, <1>5
    <3>2. pos \in Nat \ {0}
      BY <1>3
    <3> QED BY <1>3, <3>1, <3>2
  <2>2. ASSUME NEW j \in 1 .. Len(rest) PROVE fmt[pos - 1 + j] = rest[j]
    <3>1. i + j \in 1 .. Len(t) /\ ~ (i + j <= Len(D)) /\ pos - i - 1 + (i + j) = pos - 1 + j /\ (i + j) - Len(D) = j
      BY <1>1, <1>2, <1>5
    <3>2. fmt[pos - i - 1 + (i + j)] = t[i + j]
      BY <1>3, <3>1
    <3>3. t[i + j] = rest[(i + j) - Len(D)]
      BY <1>2, <3>1
    <3> QED BY <3>1, <3>2, <3>3
  <2> QED BY <2>1, <2>2 DEF At
<1> QED BY <1>4, <1>5

(* The text of a directive.                                                *)
LEMMA SomeChars ==
  /\ "-" \in Chars /\ "+" \in Chars /\ " " \in Chars /\ "0" \in Chars /\ "." \in Chars /\ "*" \in Chars
  /\ "%" \in Chars /\ "!" \in Chars /\ "d" \in Chars /\ "u" \in Chars /\ "x" \in Chars /\ "s" \in Chars /\ NUL \in Chars
BY DEF Chars

(* The parts of a directive are texts.                                     *)
LEMMA DirectiveType ==
  ASSUME NEW p, Printed(p)
  PROVE  /\ p.d.conv \in Chars
         /\ <<"!">> \in Seq(Chars) /\ Ending(p) \in Seq(Chars) /\ Precision(p) \in Seq(Chars) /\ Width(p) \in Seq(Chars)
         /\ Number(p.d.min) \in Seq(Chars) /\ (p.d.max >= 0 => Number(p.d.max) \in Seq(Chars) /\ Number(p.d.max) \o Ending(p) \in Seq(Chars))
<1>1. p.d.max \in Nat \cup {-1} /\ p.d.min \in Nat /\ p.d.conv \in {"d", "u", "x", "s"}
  BY DEF Printed
<1>2. p.d.conv \in Chars /\ <<"!">> \in Seq(Chars)
  <2>1. p.d.conv \in Chars
    BY <1>1, SomeChars
  <2>2. "!" \in Chars
    BY SomeChars
  <2> QED BY <2>1, <2>2
<1>3. Ending(p) \in Seq(Chars)
  BY <1>2, Before DEF Ending
<1>4. p.d.max >= 0 => Number(p.d.max) \in Seq(Chars)
  <2>1. ASSUME p.d.max >= 0 PROVE p.d.max \in Nat
    BY <1>1, <2>1
  <2> QED BY <2>1, DigitsType DEF Number
<1>5. Number(p.d.min) \in Seq(Chars)
  BY <1>1, DigitsType DEF Number
<1>6. p.d.max >= 0 => Number(p.d.max) \o Ending(p) \in Seq(Chars)
  BY <1>3, <1>4, ConcatProperties
<1>7. Precision(p) \in Seq(Chars)
  <2>1. CASE p.d.max < 0
    BY <1>3, <2>1 DEF Precision
  <2>2. CASE ~ (p.d.max < 0)
    <3>1. p.d.max >= 0
      BY <1>1, <2>2
    <3>2. <<".">> \o (Number(p.d.max) \o Ending(p)) \in Seq(Chars)
      BY <1>6, <3>1, SomeChars, Before
    <3> QED BY <2>2, <3>2 DEF Precision
  <2> QED BY <2>1, <2>2
<1>8. Width(p) \in Seq(Chars)
  <2>1. <<"*">> \o Precision(p) \in Seq(Chars)
    BY <1>7, SomeChars, Before
  <2>2. Number(p.d.min) \o Precision(p) \in Seq(Chars)
    BY <1>5, <1>7, ConcatProperties
  <2> QED BY <1>7, <2>1, <2>2 DEF Width
<1> QED BY <1>2, <1>3, <1>4, <1>5, <1>6, <1>7, <1>8

(* The flags and the text in front, character by character from the end.   *)
FlagText(f, p) ==
  /\ f[0] = Width(p) /\ \A i \in 0 .. 4 : f[i] \in Seq(Chars)
  /\ \A i \in 1 .. 4 : f[i] = IF Order[i] \in p.d.flags THEN <<Order[i]>> \o f[i - 1] ELSE f[i - 1]

(* The flags a directive is spelled with are such texts.                   *)
LEMMA FlagsFollow ==
  ASSUME NEW p, Printed(p)
  PROVE  FlagText(Flagged(p), p)
<1> DEFINE S == Seq(Chars)
           base == Width(p)
           More(i, s) == IF Order[i] \in p.d.flags THEN <<Order[i]>> \o s ELSE s
           step == [pr \in (0 .. 4) \X S |-> IF pr[1] = 0 THEN base ELSE More(pr[1], pr[2])]
           Rule(f) == f = [i \in 0 .. 4 |-> IF i = 0 THEN base ELSE More(i, f[i - 1])]
<1>1. base \in S
  BY DirectiveType
<1>2. ASSUME NEW i \in 1 .. 4, NEW s \in S PROVE More(i, s) \in S
  <2>1. Order[i] \in Chars
    <3>1. i = 1 \/ i = 2 \/ i = 3 \/ i = 4
      OBVIOUS
    <3>2. Order[1] = " " /\ Order[2] = "+" /\ Order[3] = "0" /\ Order[4] = "-"
      BY DEF Order
    <3> QED BY <3>1, <3>2, SomeChars
  <2>2. <<Order[i]>> \o s \in S
    BY <2>1, Before
  <2> QED BY <2>2
<1> HIDE DEF base, More
<1>3. Steps(step, 0, 4, S)
  <2> HIDE DEF S
  <2>1. ASSUME NEW i \in 0 .. 4, NEW s \in S PROVE (IF i = 0 THEN base ELSE More(i, s)) \in S
    <3>1. i # 0 => i \in 1 .. 4
      OBVIOUS
    <3> QED BY <1>1, <1>2, <3>1
  <2>2. \A pr \in (0 .. 4) \X S : (IF pr[1] = 0 THEN base ELSE More(pr[1], pr[2])) \in S
    BY <2>1
  <2>3. step \in [(0 .. 4) \X S -> S]
    BY <2>2
  <2> QED BY <2>3 DEF Steps
<1>4. PICK f : Loops(f, 0, 4, S, base, step)
  <2> HIDE DEF S, step
  <2>1. 0 \in Int /\ 4 \in Int /\ 0 <= 4
    OBVIOUS
  <2> QED BY ONLY <1>1, <1>3, <2>1, LoopExists
<1>5. f \in [0 .. 4 -> S] /\ \A i \in 0 .. 4 : f[i] = IF i = 0 THEN base ELSE step[<<i, f[i - 1]>>]
  <2> HIDE DEF S, step
  <2> QED BY <1>4 DEF Loops
<1>6. ASSUME NEW i \in 0 .. 4 PROVE f[i] = IF i = 0 THEN base ELSE More(i, f[i - 1])
  <2>1. CASE i = 0
    <3> HIDE DEF step
    <3> QED BY <1>5, <2>1
  <2>2. CASE i # 0
    <3>1. i - 1 \in 0 .. 4
      BY <2>2
    <3>2. f[i - 1] \in S
      BY <1>5, <3>1
    <3>3. step[<<i, f[i - 1]>>] = More(i, f[i - 1])
      <4> HIDE DEF S
      <4> QED BY <2>2, <3>2
    <3> HIDE DEF step
    <3> QED BY <1>5, <2>2, <3>3
  <2> QED BY <2>1, <2>2
<1>7. Rule(f)
  BY <1>5, <1>6
<1> DEFINE F == CHOOSE g : Rule(g)
<1>8. Rule(F)
  <2> HIDE DEF Rule
  <2> QED BY <1>7
<1>9. Flagged(p) = F
  BY DEF Flagged, base, More
<1> HIDE DEF F
<1>10. \A i \in 0 .. 4 : F[i] = IF i = 0 THEN base ELSE More(i, F[i - 1])
  BY <1>8
<1>11. F[0] = base
  <2>1. 0 \in 0 .. 4
    OBVIOUS
  <2> QED BY <1>10, <2>1
<1>12. ASSUME NEW i \in 1 .. 4 PROVE F[i] = More(i, F[i - 1])
  <2>1. i \in 0 .. 4 /\ i # 0
    OBVIOUS
  <2> QED BY <1>10, <2>1
<1> DEFINE T == {i \in 0 .. 4 : F[i] \in S}
<1>13. \A i \in 0 .. 4 : i \in T
  <2>1. 0 \in T
    BY <1>1, <1>11
  <2>2. ASSUME NEW i \in 0 .. 4, i < 4, i \in T PROVE i + 1 \in T
    <3>1. i + 1 \in 1 .. 4 /\ i + 1 \in 0 .. 4 /\ (i + 1) - 1 = i /\ F[i] \in S
      BY <2>2
    <3>2. F[i + 1] = More(i + 1, F[i])
      BY <1>12, <3>1
    <3> HIDE DEF S
    <3> QED BY <1>2, <3>1, <3>2
  <2> HIDE DEF T
  <2>3. 0 \in Int /\ 4 \in Int
    OBVIOUS
  <2> QED BY ONLY <2>1, <2>2, <2>3, Induction
<1>14. \A i \in 0 .. 4 : F[i] \in Seq(Chars)
  BY <1>13
<1> QED BY <1>9, <1>11, <1>12, <1>14 DEF FlagText, base, More

CharAt(p, i) == p.before[Len(p.before) - i + 1]
EscapedText(f, p) ==
  /\ f[0] = <<"%">> \o Flagged(p)[4] /\ \A i \in 0 .. Len(p.before) : f[i] \in Seq(Chars)
  /\ \A i \in 1 .. Len(p.before) :
       f[i] = IF CharAt(p, i) = "%" THEN <<"%">> \o (<<"%">> \o f[i - 1]) ELSE <<CharAt(p, i)>> \o f[i - 1]

(* The text in front has characters, none of them NUL.                     *)
LEMMA CharsBefore ==
  ASSUME NEW p, Printed(p)
  PROVE  /\ Len(p.before) \in Nat /\ p.before \in Seq(Chars)
         /\ \A i \in 1 .. Len(p.before) : CharAt(p, i) \in Chars /\ CharAt(p, i) # NUL
<1>1. p.before \in Seq(STRING) /\ \A i \in DOMAIN p.before : p.before[i] # NUL
  BY DEF Printed
<1>2. p.before \in Seq(Chars)
  BY <1>1, StringsAreChars
<1>3. Len(p.before) \in Nat /\ DOMAIN p.before = 1 .. Len(p.before)
  BY <1>1, LenProperties
<1>4. ASSUME NEW i \in 1 .. Len(p.before) PROVE CharAt(p, i) \in Chars /\ CharAt(p, i) # NUL
  <2>1. Len(p.before) - i + 1 \in 1 .. Len(p.before)
    BY <1>3
  <2> QED BY <1>1, <1>2, <1>3, <2>1, ElementOfSeq DEF CharAt
<1> QED BY <1>2, <1>3, <1>4

(* The text in front is spelled so.                                        *)
LEMMA EscapedFollow ==
  ASSUME NEW p, Printed(p)
  PROVE  EscapedText(Escaped(p), p)
<1> DEFINE S == Seq(Chars)
           n == Len(p.before)
           base == <<"%">> \o Flagged(p)[4]
           More(i, s) == IF CharAt(p, i) = "%" THEN <<"%">> \o (<<"%">> \o s) ELSE <<CharAt(p, i)>> \o s
           step == [pr \in (0 .. n) \X S |-> IF pr[1] = 0 THEN base ELSE More(pr[1], pr[2])]
           Rule(f) == f = [i \in 0 .. n |-> IF i = 0 THEN base ELSE More(i, f[i - 1])]
<1>1. base \in S
  <2>1. Flagged(p)[4] \in Seq(Chars)
    <3>1. 4 \in 0 .. 4
      OBVIOUS
    <3> QED BY <3>1, FlagsFollow DEF FlagText
  <2> QED BY <2>1, SomeChars, Before
<1>2. n \in Nat
  BY CharsBefore
<1>3. ASSUME NEW i \in 1 .. n, NEW s \in S PROVE More(i, s) \in S
  <2>1. CharAt(p, i) \in Chars
    BY CharsBefore
  <2>2. <<CharAt(p, i)>> \o s \in S
    BY <2>1, Before
  <2>3. <<"%">> \o s \in S
    BY SomeChars, Before
  <2>4. <<"%">> \o (<<"%">> \o s) \in S
    BY <2>3, SomeChars, Before
  <2> QED BY <2>2, <2>4
<1> HIDE DEF base, More, n
<1>4. Steps(step, 0, n, S)
  <2> HIDE DEF S
  <2>1. ASSUME NEW i \in 0 .. n, NEW s \in S PROVE (IF i = 0 THEN base ELSE More(i, s)) \in S
    <3>1. i # 0 => i \in 1 .. n
      OBVIOUS
    <3> QED BY <1>1, <1>3, <3>1
  <2>2. \A pr \in (0 .. n) \X S : (IF pr[1] = 0 THEN base ELSE More(pr[1], pr[2])) \in S
    BY <2>1
  <2>3. step \in [(0 .. n) \X S -> S]
    BY <2>2
  <2> QED BY <2>3 DEF Steps
<1>5. PICK f : Loops(f, 0, n, S, base, step)
  <2> HIDE DEF S, step
  <2>1. 0 \in Int /\ n \in Int /\ 0 <= n
    BY <1>2
  <2> QED BY ONLY <1>1, <1>4, <2>1, LoopExists
<1>6. f \in [0 .. n -> S] /\ \A i \in 0 .. n : f[i] = IF i = 0 THEN base ELSE step[<<i, f[i - 1]>>]
  <2> HIDE DEF S, step
  <2> QED BY <1>5 DEF Loops
<1>7. ASSUME NEW i \in 0 .. n PROVE f[i] = IF i = 0 THEN base ELSE More(i, f[i - 1])
  <2>1. CASE i = 0
    <3> HIDE DEF step
    <3> QED BY <1>6, <2>1
  <2>2. CASE i # 0
    <3>1. i - 1 \in 0 .. n
      BY <1>2, <2>2
    <3>2. f[i - 1] \in S
      BY <1>6, <3>1
    <3>3. step[<<i, f[i - 1]>>] = More(i, f[i - 1])
      <4> HIDE DEF S
      <4> QED BY <2>2, <3>2
    <3> HIDE DEF step
    <3> QED BY <1>6, <2>2, <3>3
  <2> QED BY <2>1, <2>2
<1>8. Rule(f)
  BY <1>6, <1>7
<1> DEFINE F == CHOOSE g : Rule(g)
<1>9. Rule(F)
  <2> HIDE DEF Rule
  <2> QED BY <1>8
<1>10. Escaped(p) = F
  BY DEF Escaped, base, More, n, CharAt
<1> HIDE DEF F
<1>11. \A i \in 0 .. n : F[i] = IF i = 0 THEN base ELSE More(i, F[i - 1])
  BY <1>9
<1>12. F[0] = base
  <2>1. 0 \in 0 .. n
    BY <1>2
  <2> QED BY <1>11, <2>1
<1>13. ASSUME NEW i \in 1 .. n PROVE F[i] = More(i, F[i - 1])
  <2>1. i \in 0 .. n /\ i # 0
    BY <1>2
  <2> QED BY <1>11, <2>1
<1> DEFINE T == {i \in 0 .. n : F[i] \in S}
<1>14. \A i \in 0 .. n : i \in T
  <2>1. 0 \in T
    BY <1>2, <1>1, <1>12
  <2>2. ASSUME NEW i \in 0 .. n, i < n, i \in T PROVE i + 1 \in T
    <3>1. i + 1 \in 1 .. n /\ i + 1 \in 0 .. n /\ (i + 1) - 1 = i /\ F[i] \in S
      BY <1>2, <2>2
    <3>2. F[i + 1] = More(i + 1, F[i])
      BY <1>13, <3>1
    <3> HIDE DEF S
    <3> QED BY <1>3, <3>1, <3>2
  <2> HIDE DEF T
  <2>3. 0 \in Int /\ n \in Int
    BY <1>2
  <2> QED BY ONLY <2>1, <2>2, <2>3, Induction
<1>15. \A i \in 0 .. n : F[i] \in Seq(Chars)
  BY <1>14
<1> QED BY <1>10, <1>12, <1>13, <1>15 DEF EscapedText, base, More, n

(* The flags read when the last i of Order are left.                       *)
Seen(p, i) == {Order[j] : j \in i + 1 .. 4} \cap p.d.flags

(* The next character that is there: that of the flag i, or what follows   *)
(* the flags.                                                              *)
LEMMA FlagNext ==
  ASSUME NEW p, Printed(p), NEW i \in 0 .. 4
  PROVE  \E j \in 0 .. i : /\ Flagged(p)[j] = Flagged(p)[i] /\ Seen(p, j) = Seen(p, i)
                           /\ j # 0 => Order[j] \in p.d.flags
<1> DEFINE Skipped(k) == \E j \in 0 .. k : /\ Flagged(p)[j] = Flagged(p)[k] /\ Seen(p, j) = Seen(p, k)
                                           /\ j # 0 => Order[j] \in p.d.flags
           T == {k \in 0 .. 4 : Skipped(k)}
<1>1. 0 \in T
  <2>1. 0 \in 0 .. 0 /\ 0 \in 0 .. 4
    OBVIOUS
  <2> QED BY <2>1
<1>2. ASSUME NEW k \in 0 .. 4, k < 4, k \in T PROVE k + 1 \in T
  <2>1. k + 1 \in 1 .. 4 /\ k + 1 \in 0 .. 4 /\ (k + 1) - 1 = k /\ k + 1 \in 0 .. k + 1 /\ k + 1 # 0
    BY <1>2
  <2>2. CASE Order[k + 1] \in p.d.flags
    <3>1. Skipped(k + 1)
      BY <2>1, <2>2
    <3> QED BY <2>1, <3>1
  <2>3. CASE Order[k + 1] \notin p.d.flags
    <3>1. Flagged(p)[k + 1] = Flagged(p)[k]
      <4>1. FlagText(Flagged(p), p)
        BY FlagsFollow
      <4> QED BY <2>1, <2>3, <4>1 DEF FlagText
    <3>2. Seen(p, k) = Seen(p, k + 1)
      <4>1. \A l \in k + 1 .. 4 : l = k + 1 \/ l \in (k + 1) + 1 .. 4
        BY <1>2
      <4>2. \A l \in (k + 1) + 1 .. 4 : l \in k + 1 .. 4
        BY <1>2
      <4> QED BY <2>3, <4>1, <4>2 DEF Seen
    <3>3. PICK j \in 0 .. k : /\ Flagged(p)[j] = Flagged(p)[k] /\ Seen(p, j) = Seen(p, k)
                              /\ j # 0 => Order[j] \in p.d.flags
      BY <1>2
    <3>4. j \in 0 .. k + 1
      OBVIOUS
    <3>5. Skipped(k + 1)
      BY <3>1, <3>2, <3>3, <3>4
    <3> QED BY <2>1, <3>5
  <2> QED BY <2>2, <2>3
<1>3. \A k \in 0 .. 4 : k \in T
  <2> HIDE DEF T
  <2>1. 0 \in Int /\ 4 \in Int
    OBVIOUS
  <2> QED BY ONLY <1>1, <1>2, <2>1, Induction
<1> QED BY <1>3

(* A flag is one of four characters; all of them are seen in the end.      *)
LEMMA FlagsSeen ==
  ASSUME NEW p, Printed(p)
  PROVE  /\ Seen(p, 4) = {} /\ Seen(p, 0) = p.d.flags
         /\ \A i \in 1 .. 4 : Order[i] \in p.d.flags => Seen(p, i) \cup {Order[i]} = Seen(p, i - 1)
         /\ \A i \in 1 .. 4 : Order[i] \in {" ", "+", "0", "-"}
<1>1. Order[1] = " " /\ Order[2] = "+" /\ Order[3] = "0" /\ Order[4] = "-"
  BY DEF Order
<1>2. \A i \in 1 .. 4 : i = 1 \/ i = 2 \/ i = 3 \/ i = 4
  OBVIOUS
<1>3. p.d.flags \subseteq {"-", "0", "+", " "}
  BY DEF Printed
<1>4. Seen(p, 4) = {}
  <2>1. 4 + 1 .. 4 = {}
    OBVIOUS
  <2> QED BY <2>1 DEF Seen
<1>5. Seen(p, 0) = p.d.flags
  <2>1. 1 \in 0 + 1 .. 4 /\ 2 \in 0 + 1 .. 4 /\ 3 \in 0 + 1 .. 4 /\ 4 \in 0 + 1 .. 4
    OBVIOUS
  <2>2. ASSUME NEW f \in p.d.flags PROVE f \in {Order[j] : j \in 0 + 1 .. 4}
    <3>1. f = "-" \/ f = "0" \/ f = "+" \/ f = " "
      BY <1>3
    <3> QED BY <1>1, <2>1, <3>1
  <2> QED BY <2>2 DEF Seen
<1>6. ASSUME NEW i \in 1 .. 4, Order[i] \in p.d.flags PROVE Seen(p, i) \cup {Order[i]} = Seen(p, i - 1)
  <2>1. \A l \in (i - 1) + 1 .. 4 : l = i \/ l \in i + 1 .. 4
    OBVIOUS
  <2>2. i \in (i - 1) + 1 .. 4 /\ \A l \in i + 1 .. 4 : l \in (i - 1) + 1 .. 4
    OBVIOUS
  <2> QED BY <1>6, <2>1, <2>2 DEF Seen
<1>7. \A i \in 1 .. 4 : Order[i] \in {" ", "+", "0", "-"}
  BY <1>1, <1>2
<1> QED BY <1>4, <1>5, <1>6, <1>7

(* The record dopr() works on, field by field; count is never read.        *)
Is(m0, fmt, args, n, pos, state, flags, min, max, out) ==
  m0 = [fmt |-> fmt, args |-> args, maxlen |-> n, pos |-> pos, state |-> state, flags |-> flags,
       min |-> min, max |-> max, count |-> m0.count, out |-> out]

(* A step to the next character.                                           *)
LEMMA IsAdvance ==
  ASSUME NEW k, NEW fmt, NEW args, NEW n, NEW pos, NEW state, NEW flags, NEW min, NEW max, NEW out,
         Is(k, fmt, args, n, pos, state, flags, min, max, out)
  PROVE  Is(Advance(k), fmt, args, n, pos + 1, state, flags, min, max, out)
BY DEF Is, Advance

(* A change of the state.                                                  *)
LEMMA IsTo ==
  ASSUME NEW k, NEW fmt, NEW args, NEW n, NEW pos, NEW state, NEW flags, NEW min, NEW max, NEW out, NEW then,
         Is(k, fmt, args, n, pos, state, flags, min, max, out)
  PROVE  Is(To(k, then), fmt, args, n, pos, then, flags, min, max, out)
BY DEF Is, To

(* An argument taken.                                                      *)
LEMMA IsNextArg ==
  ASSUME NEW k, NEW fmt, NEW args, NEW n, NEW pos, NEW state, NEW flags, NEW min, NEW max, NEW out,
         Is(k, fmt, args, n, pos, state, flags, min, max, out)
  PROVE  Is(NextArg(k), fmt, Tail(args), n, pos, state, flags, min, max, out)
<1> DEFINE t == Tail(k.args)
<1>1. t = Tail(args)
  BY DEF Is
<1>2. NextArg(k) = [k EXCEPT !.args = t]
  BY DEF NextArg
<1> HIDE DEF t
<1>3. Is(NextArg(k), fmt, t, n, pos, state, flags, min, max, out)
  BY <1>2 DEF Is
<1> QED BY <1>1, <1>3

(* Characters put out.                                                     *)
LEMMA IsOut ==
  ASSUME NEW k, NEW fmt, NEW args, NEW n, NEW pos, NEW state, NEW flags, NEW min, NEW max, NEW out, NEW chars,
         Is(k, fmt, args, n, pos, state, flags, min, max, out)
  PROVE  Is(dopr_outch(k, chars), fmt, args, n, pos, state, flags, min, max, Prefix(out \o chars, n))
BY DEF Is, dopr_outch

(* What a state of dopr() makes of the next character.                     *)
LEMMA DoneStep ==
  ASSUME NEW k, NEW fmt, NEW args, NEW n, NEW pos, NEW state, NEW flags, NEW min, NEW max, NEW out,
         Is(k, fmt, args, n, pos, state, flags, min, max, out)
  PROVE  Is(Done(k), fmt, args, n, pos, "DONE", flags, min, max, Prefix(out, n - 1) \o <<NUL>>)
<1> DEFINE t == Prefix(k.out, k.maxlen - 1) \o <<NUL>>
           l == [k EXCEPT !.state = "DONE"]
<1>1. t = Prefix(out, n - 1) \o <<NUL>>
  BY DEF Is
<1>2. Done(k) = [l EXCEPT !.out = t]
  BY DEF Done
<1> HIDE DEF t
<1>3. Is(l, fmt, args, n, pos, "DONE", flags, min, max, out)
  BY DEF Is
<1> HIDE DEF l
<1>4. Is(Done(k), fmt, args, n, pos, "DONE", flags, min, max, t)
  BY <1>2, <1>3 DEF Is
<1> QED BY <1>1, <1>4

(* Outside of a directive: a % begins one, the rest is text.               *)
LEMMA DefaultStep ==
  ASSUME NEW k, NEW fmt, NEW args, NEW n, NEW pos, NEW state, NEW flags, NEW min, NEW max, NEW out,
         Is(k, fmt, args, n, pos, state, flags, min, max, out)
  PROVE  /\ Ch(k) = "%" => Is(Default(k), fmt, args, n, pos + 1, "FLAGS", flags, min, max, out)
         /\ Ch(k) # "%" => Is(Default(k), fmt, args, n, pos + 1, state, flags, min, max, Prefix(out \o <<Ch(k)>>, n))
<1>1. Is(Advance(To(k, "FLAGS")), fmt, args, n, pos + 1, "FLAGS", flags, min, max, out)
  BY IsTo, IsAdvance
<1>2. Is(Advance(dopr_outch(k, <<Ch(k)>>)), fmt, args, n, pos + 1, state, flags, min, max, Prefix(out \o <<Ch(k)>>, n))
  BY IsOut, IsAdvance
<1> QED BY <1>1, <1>2 DEF Default

(* A flag is remembered, anything else ends the flags.                     *)
LEMMA FlagsStep ==
  ASSUME NEW k, NEW fmt, NEW args, NEW n, NEW pos, NEW state, NEW flags, NEW min, NEW max, NEW out,
         Is(k, fmt, args, n, pos, state, flags, min, max, out)
  PROVE  /\ Ch(k) \in {"-", "+", " ", "#", "0"} =>
              Is(Flags(k), fmt, args, n, pos + 1, state, flags \cup {Ch(k)}, min, max, out)
         /\ Ch(k) \notin {"-", "+", " ", "#", "0"} => Is(Flags(k), fmt, args, n, pos, "MIN", flags, min, max, out)
<1> DEFINE l == [k EXCEPT !.flags = @ \cup {Ch(k)}]
<1>1. Is(l, fmt, args, n, pos, state, flags \cup {Ch(k)}, min, max, out)
  BY DEF Is
<1>2. Flags(k) = IF Ch(k) \in {"-", "+", " ", "#", "0"} THEN Advance(l) ELSE To(k, "MIN")
  BY DEF Flags
<1> HIDE DEF l
<1>3. Is(Advance(l), fmt, args, n, pos + 1, state, flags \cup {Ch(k)}, min, max, out)
  BY <1>1, IsAdvance
<1>4. Is(To(k, "MIN"), fmt, args, n, pos, "MIN", flags, min, max, out)
  BY IsTo
<1> QED BY <1>2, <1>3, <1>4

(* A digit of the width, a star for it, or its end.                        *)
LEMMA MinStep ==
  ASSUME NEW k, NEW fmt, NEW args, NEW n, NEW pos, NEW state, NEW flags, NEW min, NEW max, NEW out,
         Is(k, fmt, args, n, pos, state, flags, min, max, out)
  PROVE  /\ IsDigit(Ch(k)) => Is(MinWidth(k), fmt, args, n, pos + 1, state, flags, 10 * min + char_to_int(Ch(k)), max, out)
         /\ ~ IsDigit(Ch(k)) /\ Ch(k) = "*" => Is(MinWidth(k), fmt, Tail(args), n, pos + 1, "DOT", flags, Head(args), max, out)
         /\ ~ IsDigit(Ch(k)) /\ Ch(k) # "*" => Is(MinWidth(k), fmt, args, n, pos, "DOT", flags, min, max, out)
<1> DEFINE l == [k EXCEPT !.min = 10 * @ + char_to_int(Ch(k))]
           s == [k EXCEPT !.min = Head(k.args)]
<1>1. Is(l, fmt, args, n, pos, state, flags, 10 * min + char_to_int(Ch(k)), max, out)
  BY DEF Is
<1>2. Is(s, fmt, args, n, pos, state, flags, Head(args), max, out)
  BY DEF Is
<1>3. /\ IsDigit(Ch(k)) => MinWidth(k) = Advance(l)
      /\ ~ IsDigit(Ch(k)) /\ Ch(k) = "*" => MinWidth(k) = Advance(To(NextArg(s), "DOT"))
      /\ ~ IsDigit(Ch(k)) /\ Ch(k) # "*" => MinWidth(k) = To(k, "DOT")
  <2>1. ASSUME IsDigit(Ch(k)) PROVE MinWidth(k) = Advance(l) /\ Ch(k) # "*"
    <3>1. Ch(k) # "*"
      BY <2>1, DigitsApart
    <3> QED BY <2>1, <3>1 DEF MinWidth
  <2>2. ASSUME ~ IsDigit(Ch(k)), Ch(k) = "*" PROVE MinWidth(k) = Advance(To(NextArg(s), "DOT"))
    BY <2>2 DEF MinWidth
  <2>3. ASSUME ~ IsDigit(Ch(k)), Ch(k) # "*" PROVE MinWidth(k) = To(k, "DOT")
    BY <2>3 DEF MinWidth
  <2> QED BY <2>1, <2>2, <2>3
<1> HIDE DEF l, s
<1>4. Is(Advance(l), fmt, args, n, pos + 1, state, flags, 10 * min + char_to_int(Ch(k)), max, out)
  BY <1>1, IsAdvance
<1>5. Is(Advance(To(NextArg(s), "DOT")), fmt, Tail(args), n, pos + 1, "DOT", flags, Head(args), max, out)
  <2>1. Is(NextArg(s), fmt, Tail(args), n, pos, state, flags, Head(args), max, out)
    BY <1>2, IsNextArg
  <2>2. Is(To(NextArg(s), "DOT"), fmt, Tail(args), n, pos, "DOT", flags, Head(args), max, out)
    BY <2>1, IsTo
  <2> QED BY <2>2, IsAdvance
<1>6. Is(To(k, "DOT"), fmt, args, n, pos, "DOT", flags, min, max, out)
  BY IsTo
<1> QED BY <1>3, <1>4, <1>5, <1>6

(* A dot begins a precision.                                               *)
LEMMA DotStep ==
  ASSUME NEW k, NEW fmt, NEW args, NEW n, NEW pos, NEW state, NEW flags, NEW min, NEW max, NEW out,
         Is(k, fmt, args, n, pos, state, flags, min, max, out)
  PROVE  /\ Ch(k) = "." => Is(Dot(k), fmt, args, n, pos + 1, "MAX", flags, min, max, out)
         /\ Ch(k) # "." => Is(Dot(k), fmt, args, n, pos, "MOD", flags, min, max, out)
<1>1. Is(Advance(To(k, "MAX")), fmt, args, n, pos + 1, "MAX", flags, min, max, out)
  BY IsTo, IsAdvance
<1>2. Is(To(k, "MOD"), fmt, args, n, pos, "MOD", flags, min, max, out)
  BY IsTo
<1> QED BY <1>1, <1>2 DEF Dot

(* A digit of the precision, or its end.                                   *)
LEMMA MaxStep ==
  ASSUME NEW k, NEW fmt, NEW args, NEW n, NEW pos, NEW state, NEW flags, NEW min, NEW max, NEW out,
         Is(k, fmt, args, n, pos, state, flags, min, max, out)
  PROVE  /\ IsDigit(Ch(k)) => Is(MaxWidth(k), fmt, args, n, pos + 1, state, flags, min, 10 * Most(max, 0) + char_to_int(Ch(k)), out)
         /\ ~ IsDigit(Ch(k)) /\ Ch(k) # "*" => Is(MaxWidth(k), fmt, args, n, pos, "MOD", flags, min, max, out)
<1> DEFINE l == [k EXCEPT !.max = 10 * Most(@, 0) + char_to_int(Ch(k))]
<1>1. Is(l, fmt, args, n, pos, state, flags, min, 10 * Most(max, 0) + char_to_int(Ch(k)), out)
  BY DEF Is
<1>2. /\ IsDigit(Ch(k)) => MaxWidth(k) = Advance(l)
      /\ ~ IsDigit(Ch(k)) /\ Ch(k) # "*" => MaxWidth(k) = To(k, "MOD")
  <2>1. ASSUME IsDigit(Ch(k)) PROVE MaxWidth(k) = Advance(l)
    <3>1. Ch(k) # "*"
      BY <2>1, DigitsApart
    <3> QED BY <2>1, <3>1 DEF MaxWidth
  <2>2. ASSUME ~ IsDigit(Ch(k)), Ch(k) # "*" PROVE MaxWidth(k) = To(k, "MOD")
    BY <2>2 DEF MaxWidth
  <2> QED BY <2>1, <2>2
<1> HIDE DEF l
<1>3. Is(Advance(l), fmt, args, n, pos + 1, state, flags, min, 10 * Most(max, 0) + char_to_int(Ch(k)), out)
  BY <1>1, IsAdvance
<1>4. Is(To(k, "MOD"), fmt, args, n, pos, "MOD", flags, min, max, out)
  BY IsTo
<1> QED BY <1>2, <1>3, <1>4

(* A modifier is skipped.                                                  *)
LEMMA ModStep ==
  ASSUME NEW k, NEW fmt, NEW args, NEW n, NEW pos, NEW state, NEW flags, NEW min, NEW max, NEW out,
         Is(k, fmt, args, n, pos, state, flags, min, max, out), Ch(k) # "h", Ch(k) # "l"
  PROVE  Is(Modifier(k), fmt, args, n, pos, "CONV", flags, min, max, out)
<1>1. Modifier(k) = To(k, "CONV")
  BY DEF Modifier
<1> QED BY <1>1, IsTo

(* After a conversion, which has changed the output and the arguments.     *)
LEMMA ConvStep ==
  ASSUME NEW k, NEW fmt, NEW args, NEW n, NEW pos, NEW state, NEW flags, NEW min, NEW max, NEW out,
         Is(Convert(k), fmt, args, n, pos, state, flags, min, max, out)
  PROVE  Is(Conversion(k), fmt, args, n, pos + 1, "DEFAULT", {}, 0, -1, out)
<1> DEFINE l == Advance(Convert(k))
           l1 == [l EXCEPT !.state = "DEFAULT"]
           l2 == [l1 EXCEPT !.flags = {}]
           l3 == [l2 EXCEPT !.min = 0]
<1>1. Is(l, fmt, args, n, pos + 1, state, flags, min, max, out)
  BY IsAdvance
<1>2. Conversion(k) = [l3 EXCEPT !.max = -1]
  BY DEF Conversion
<1> HIDE DEF l
<1>3. Is(l1, fmt, args, n, pos + 1, "DEFAULT", flags, min, max, out)
  BY <1>1 DEF Is
<1> HIDE DEF l1
<1>4. Is(l2, fmt, args, n, pos + 1, "DEFAULT", {}, min, max, out)
  BY <1>3 DEF Is
<1> HIDE DEF l2
<1>5. Is(l3, fmt, args, n, pos + 1, "DEFAULT", {}, 0, max, out)
  BY <1>4 DEF Is
<1> HIDE DEF l3
<1> QED BY <1>2, <1>5 DEF Is

(* A character alone.                                                      *)
LEMMA Single == ASSUME NEW ch \in Chars PROVE <<ch>> \in Seq(Chars)
OBVIOUS

(* A character several times.                                              *)
LEMMA RepIs ==
  ASSUME NEW ch \in Chars, NEW n \in Nat
  PROVE  Rep(ch, n) \in Seq(Chars) /\ Len(Rep(ch, n)) = n
<1>1. Rep(ch, n) \in [1 .. n -> Chars]
  BY DEF Rep
<1> QED BY <1>1

(* No repetition.                                                          *)
LEMMA RepNone == \A ch : Rep(ch, 0) = <<>>
<1>1. 1 .. 0 = {}
  OBVIOUS
<1> QED BY <1>1 DEF Rep

(* What fmtint puts out, and what C would have it put out.                 *)
Zeros(max, digits) == Most(max - Len(digits), 0)
Room(min, max, sign, digits) == Most(min - Most(Most(max, 0), Len(digits)) - Len(sign), 0)
NumberOf(flags, min, max, sign, digits) ==
  sign \o Rep("0", IF "0" \in flags THEN Most(Zeros(max, digits), Room(min, max, sign, digits)) ELSE Zeros(max, digits)) \o digits
BlanksOf(flags, min, max, sign, digits) == Rep(" ", IF "0" \in flags THEN 0 ELSE Room(min, max, sign, digits))
Field(flags, min, max, sign, digits) ==
  IF "-" \in flags THEN NumberOf(flags, min, max, sign, digits) \o BlanksOf(flags, min, max, sign, digits)
  ELSE BlanksOf(flags, min, max, sign, digits) \o NumberOf(flags, min, max, sign, digits)

(* The room in a field is a number.                                        *)
LEMMA RoomIs ==
  ASSUME NEW min \in Nat, NEW max \in Nat \cup {-1}, NEW sign \in Seq(Chars), NEW digits \in Seq(Chars)
  PROVE  /\ Zeros(max, digits) \in Nat /\ Room(min, max, sign, digits) \in Nat
         /\ max < 0 => Zeros(max, digits) = 0
         /\ Room(min, max, sign, digits) = Most(min - Len(sign) - (Zeros(max, digits) + Len(digits)), 0)
<1>1. Len(sign) \in Nat /\ Len(digits) \in Nat /\ max \in Int /\ max >= -1
  BY LenProperties
<1> DEFINE a == Len(sign)
           b == Len(digits)
<1> HIDE DEF a, b
<1>2. a \in Nat /\ b \in Nat
  BY <1>1 DEF a, b
<1>3. /\ Most(max - b, 0) \in Nat /\ Most(min - Most(Most(max, 0), b) - a, 0) \in Nat
      /\ max < 0 => Most(max - b, 0) = 0
      /\ Most(Most(max, 0), b) = Most(max - b, 0) + b
  BY <1>1, <1>2 DEF Most
<1>4. min - (Most(max - b, 0) + b) - a = min - a - (Most(max - b, 0) + b)
  BY <1>2, <1>3
<1> QED BY <1>3, <1>4 DEF Zeros, Room, a, b

(* What is put out is a text.                                              *)
LEMMA FieldType ==
  ASSUME NEW flags, NEW min \in Nat, NEW max \in Nat \cup {-1}, NEW sign \in Seq(Chars), NEW digits \in Seq(Chars)
  PROVE  Field(flags, min, max, sign, digits) \in Seq(Chars)
<1> DEFINE z == IF "0" \in flags THEN Most(Zeros(max, digits), Room(min, max, sign, digits)) ELSE Zeros(max, digits)
           b == IF "0" \in flags THEN 0 ELSE Room(min, max, sign, digits)
<1>1. z \in Nat /\ b \in Nat
  BY RoomIs DEF Most
<1> HIDE DEF z, b
<1>2. Rep("0", z) \in Seq(Chars) /\ Rep(" ", b) \in Seq(Chars)
  BY <1>1, RepIs, SomeChars
<1>3. sign \o Rep("0", z) \in Seq(Chars)
  BY <1>2, ConcatProperties
<1>4. sign \o Rep("0", z) \o digits \in Seq(Chars)
  BY <1>3, ConcatProperties
<1>5. NumberOf(flags, min, max, sign, digits) \in Seq(Chars) /\ BlanksOf(flags, min, max, sign, digits) \in Seq(Chars)
  BY <1>2, <1>4 DEF NumberOf, BlanksOf, z, b
<1> QED BY <1>5, ConcatProperties DEF Field

(* Where they agree, it is the same.                                       *)
LEMMA FieldAsC ==
  ASSUME NEW p, Printed(p), Agreed(p), p.d.conv # "s", NEW sign \in Seq(Chars), NEW digits \in Seq(Chars)
  PROVE  Field(p.d.flags, p.d.min, p.d.max, sign, digits) = Padded(p.d, sign, Rep("0", Zeros(p.d.max, digits)) \o digits)
<1> DEFINE flags == p.d.flags
           min == p.d.min
           max == p.d.max
           z == Zeros(max, digits)
           room == Room(min, max, sign, digits)
           body == Rep("0", z) \o digits
<1>1. min \in Nat /\ max \in Nat \cup {-1}
  BY DEF Printed
<1>2. z \in Nat /\ room \in Nat /\ (max < 0 => z = 0) /\ room = Most(min - Len(sign) - (z + Len(digits)), 0)
  BY <1>1, RoomIs
<1>3. "0" \in flags => "-" \notin flags /\ max < 0
  BY DEF Agreed
<1> HIDE DEF z, room
<1>4. Rep("0", z) \in Seq(Chars) /\ Len(Rep("0", z)) = z /\ Rep(" ", room) \in Seq(Chars) /\ Rep("0", room) \in Seq(Chars)
  BY <1>2, RepIs, SomeChars
<1>5. body \in Seq(Chars) /\ Len(body) = z + Len(digits)
  BY <1>4, ConcatProperties
<1>6. Most(min - Len(sign) - Len(body), 0) = room
  BY <1>2, <1>5
<1> HIDE DEF body
<1>7. Padded(p.d, sign, body) =
        IF "-" \in flags THEN sign \o body \o Rep(" ", room)
        ELSE IF "0" \in flags /\ max < 0 THEN sign \o Rep("0", room) \o body
        ELSE Rep(" ", room) \o sign \o body
  <2>1. CASE "-" \in flags
    <3>1. Padded(p.d, sign, body) = sign \o body \o Rep(" ", Most(min - Len(sign) - Len(body), 0))
      <4>1. flags \cap {"0", "-"} # {"0"}
        BY <2>1
      <4> QED BY <2>1, <4>1 DEF Padded
    <3>2. Padded(p.d, sign, body) = sign \o body \o Rep(" ", room)
      BY <1>6, <3>1
    <3> QED BY <2>1, <3>2
  <2>2. CASE "-" \notin flags /\ "0" \in flags /\ max < 0
    <3>1. flags \cap {"0", "-"} = {"0"}
      BY <2>2
    <3> QED BY <1>6, <2>2, <3>1 DEF Padded
  <2>3. CASE "-" \notin flags /\ ~ ("0" \in flags /\ max < 0)
    <3>1. ~ (flags \cap {"0", "-"} = {"0"} /\ max < 0 /\ p.d.conv # "s")
      BY <2>3
    <3>2. Padded(p.d, sign, body) = Rep(" ", Most(min - Len(sign) - Len(body), 0)) \o sign \o body
      BY <2>3, <3>1 DEF Padded
    <3>3. Padded(p.d, sign, body) = Rep(" ", room) \o sign \o body
      BY <1>6, <3>2
    <3> QED BY <2>3, <3>3
  <2> QED BY <2>1, <2>2, <2>3
<1>8. (sign \o Rep("0", z)) \o digits = sign \o body
  <2>1. Rep("0", z) \in Seq(Chars) /\ sign \in Seq(Chars) /\ digits \in Seq(Chars)
    BY <1>4
  <2>2. (sign \o Rep("0", z)) \o digits = sign \o (Rep("0", z) \o digits)
    BY ONLY <2>1, ConcatAssociative
  <2> QED BY <2>2 DEF body
<1>9. CASE "0" \in flags
  <2>1. Most(z, room) = room /\ body = digits
    <3>1. z = 0
      BY <1>2, <1>3, <1>9
    <3>2. body = digits
      BY <3>1, RepNone, ConcatEmptySeq DEF body
    <3> QED BY <1>2, <3>1, <3>2 DEF Most
  <2>2. NumberOf(flags, min, max, sign, digits) = sign \o Rep("0", room) \o digits
    BY <1>9, <2>1 DEF NumberOf, z, room
  <2>3. BlanksOf(flags, min, max, sign, digits) = <<>>
    BY <1>9, RepNone DEF BlanksOf
  <2>4. sign \o Rep("0", room) \o digits \in Seq(Chars)
    <3>1. sign \o Rep("0", room) \in Seq(Chars)
      BY <1>4, ConcatProperties
    <3> QED BY <3>1, ConcatProperties
  <2>5. Field(flags, min, max, sign, digits) = sign \o Rep("0", room) \o digits
    BY <1>3, <1>9, <2>2, <2>3, <2>4, ConcatEmptySeq DEF Field
  <2> QED BY <1>3, <1>7, <1>9, <2>1, <2>5 DEF body, z
<1>10. CASE "0" \notin flags
  <2>1. NumberOf(flags, min, max, sign, digits) = sign \o body /\ BlanksOf(flags, min, max, sign, digits) = Rep(" ", room)
    <3>1. NumberOf(flags, min, max, sign, digits) = (sign \o Rep("0", z)) \o digits
      BY <1>10 DEF NumberOf, z
    <3>2. BlanksOf(flags, min, max, sign, digits) = Rep(" ", room)
      BY <1>10 DEF BlanksOf, room
    <3> QED BY <1>8, <3>1, <3>2
  <2>2. Rep(" ", room) \o sign \o body = Rep(" ", room) \o (sign \o body)
    <3>1. Rep(" ", room) \in Seq(Chars) /\ sign \in Seq(Chars) /\ body \in Seq(Chars)
      BY <1>4, <1>5
    <3>2. \A a, b, c \in Seq(Chars) : a \o b \o c = a \o (b \o c)
      BY ConcatAssociative
    <3> HIDE DEF room, body
    <3> QED BY ONLY <3>1, <3>2
  <2>3. Field(flags, min, max, sign, digits) = IF "-" \in flags THEN (sign \o body) \o Rep(" ", room) ELSE Rep(" ", room) \o (sign \o body)
    BY <2>1 DEF Field
  <2>4. Field(flags, min, max, sign, digits) = Padded(p.d, sign, body)
    BY <1>7, <1>10, <2>2, <2>3
  <2> QED BY <2>4 DEF body, z
<1> QED BY <1>9, <1>10

(* A number: fmtint puts out a text, the one C demands where they agree.   *)
SignOf(flags, v, unsigned) ==
  CASE unsigned -> <<>>
    [] ~ unsigned /\ v < 0 -> <<"-">>
    [] OTHER -> IF "+" \in flags THEN <<"+">> ELSE IF " " \in flags THEN <<" ">> ELSE <<>>
Magnitude(v, unsigned) == IF unsigned THEN v % ULONG ELSE IF v < 0 THEN -v ELSE v

(* The sign as fmtint() chooses it.                                        *)
LEMMA SignIs ==
  ASSUME NEW flags, NEW v \in Int, NEW unsigned \in BOOLEAN
  PROVE  SignOf(flags, v, unsigned) \in Seq(Chars) /\ Magnitude(v, unsigned) \in Nat
<1>1. Magnitude(v, unsigned) \in Nat
  <2>1. ULONG \in Nat \ {0}
    BY CallsAssumption
  <2>2. v % ULONG \in Nat
    BY <2>1
  <2> QED BY <2>2 DEF Magnitude
<1>2. <<>> \in Seq(Chars) /\ <<"-">> \in Seq(Chars) /\ <<"+">> \in Seq(Chars) /\ <<" ">> \in Seq(Chars)
  BY SomeChars, Single, EmptySeq
<1>3. CASE unsigned
  BY <1>1, <1>2, <1>3 DEF SignOf
<1>4. CASE ~ unsigned /\ v < 0
  BY <1>1, <1>2, <1>4 DEF SignOf
<1>5. CASE ~ unsigned /\ ~ (v < 0)
  BY <1>1, <1>2, <1>5 DEF SignOf
<1> QED BY <1>1, <1>3, <1>4, <1>5

(* fmtint() puts out the number.                                           *)
LEMMA FmtInt ==
  ASSUME NEW k, NEW fmt, NEW args, NEW n, NEW pos, NEW state, NEW flags, NEW min, NEW max, NEW out,
         Is(k, fmt, args, n, pos, state, flags, min, max, out), Ch(k) # "X",
         NEW v, NEW base, NEW unsigned \in BOOLEAN
  PROVE  Is(fmtint(k, v, base, unsigned), fmt, args, n, pos, state, flags, min, max,
            Prefix(out \o Field(flags, min, max, SignOf(flags, v, unsigned), Digits(Magnitude(v, unsigned), base, Numerals)), n))
<1> DEFINE sign == SignOf(flags, v, unsigned)
           digits == Digits(Magnitude(v, unsigned), base, Numerals)
<1>1. k.flags = flags /\ k.min = min /\ k.max = max
  BY DEF Is
<1>2. fmtint(k, v, base, unsigned) = dopr_outch(k, Field(flags, min, max, sign, digits))
  BY <1>1, Zenon DEF fmtint, Field, NumberOf, BlanksOf, Zeros, Room, Space, SignOf, Magnitude
<1> HIDE DEF sign, digits
<1>3. Is(dopr_outch(k, Field(flags, min, max, sign, digits)), fmt, args, n, pos, state, flags, min, max, Prefix(out \o Field(flags, min, max, sign, digits), n))
  BY IsOut
<1> QED BY <1>2, <1>3 DEF sign, digits

(* A string.                                                               *)
TextOf(flags, min, s) ==
  IF "-" \in flags THEN s \o Rep(" ", Most(min - Len(s), 0)) ELSE Rep(" ", Most(min - Len(s), 0)) \o s

(* fmtstr() puts out the text.                                             *)
LEMMA FmtStr ==
  ASSUME NEW k, NEW fmt, NEW args, NEW n, NEW pos, NEW state, NEW flags, NEW min, NEW max, NEW out,
         Is(k, fmt, args, n, pos, state, flags, min, max, out), NEW s, s # Null
  PROVE  Is(fmtstr(k, s), fmt, args, n, pos, state, flags, min, max,
            Prefix(out \o Prefix(TextOf(flags, min, s), IF max < 0 THEN n ELSE max), n))
<1> DEFINE t == Prefix(TextOf(flags, min, s), IF max < 0 THEN n ELSE max)
<1>1. k.flags = flags /\ k.min = min /\ k.max = max /\ k.maxlen = n
  BY DEF Is
<1>2. fmtstr(k, s) = dopr_outch(k, t)
  BY <1>1, Zenon DEF fmtstr, TextOf
<1> HIDE DEF t
<1>3. Is(dopr_outch(k, t), fmt, args, n, pos, state, flags, min, max, Prefix(out \o t, n))
  BY IsOut
<1> QED BY <1>2, <1>3 DEF t

(* The text in its field is a text.                                        *)
LEMMA TextType ==
  ASSUME NEW flags, NEW min \in Nat, NEW s \in Seq(Chars)
  PROVE  TextOf(flags, min, s) \in Seq(Chars)
<1> DEFINE r == Rep(" ", Most(min - Len(s), 0))
<1>1. r \in Seq(Chars)
  <2>1. Most(min - Len(s), 0) \in Nat
    BY LenProperties DEF Most
  <2> QED BY <2>1, RepIs, SomeChars
<1> HIDE DEF r
<1>2. s \o r \in Seq(Chars) /\ r \o s \in Seq(Chars)
  BY <1>1, ConcatProperties
<1> QED BY <1>2 DEF TextOf, r

(* A string as C has it, where they agree: it is padded, or it is cut.     *)
LEMMA TextAsC ==
  ASSUME NEW p, Printed(p), Agreed(p), p.d.conv = "s"
  PROVE  InC(p.d, p.arg) = IF p.d.max < 0 THEN TextOf(p.d.flags, p.d.min, p.arg)
                           ELSE Prefix(TextOf(p.d.flags, p.d.min, p.arg), p.d.max)
<1> DEFINE s == p.arg
           flags == p.d.flags
           min == p.d.min
           max == p.d.max
           body == IF max < 0 THEN s ELSE Prefix(s, max)
<1>1. s \in Seq(Chars) /\ min \in Nat /\ max \in Nat \cup {-1}
  <2>1. p.arg \in Seq(STRING)
    BY DEF Printed
  <2> QED BY <2>1, StringsAreChars DEF Printed
<1>2. (min = 0 \/ max < 0) /\ "0" \notin flags
  BY DEF Agreed
<1>3. InC(p.d, s) = Padded(p.d, <<>>, body)
  BY DEF InC
<1>4. body \in Seq(Chars)
  <2>1. ~ (max < 0) => max \in Nat
    BY <1>1
  <2>2. ~ (max < 0) => Prefix(s, max) \in Seq(Chars)
    BY <1>1, <2>1, PrefixIs
  <2> QED BY <1>1, <2>2
<1>5. Len(<<>>) = 0 /\ Len(body) \in Nat /\ Len(s) \in Nat
  BY <1>1, <1>4, LenProperties
<1> DEFINE room == Most(min - Len(<<>>) - Len(body), 0)
<1>6. Padded(p.d, <<>>, body) = IF "-" \in flags THEN <<>> \o body \o Rep(" ", room) ELSE Rep(" ", room) \o <<>> \o body
  <2> HIDE DEF body
  <2>1. flags \cap {"0", "-"} # {"0"}
    BY <1>2
  <2>2. CASE "-" \in flags
    BY <2>1, <2>2 DEF Padded
  <2>3. CASE "-" \notin flags
    BY <2>1, <2>3 DEF Padded
  <2> QED BY <2>2, <2>3
<1>7. room \in Nat /\ room = Most(min - Len(body), 0)
  BY <1>1, <1>5 DEF Most
<1>8. Rep(" ", room) \in Seq(Chars)
  BY <1>7, RepIs, SomeChars
<1> HIDE DEF body, room
<1>9. <<>> \o body = body /\ Rep(" ", room) \o <<>> = Rep(" ", room)
  BY <1>4, <1>8, ConcatEmptySeq
<1>10. InC(p.d, s) = TextOf(flags, min, body)
  BY <1>3, <1>6, <1>7, <1>9 DEF TextOf
<1>11. CASE max < 0
  BY <1>10, <1>11 DEF body
<1>12. CASE ~ (max < 0)
  <2>1. min = 0
    BY <1>2, <1>12
  <2>2. ASSUME NEW t \in Seq(Chars) PROVE TextOf(flags, min, t) = t
    <3>1. Most(min - Len(t), 0) = 0
      BY <2>1, LenProperties DEF Most
    <3>2. Rep(" ", Most(min - Len(t), 0)) = <<>>
      BY <3>1, RepNone
    <3> QED BY <3>2, ConcatEmptySeq DEF TextOf
  <2>3. TextOf(flags, min, body) = body /\ TextOf(flags, min, s) = s
    BY <1>1, <1>4, <2>2
  <2>4. body = Prefix(s, max)
    BY <1>12 DEF body
  <2> QED BY <1>10, <1>12, <2>3, <2>4
<1> QED BY <1>11, <1>12

(* A number as C has it, where they agree.                                 *)
Unsigned(p) == p.d.conv # "d"
Base(p) == IF p.d.conv = "x" THEN 16 ELSE 10
SignText(p) == SignOf(p.d.flags, p.arg, Unsigned(p))
DigitText(p) == Digits(Magnitude(p.arg, Unsigned(p)), Base(p), Numerals)
NumberText(p) == Field(p.d.flags, p.d.min, p.d.max, SignText(p), DigitText(p))

(* The number in its field is a text.                                      *)
LEMMA NumberType ==
  ASSUME NEW p, Printed(p), p.d.conv # "s"
  PROVE  SignText(p) \in Seq(Chars) /\ DigitText(p) \in Seq(Chars) /\ NumberText(p) \in Seq(Chars)
<1>1. p.arg \in Int /\ p.d.min \in Nat /\ p.d.max \in Nat \cup {-1} /\ Unsigned(p) \in BOOLEAN /\ Base(p) \in {10, 16}
  BY DEF Printed, Unsigned, Base
<1>2. SignText(p) \in Seq(Chars) /\ Magnitude(p.arg, Unsigned(p)) \in Nat
  BY <1>1, SignIs DEF SignText
<1>3. DigitText(p) \in Seq(Chars)
  BY <1>1, <1>2, DigitsType DEF DigitText
<1>4. NumberText(p) \in Seq(Chars)
  BY <1>1, <1>2, <1>3, FieldType DEF NumberText
<1> QED BY <1>2, <1>3, <1>4

(* The number is C's where they agree.                                     *)
LEMMA NumberAsC ==
  ASSUME NEW p, Printed(p), Agreed(p), p.d.conv # "s"
  PROVE  InC(p.d, p.arg) = NumberText(p)
<1> DEFINE digits == DigitText(p)
           sign == SignText(p)
           body == Rep("0", Zeros(p.d.max, digits)) \o digits
<1>1. p.arg \in Int /\ p.d.conv \in {"d", "u", "x"}
  BY DEF Printed
<1>2. NumberText(p) = Padded(p.d, sign, body)
  BY NumberType, FieldAsC DEF NumberText
<1>3. CASE p.d.conv = "d"
  <2>1. Unsigned(p) = FALSE /\ Base(p) = 10
    BY <1>3 DEF Unsigned, Base
  <2>2. digits = Digits(IF p.arg < 0 THEN -p.arg ELSE p.arg, 10, Numerals)
    BY <2>1 DEF DigitText, Magnitude
  <2>3. sign = CASE p.arg < 0 -> <<"-">>
                 [] p.arg >= 0 /\ "+" \in p.d.flags -> <<"+">>
                 [] OTHER -> IF " " \in p.d.flags THEN <<" ">> ELSE <<>>
    <3>1. CASE p.arg < 0
      <4>1. sign = <<"-">>
        BY <2>1, <3>1 DEF SignText, SignOf
      <4>2. ~ (p.arg >= 0)
        BY <1>1, <3>1
      <4> HIDE DEF sign
      <4> QED BY <3>1, <4>1, <4>2
    <3>2. CASE ~ (p.arg < 0) /\ "+" \in p.d.flags
      <4>1. p.arg >= 0
        BY <1>1, <3>2
      <4>2. sign = <<"+">>
        BY <2>1, <3>2 DEF SignText, SignOf
      <4> HIDE DEF sign
      <4> QED BY <3>2, <4>1, <4>2
    <3>3. CASE ~ (p.arg < 0) /\ "+" \notin p.d.flags
      <4>1. sign = IF " " \in p.d.flags THEN <<" ">> ELSE <<>>
        BY <2>1, <3>3 DEF SignText, SignOf
      <4> HIDE DEF sign
      <4> QED BY <3>3, <4>1
    <3> QED BY <3>1, <3>2, <3>3
  <2> HIDE DEF digits, sign
  <2>4. InC(p.d, p.arg) = Padded(p.d, sign, body)
    BY <1>3, <2>2, <2>3 DEF InC, Zeros
  <2> QED BY <1>2, <2>4
<1>4. CASE p.d.conv = "u"
  <2>1. Unsigned(p) = TRUE /\ Base(p) = 10
    BY <1>4 DEF Unsigned, Base
  <2>2. digits = Digits(p.arg % ULONG, 10, Numerals)
    BY <2>1 DEF DigitText, Magnitude
  <2>3. sign = <<>>
    BY <2>1 DEF SignText, SignOf
  <2> HIDE DEF digits, sign
  <2>4. InC(p.d, p.arg) = Padded(p.d, sign, body)
    BY <1>4, <2>2, <2>3 DEF InC, Zeros
  <2> QED BY <1>2, <2>4
<1>5. CASE p.d.conv = "x"
  <2>1. Unsigned(p) = TRUE /\ Base(p) = 16
    BY <1>5 DEF Unsigned, Base
  <2>2. digits = Digits(p.arg % ULONG, 16, Numerals)
    BY <2>1 DEF DigitText, Magnitude
  <2>3. sign = <<>>
    BY <2>1 DEF SignText, SignOf
  <2> HIDE DEF digits, sign
  <2>4. InC(p.d, p.arg) = Padded(p.d, sign, body)
    BY <1>5, <2>2, <2>3 DEF InC, Zeros
  <2> QED BY <1>2, <2>4
<1> QED BY <1>1, <1>3, <1>4, <1>5

(* What the directive puts out.                                            *)
PrintedText(p) == IF p.d.conv # "s" THEN NumberText(p)
                  ELSE IF p.d.max < 0 THEN TextOf(p.d.flags, p.d.min, p.arg) ELSE Prefix(TextOf(p.d.flags, p.d.min, p.arg), p.d.max)

(* It is a text, and C's where they agree.                                 *)
LEMMA PrintedTextIs ==
  ASSUME NEW p, Printed(p)
  PROVE  PrintedText(p) \in Seq(Chars) /\ (Agreed(p) => InC(p.d, p.arg) = PrintedText(p))
<1>1. CASE p.d.conv # "s"
  BY <1>1, NumberType, NumberAsC DEF PrintedText
<1>2. CASE p.d.conv = "s"
  <2>1. p.arg \in Seq(Chars) /\ p.d.min \in Nat /\ p.d.max \in Nat \cup {-1}
    <3>1. p.arg \in Seq(STRING)
      BY <1>2 DEF Printed
    <3> QED BY <3>1, StringsAreChars DEF Printed
  <2> DEFINE t == TextOf(p.d.flags, p.d.min, p.arg)
  <2>2. t \in Seq(Chars)
    BY <2>1, TextType
  <2> HIDE DEF t
  <2>3. ~ (p.d.max < 0) => Prefix(t, p.d.max) \in Seq(Chars)
    <3>1. ~ (p.d.max < 0) => p.d.max \in Nat
      BY <2>1
    <3> QED BY <2>2, <3>1, PrefixIs
  <2>4. PrintedText(p) \in Seq(Chars)
    BY <1>2, <2>2, <2>3 DEF PrintedText, t
  <2>5. Agreed(p) => InC(p.d, p.arg) = PrintedText(p)
    BY <1>2, TextAsC DEF PrintedText
  <2> QED BY <2>4, <2>5
<1> QED BY <1>1, <1>2

(* The conversion puts out that text and leaves the directive.             *)
LEMMA Converted ==
  ASSUME NEW p, Printed(p), NEW k, NEW fmt, NEW n \in Nat, NEW pos, NEW out \in Seq(Chars),
         Is(k, fmt, <<p.arg>>, n, pos, "CONV", p.d.flags, p.d.min, p.d.max, out), Ch(k) = p.d.conv
  PROVE  Is(Convert(k), fmt, Tail(<<p.arg>>), n, pos, "CONV", p.d.flags, p.d.min, p.d.max, Prefix(out \o PrintedText(p), n))
<1>1. Head(k.args) = p.arg
  <2>1. k.args = <<p.arg>>
    BY DEF Is
  <2> QED BY <2>1
<1>2. p.d.conv \in {"d", "u", "x", "s"}
  BY DEF Printed
<1> DEFINE f == p.d.flags
           mi == p.d.min
           ma == p.d.max
<1>3. CASE p.d.conv # "s"
  <2> DEFINE l == fmtint(k, p.arg, Base(p), Unsigned(p))
  <2>1. Convert(k) = NextArg(l)
    <3>1. CASE p.d.conv = "d"
      BY <1>1, <3>1 DEF Convert, Base, Unsigned
    <3>2. CASE p.d.conv = "u"
      BY <1>1, <3>2 DEF Convert, Base, Unsigned
    <3>3. CASE p.d.conv = "x"
      BY <1>1, <3>3 DEF Convert, Base, Unsigned
    <3> QED BY <1>2, <1>3, <3>1, <3>2, <3>3
  <2>2. Ch(k) # "X" /\ p.arg \in Int /\ Unsigned(p) \in BOOLEAN
    BY <1>2, <1>3 DEF Printed, Unsigned
  <2>3. Is(l, fmt, <<p.arg>>, n, pos, "CONV", f, mi, ma, Prefix(out \o NumberText(p), n))
    BY <2>2, FmtInt DEF NumberText, SignText, DigitText
  <2> HIDE DEF l
  <2>4. Is(NextArg(l), fmt, Tail(<<p.arg>>), n, pos, "CONV", f, mi, ma, Prefix(out \o NumberText(p), n))
    BY <2>3, IsNextArg
  <2> QED BY <1>3, <2>1, <2>4 DEF PrintedText
<1>4. CASE p.d.conv = "s"
  <2> DEFINE l == fmtstr(k, p.arg)
             t == TextOf(f, mi, p.arg)
  <2>1. Convert(k) = NextArg(l)
    BY <1>1, <1>4 DEF Convert
  <2>2. p.arg # Null /\ p.arg \in Seq(Chars) /\ mi \in Nat /\ ma \in Nat \cup {-1}
    <3>1. p.arg \in Seq(STRING) /\ p.arg # Null
      BY <1>4 DEF Printed
    <3> QED BY <3>1, StringsAreChars DEF Printed
  <2>3. Is(l, fmt, <<p.arg>>, n, pos, "CONV", f, mi, ma, Prefix(out \o Prefix(t, IF ma < 0 THEN n ELSE ma), n))
    BY <2>2, FmtStr
  <2> HIDE DEF l
  <2>4. Is(NextArg(l), fmt, Tail(<<p.arg>>), n, pos, "CONV", f, mi, ma, Prefix(out \o Prefix(t, IF ma < 0 THEN n ELSE ma), n))
    BY <2>3, IsNextArg
  <2>5. Prefix(out \o Prefix(t, IF ma < 0 THEN n ELSE ma), n) = Prefix(out \o PrintedText(p), n)
    <3>1. t \in Seq(Chars)
      BY <2>2, TextType
    <3>2. CASE ma < 0
      <4>1. PrintedText(p) = t
        BY <1>4, <3>2 DEF PrintedText
      <4> HIDE DEF t
      <4>2. Prefix(out \o Prefix(t, n), n) = Prefix(out \o t, n)
        BY <3>1, PrefixInner
      <4> QED BY <3>2, <4>1, <4>2
    <3>3. CASE ~ (ma < 0)
      BY <1>4, <3>3 DEF PrintedText
    <3> QED BY <3>2, <3>3
  <2> QED BY <2>1, <2>4, <2>5
<1> QED BY <1>3, <1>4

(* What is printed in the end: the text, the directive's and the "!".      *)
Directed(p) == p.before \o PrintedText(p)
Whole(p) == Directed(p) \o <<"!">>

(* These are texts.                                                        *)
LEMMA WholeType ==
  ASSUME NEW p, Printed(p)
  PROVE  /\ Directed(p) \in Seq(Chars) /\ Whole(p) \in Seq(Chars)
         /\ p.maxlen \in Nat /\ p.maxlen - 1 \in Nat /\ p.before \in Seq(Chars) /\ PrintedText(p) \in Seq(Chars)
<1>1. p.before \in Seq(Chars)
  BY CharsBefore
<1>2. PrintedText(p) \in Seq(Chars)
  BY PrintedTextIs
<1>3. Directed(p) \in Seq(Chars)
  BY <1>1, <1>2, ConcatProperties DEF Directed
<1>4. Whole(p) \in Seq(Chars)
  BY <1>3, DirectiveType, ConcatProperties DEF Whole
<1>5. p.maxlen \in Nat \ {0}
  BY DEF Printed
<1> QED BY <1>1, <1>2, <1>3, <1>4, <1>5

(* The text in front, character by character.                              *)
LEMMA BeforeIs ==
  ASSUME NEW p, Printed(p), NEW j \in 0 .. Len(p.before)
  PROVE  /\ Prefix(p.before, j) \in Seq(Chars) /\ Len(Prefix(p.before, j)) = j /\ Len(p.before) \in Nat
         /\ p.maxlen <= j => Prefix(Prefix(p.before, j), p.maxlen - 1) = Prefix(Whole(p), p.maxlen - 1)
         /\ j < p.maxlen /\ j < Len(p.before) =>
              Prefix(Prefix(p.before, j) \o <<p.before[j + 1]>>, p.maxlen) = Prefix(p.before, j + 1)
         /\ Prefix(p.before, Len(p.before)) = p.before
<1> DEFINE b == p.before
           n == p.maxlen
<1>1. b \in Seq(Chars) /\ Len(b) \in Nat /\ n \in Nat /\ n - 1 \in Nat /\ j \in Nat
  BY CharsBefore, WholeType
<1>2. Prefix(b, j) \in Seq(Chars) /\ Len(Prefix(b, j)) = j
  BY <1>1, PrefixIs DEF Least
<1>3. ASSUME n <= j PROVE Prefix(Prefix(b, j), n - 1) = Prefix(Whole(p), n - 1)
  <2>1. Prefix(Prefix(b, j), n - 1) = Prefix(b, n - 1)
    BY <1>1, <1>3, PrefixTwice
  <2>2. n - 1 <= Len(b) /\ n - 1 <= Len(Directed(p))
    <3>1. Len(Directed(p)) = Len(b) + Len(PrintedText(p))
      BY <1>1, PrintedTextIs, ConcatProperties DEF Directed
    <3>2. Len(PrintedText(p)) \in Nat
      BY PrintedTextIs, LenProperties
    <3> QED BY <1>1, <1>3, <3>1, <3>2
  <2>3. Prefix(Directed(p), n - 1) = Prefix(b, n - 1)
    BY <1>1, <2>2, PrintedTextIs, PrefixCut DEF Directed
  <2>4. Prefix(Whole(p), n - 1) = Prefix(Directed(p), n - 1)
    <3>1. Directed(p) \in Seq(Chars) /\ <<"!">> \in Seq(Chars)
      BY WholeType, DirectiveType
    <3> QED BY <1>1, <2>2, <3>1, PrefixCut DEF Whole
  <2> QED BY <2>1, <2>3, <2>4
<1>4. ASSUME j < n, j < Len(b) PROVE Prefix(Prefix(b, j) \o <<b[j + 1]>>, n) = Prefix(b, j + 1)
  <2>1. j + 1 \in 1 .. Len(b) /\ 1 \in 1 .. Len(b) /\ j + 1 \in Nat
    BY <1>1, <1>4
  <2>2. SubSeq(b, 1, j + 1) = SubSeq(b, 1, j + 1 - 1) \o <<b[j + 1]>>
    BY ONLY <1>1, <2>1, SubSeqRecursiveSecond
  <2>3. Prefix(b, j + 1) = SubSeq(b, 1, j + 1) /\ Prefix(b, j) = SubSeq(b, 1, j)
    BY <1>1, <1>4 DEF Prefix, Least
  <2>4. j + 1 - 1 = j
    BY <1>1
  <2>5. Prefix(b, j + 1) = Prefix(b, j) \o <<b[j + 1]>>
    BY <2>2, <2>3, <2>4
  <2>6. Prefix(b, j + 1) \in Seq(Chars) /\ Len(Prefix(b, j + 1)) = j + 1
    BY <1>1, <1>4, <2>1, PrefixIs DEF Least
  <2>7. Prefix(Prefix(b, j + 1), n) = Prefix(b, j + 1)
    <3>1. Len(Prefix(b, j + 1)) <= n
      BY <1>1, <1>4, <2>6
    <3> QED BY <1>1, <2>6, <3>1, PrefixAll
  <2> QED BY <2>5, <2>7
<1>5. Prefix(b, Len(b)) = b
  BY <1>1, PrefixAll
<1> QED BY <1>1, <1>2, <1>3, <1>4, <1>5

(* The arguments.                                                          *)
LEMMA ArgumentsAre ==
  ASSUME NEW p
  PROVE  /\ p.star => Head(Arguments(p)) = p.d.min /\ Tail(Arguments(p)) = <<p.arg>>
         /\ ~ p.star => Arguments(p) = <<p.arg>>
<1> DEFINE S == {p.arg, p.d.min}
           a == <<p.arg>>
           w == <<p.d.min>>
<1>1. a \in Seq(S) /\ w \in Seq(S) /\ Len(a) = 1 /\ Len(w) = 1 /\ a[1] = p.arg /\ w[1] = p.d.min
  OBVIOUS
<1> HIDE DEF a, w, S
<1>2. <<>> \o a = a
  BY <1>1, ConcatEmptySeq
<1>3. /\ w \o a \in Seq(S) /\ Len(w \o a) = Len(w) + Len(a)
      /\ \A i \in 1 .. Len(w) + Len(a) : (w \o a)[i] = IF i <= Len(w) THEN w[i] ELSE a[i - Len(w)]
  BY <1>1, ConcatProperties
<1> DEFINE t == w \o a
<1> HIDE DEF t
<1>4. t \in Seq(S) /\ Len(t) = 2 /\ t[1] = p.d.min /\ t[2] = p.arg
  <2>1. 1 \in 1 .. 1 + 1 /\ 2 \in 1 .. 1 + 1 /\ 1 <= 1 /\ ~ (2 <= 1) /\ 2 - 1 = 1
    OBVIOUS
  <2> QED BY <1>1, <1>3, <2>1 DEF t
<1>5. Head(t) = p.d.min /\ Tail(t) \in Seq(S) /\ Len(Tail(t)) = 1 /\ Tail(t)[1] = p.arg
  <2>1. t # <<>>
    <3>1. t = <<>> => Len(t) = 0
      OBVIOUS
    <3>2. Len(t) # 0
      BY <1>4
    <3> QED BY <3>1, <3>2
  <2>2. Head(t) = t[1]
    BY <1>4, <2>1
  <2>3. Tail(t) \in Seq(S) /\ Len(Tail(t)) = Len(t) - 1 /\ \A i \in 1 .. Len(Tail(t)) : Tail(t)[i] = t[i + 1]
    BY <1>4, <2>1, HeadTailProperties
  <2>4. Len(Tail(t)) = 1 /\ 1 \in 1 .. 1 /\ 1 + 1 = 2
    BY <1>4, <2>3
  <2>5. Tail(t)[1] = t[2]
    BY <2>3, <2>4
  <2> QED BY <1>4, <2>2, <2>3, <2>4, <2>5
<1>6. Tail(t) = a
  <2>1. \A i \in 1 .. Len(Tail(t)) : Tail(t)[i] = a[i]
    BY <1>1, <1>5
  <2> QED BY <1>1, <1>5, <2>1, SeqEqual
<1> QED BY <1>2, <1>5, <1>6 DEF Arguments, t, a, w

(* Where dopr() is in the format, and what it has put out so far.          *)
Finished(p, k) == k.state = "DONE" /\ k.out = Prefix(Whole(p), p.maxlen - 1) \o <<NUL>>
Texting(p, k) ==
  \E i \in 0 .. Len(p.before), pos \in Nat :
    /\ Is(k, Spelled(p), Arguments(p), p.maxlen, pos, "DEFAULT", {}, 0, -1, Prefix(p.before, Len(p.before) - i))
    /\ At(Spelled(p), pos, Escaped(p)[i]) /\ Len(p.before) - i <= p.maxlen
Doubled(p, k) ==
  \E i \in 1 .. Len(p.before), pos \in Nat, state \in {"FLAGS", "MIN", "DOT", "MOD", "CONV"} :
    /\ Is(k, Spelled(p), Arguments(p), p.maxlen, pos, state, {}, 0, -1, Prefix(p.before, Len(p.before) - i))
    /\ CharAt(p, i) = "%" /\ At(Spelled(p), pos, <<"%">> \o Escaped(p)[i - 1]) /\ Len(p.before) - i <= p.maxlen
Flagging(p, k) ==
  \E i \in 0 .. 4, pos \in Nat :
    /\ Is(k, Spelled(p), Arguments(p), p.maxlen, pos, "FLAGS", Seen(p, i), 0, -1, p.before)
    /\ At(Spelled(p), pos, Flagged(p)[i]) /\ Len(p.before) <= p.maxlen
Starting(p, k) ==
  \E pos \in Nat :
    /\ Is(k, Spelled(p), Arguments(p), p.maxlen, pos, "MIN", p.d.flags, 0, -1, p.before)
    /\ At(Spelled(p), pos, Width(p)) /\ Len(p.before) <= p.maxlen /\ (p.star \/ p.d.min = 0)
Sizing(p, k) ==
  \E pos \in Nat, v \in [0 .. Len(Number(p.d.min)) -> Nat], i \in 0 .. Len(Number(p.d.min)) :
    /\ ~ p.star /\ p.d.min # 0 /\ Values(v, Number(p.d.min)) /\ v[Len(Number(p.d.min))] = p.d.min
    /\ Is(k, Spelled(p), Arguments(p), p.maxlen, pos, "MIN", p.d.flags, v[i], -1, p.before)
    /\ At(Spelled(p), pos - i, Number(p.d.min) \o Precision(p)) /\ Len(p.before) <= p.maxlen
Dotting(p, k) ==
  \E pos \in Nat :
    /\ Is(k, Spelled(p), <<p.arg>>, p.maxlen, pos, "DOT", p.d.flags, p.d.min, -1, p.before)
    /\ At(Spelled(p), pos, Precision(p)) /\ Len(p.before) <= p.maxlen
Limiting(p, k) ==
  \E pos \in Nat, v \in [0 .. Len(Number(p.d.max)) -> Nat], i \in 0 .. Len(Number(p.d.max)) :
    /\ p.d.max >= 0 /\ Values(v, Number(p.d.max)) /\ v[Len(Number(p.d.max))] = p.d.max
    /\ Is(k, Spelled(p), <<p.arg>>, p.maxlen, pos, "MAX", p.d.flags, p.d.min, IF i = 0 THEN -1 ELSE v[i], p.before)
    /\ At(Spelled(p), pos - i, Number(p.d.max) \o Ending(p)) /\ Len(p.before) <= p.maxlen
Converting(p, k) ==
  \E pos \in Nat, state \in {"MOD", "CONV"} :
    /\ Is(k, Spelled(p), <<p.arg>>, p.maxlen, pos, state, p.d.flags, p.d.min, p.d.max, p.before)
    /\ At(Spelled(p), pos, Ending(p)) /\ Len(p.before) <= p.maxlen
Closing(p, k) ==
  \E args : \E pos \in Nat :
    /\ Is(k, Spelled(p), args, p.maxlen, pos, "DEFAULT", {}, 0, -1, Prefix(Directed(p), p.maxlen))
    /\ At(Spelled(p), pos, <<"!">>)
Ended(p, k) ==
  \E args : \E pos \in Nat :
    /\ Is(k, Spelled(p), args, p.maxlen, pos, "DEFAULT", {}, 0, -1, Prefix(Whole(p), p.maxlen))
    /\ At(Spelled(p), pos, <<>>)
Prints(p, k) ==
  \/ Finished(p, k) \/ Texting(p, k) \/ Doubled(p, k) \/ Flagging(p, k) \/ Starting(p, k) \/ Sizing(p, k)
  \/ Dotting(p, k) \/ Limiting(p, k) \/ Converting(p, k) \/ Closing(p, k) \/ Ended(p, k)

(* The iteration of dopr() in each of its states.                          *)
LEMMA DoprIs ==
  ASSUME NEW k, NEW fmt, NEW args, NEW n, NEW pos, NEW state, NEW flags, NEW min, NEW max, NEW out,
         Is(k, fmt, args, n, pos, state, flags, min, max, out)
  PROVE  /\ Ch(k) = IF pos \in DOMAIN fmt THEN fmt[pos] ELSE NUL
         /\ Ch(k) = NUL \/ Len(out) >= n => dopr(k) = Done(k)
         /\ Ch(k) # NUL /\ ~ (Len(out) >= n) =>
              /\ state = "DEFAULT" => dopr(k) = Default(k)
              /\ state = "FLAGS" => dopr(k) = Flags(k)
              /\ state = "MIN" => dopr(k) = MinWidth(k)
              /\ state = "DOT" => dopr(k) = Dot(k)
              /\ state = "MAX" => dopr(k) = MaxWidth(k)
              /\ state = "MOD" => dopr(k) = Modifier(k)
              /\ state = "CONV" => dopr(k) = Conversion(k)
<1>1. k.fmt = fmt /\ k.pos = pos /\ k.maxlen = n /\ k.out = out /\ k.state = state
  BY DEF Is
<1>2. Ch(k) = IF pos \in DOMAIN fmt THEN fmt[pos] ELSE NUL
  BY <1>1 DEF Ch
<1>3. Ch(k) = NUL \/ Len(out) >= n => dopr(k) = Done(k)
  BY <1>1 DEF dopr
<1>4. ASSUME Ch(k) # NUL, ~ (Len(out) >= n)
      PROVE  /\ state = "DEFAULT" => dopr(k) = Default(k)
             /\ state = "FLAGS" => dopr(k) = Flags(k)
             /\ state = "MIN" => dopr(k) = MinWidth(k)
             /\ state = "DOT" => dopr(k) = Dot(k)
             /\ state = "MAX" => dopr(k) = MaxWidth(k)
             /\ state = "MOD" => dopr(k) = Modifier(k)
             /\ state = "CONV" => dopr(k) = Conversion(k)
  BY <1>1, <1>4 DEF dopr
<1> QED BY <1>2, <1>3, <1>4

(* A full buffer ends the loop in the middle of the text or a directive.   *)
LEMMA Stopped ==
  ASSUME NEW p, Printed(p), NEW k, NEW args, NEW pos, NEW state, NEW flags, NEW min, NEW max, NEW j \in 0 .. Len(p.before),
         Is(k, Spelled(p), args, p.maxlen, pos, state, flags, min, max, Prefix(p.before, j)), p.maxlen <= j
  PROVE  Prints(p, dopr(k))
<1> DEFINE out == Prefix(p.before, j)
           done == Prefix(out, p.maxlen - 1) \o <<NUL>>
<1>1. Len(out) = j /\ Prefix(out, p.maxlen - 1) = Prefix(Whole(p), p.maxlen - 1)
  BY BeforeIs
<1>2. Len(out) >= p.maxlen
  <2>1. p.maxlen \in Nat /\ j \in Nat
    BY WholeType
  <2> QED BY <1>1, <2>1
<1> HIDE DEF out
<1>3. Is(k, Spelled(p), args, p.maxlen, pos, state, flags, min, max, out)
  BY DEF out
<1>4. dopr(k) = Done(k)
  BY <1>2, <1>3, DoprIs
<1>5. Is(Done(k), Spelled(p), args, p.maxlen, pos, "DONE", flags, min, max, done)
  BY <1>3, DoneStep
<1>6. Done(k).state = "DONE" /\ Done(k).out = done
  <2> HIDE DEF done
  <2> QED BY <1>5 DEF Is
<1>7. Finished(p, dopr(k))
  BY <1>1, <1>4, <1>6 DEF Finished
<1> QED BY <1>7 DEF Prints

(* The next character of a directive or the text.                          *)
LEMMA NextChar ==
  ASSUME NEW k, NEW fmt, NEW args, NEW n, NEW pos, NEW state, NEW flags, NEW min, NEW max, NEW out,
         Is(k, fmt, args, n, pos, state, flags, min, max, out),
         NEW ch \in Chars, NEW rest \in Seq(Chars), At(fmt, pos, <<ch>> \o rest)
  PROVE  Ch(k) = ch /\ At(fmt, pos + 1, rest) /\ pos + 1 \in Nat
<1>1. pos \in DOMAIN fmt /\ fmt[pos] = ch /\ At(fmt, pos + 1, rest)
  BY AtHead
<1>2. Ch(k) = ch
  BY <1>1, DoprIs
<1>3. pos + 1 \in Nat
  BY <1>1 DEF At
<1> QED BY <1>1, <1>2, <1>3

(* What may follow a number is no digit.                                   *)
LEMMA NoDigits == \A ch \in {"%", "*", ".", "d", "u", "x", "s"} : ~ IsDigit(ch)
<1> SUFFICES ASSUME NEW ch \in {"%", "*", ".", "d", "u", "x", "s"}, IsDigit(ch) PROVE FALSE
  OBVIOUS
<1>1. PICK i \in 1 .. 10 : Numerals[i] = ch
  BY DEF IsDigit
<1>2. i = 1 \/ i = 2 \/ i = 3 \/ i = 4 \/ i = 5 \/ i = 6 \/ i = 7 \/ i = 8 \/ i = 9 \/ i = 10
  OBVIOUS
<1> QED BY <1>1, <1>2 DEF Numerals

(* What a precision begins with.                                           *)
LEMMA PrecisionHead ==
  ASSUME NEW p, Printed(p)
  PROVE  \E ch \in {".", "d", "u", "x", "s"} \cap Chars : \E rest \in Seq(Chars) : Precision(p) = <<ch>> \o rest
<1>1. <<"!">> \in Seq(Chars) /\ p.d.conv \in Chars /\ p.d.conv \in {"d", "u", "x", "s"} /\ "." \in Chars
  BY DirectiveType, SomeChars DEF Printed
<1>2. CASE p.d.max < 0
  <2>1. Precision(p) = <<p.d.conv>> \o <<"!">>
    BY <1>2 DEF Precision, Ending
  <2>2. p.d.conv \in {".", "d", "u", "x", "s"} \cap Chars
    BY <1>1
  <2> QED BY <1>1, <2>1, <2>2
<1>3. CASE ~ (p.d.max < 0)
  <2>1. Number(p.d.max) \o Ending(p) \in Seq(Chars)
    <3>1. p.d.max >= 0
      <4>1. p.d.max \in Nat \cup {-1}
        BY DEF Printed
      <4> QED BY <1>3, <4>1
    <3> QED BY <3>1, DirectiveType
  <2>2. Precision(p) = <<".">> \o (Number(p.d.max) \o Ending(p))
    BY <1>3 DEF Precision
  <2>3. "." \in {".", "d", "u", "x", "s"} \cap Chars
    BY <1>1
  <2> QED BY <2>1, <2>2, <2>3
<1> QED BY <1>2, <1>3

(* In the text in front.                                                   *)
LEMMA TextingNext ==
  ASSUME NEW p, Printed(p), NEW k, Texting(p, k)
  PROVE  Prints(p, dopr(k))
<1> DEFINE F == Spelled(p)
           A == Arguments(p)
           n == p.maxlen
           b == p.before
<1>1. PICK i \in 0 .. Len(b), pos \in Nat :
        /\ Is(k, F, A, n, pos, "DEFAULT", {}, 0, -1, Prefix(b, Len(b) - i))
        /\ At(F, pos, Escaped(p)[i]) /\ Len(b) - i <= n
  BY DEF Texting
<1> DEFINE j == Len(b) - i
           out == Prefix(b, j)
<1>2. Len(b) \in Nat /\ j \in 0 .. Len(b) /\ n \in Nat
  BY CharsBefore, WholeType
<1>3. Len(out) = j
  BY <1>2, BeforeIs
<1>4. CASE n <= j
  BY <1>1, <1>2, <1>4, Stopped
<1>5. CASE ~ (n <= j)
  <2>1. j < n /\ ~ (Len(out) >= n)
    BY <1>2, <1>3, <1>5
  <2> DEFINE E == Escaped(p)
  <2>2. EscapedText(E, p)
    BY EscapedFollow
  <2> HIDE DEF E, F, A
  <2>3. CASE i = 0
    <3>1. j = Len(b) /\ out = b /\ Len(b) <= n
      <4>1. j = Len(b)
        BY <1>2, <2>3
      <4>2. Prefix(b, Len(b)) = b
        BY <1>2, BeforeIs
      <4> QED BY <1>2, <2>1, <4>1, <4>2
    <3>2. At(F, pos, <<"%">> \o Flagged(p)[4]) /\ Flagged(p)[4] \in Seq(Chars)
      <4>1. 4 \in 0 .. 4
        OBVIOUS
      <4>2. Flagged(p)[4] \in Seq(Chars)
        BY <4>1, FlagsFollow DEF FlagText
      <4> QED BY <1>1, <2>2, <2>3, <4>2 DEF EscapedText, E
    <3>3. Ch(k) = "%" /\ At(F, pos + 1, Flagged(p)[4]) /\ pos + 1 \in Nat
      BY <1>1, <3>2, SomeChars, NextChar
    <3>4. dopr(k) = Default(k)
      <4>1. Ch(k) # NUL
        BY <3>3 DEF NUL
      <4> HIDE DEF out
      <4> QED BY <1>1, <2>1, <4>1, DoprIs DEF out
    <3>5. Is(Default(k), F, A, n, pos + 1, "FLAGS", {}, 0, -1, out)
      BY <1>1, <3>3, DefaultStep
    <3>6. Seen(p, 4) = {} /\ 4 \in 0 .. 4
      <4>1. Seen(p, 4) = {}
        BY FlagsSeen
      <4> QED BY <4>1
    <3>7. Flagging(p, dopr(k))
      BY <3>1, <3>3, <3>4, <3>5, <3>6 DEF Flagging, F, A
    <3> QED BY <3>7 DEF Prints
  <2>4. CASE i # 0
    <3>1. i \in 1 .. Len(b) /\ i - 1 \in 0 .. Len(b) /\ Len(b) - (i - 1) = j + 1 /\ j + 1 <= n /\ j < Len(b)
      BY <1>2, <2>1, <2>4
    <3>2. CharAt(p, i) \in Chars /\ CharAt(p, i) # NUL /\ CharAt(p, i) = b[j + 1]
      BY <3>1, CharsBefore DEF CharAt
    <3>3. E[i - 1] \in Seq(Chars)
      BY <2>2, <3>1 DEF EscapedText
    <3>4. CASE CharAt(p, i) = "%"
      <4>1. At(F, pos, <<"%">> \o (<<"%">> \o E[i - 1]))
        BY <1>1, <2>2, <3>1, <3>4 DEF EscapedText, E
      <4>2. <<"%">> \o E[i - 1] \in Seq(Chars)
        BY <3>3, SomeChars, Before
      <4>3. Ch(k) = "%" /\ At(F, pos + 1, <<"%">> \o E[i - 1]) /\ pos + 1 \in Nat
        BY <1>1, <4>1, <4>2, SomeChars, NextChar
      <4>4. dopr(k) = Default(k)
        <5>1. Ch(k) # NUL
          BY <4>3 DEF NUL
        <5> HIDE DEF out
        <5> QED BY <1>1, <2>1, <5>1, DoprIs DEF out
      <4>5. Is(Default(k), F, A, n, pos + 1, "FLAGS", {}, 0, -1, out)
        BY <1>1, <4>3, DefaultStep
      <4>6. Doubled(p, dopr(k))
        BY <1>1, <3>1, <3>4, <4>3, <4>4, <4>5 DEF Doubled, F, A, E
      <4> QED BY <4>6 DEF Prints
    <3>5. CASE CharAt(p, i) # "%"
      <4>1. At(F, pos, <<CharAt(p, i)>> \o E[i - 1])
        BY <1>1, <2>2, <3>1, <3>5 DEF EscapedText, E
      <4>2. Ch(k) = CharAt(p, i) /\ At(F, pos + 1, E[i - 1]) /\ pos + 1 \in Nat
        BY <1>1, <3>2, <3>3, <4>1, NextChar
      <4>3. dopr(k) = Default(k)
        <5> HIDE DEF out
        <5> QED BY <1>1, <2>1, <3>2, <4>2, DoprIs DEF out
      <4>4. Is(Default(k), F, A, n, pos + 1, "DEFAULT", {}, 0, -1, Prefix(out \o <<b[j + 1]>>, n))
        BY <1>1, <3>2, <3>5, <4>2, DefaultStep
      <4>5. Prefix(out \o <<b[j + 1]>>, n) = Prefix(b, Len(b) - (i - 1))
        BY <1>2, <2>1, <3>1, BeforeIs
      <4>6. Texting(p, dopr(k))
        BY <3>1, <4>2, <4>3, <4>4, <4>5 DEF Texting, F, A, E
      <4> QED BY <4>6 DEF Prints
    <3> QED BY <3>4, <3>5
  <2> QED BY <2>3, <2>4
<1> QED BY <1>4, <1>5

(* In a "%%" of the text: as in a directive, which puts out a "%".          *)
LEMMA DoubledNext ==
  ASSUME NEW p, Printed(p), NEW k, Doubled(p, k)
  PROVE  Prints(p, dopr(k))
<1> DEFINE F == Spelled(p)
           A == Arguments(p)
           n == p.maxlen
           b == p.before
           E == Escaped(p)
<1>1. PICK i \in 1 .. Len(b), pos \in Nat, state \in {"FLAGS", "MIN", "DOT", "MOD", "CONV"} :
        /\ Is(k, F, A, n, pos, state, {}, 0, -1, Prefix(b, Len(b) - i))
        /\ CharAt(p, i) = "%" /\ At(F, pos, <<"%">> \o E[i - 1]) /\ Len(b) - i <= n
  BY DEF Doubled
<1> DEFINE j == Len(b) - i
           out == Prefix(b, j)
<1>2. Len(b) \in Nat /\ j \in 0 .. Len(b) /\ n \in Nat
  BY CharsBefore, WholeType
<1>3. Len(out) = j
  BY <1>2, BeforeIs
<1>4. CASE n <= j
  BY <1>1, <1>2, <1>4, Stopped
<1>5. CASE ~ (n <= j)
  <2>1. j < n /\ ~ (Len(out) >= n)
    BY <1>2, <1>3, <1>5
  <2>2. i - 1 \in 0 .. Len(b) /\ Len(b) - (i - 1) = j + 1 /\ j + 1 <= n /\ j < Len(b)
    BY <1>2, <2>1
  <2>3. E[i - 1] \in Seq(Chars)
    BY <2>2, EscapedFollow DEF EscapedText
  <2> HIDE DEF E, F, A
  <2>4. Ch(k) = "%" /\ At(F, pos + 1, E[i - 1]) /\ pos + 1 \in Nat
    BY <1>1, <2>3, SomeChars, NextChar
  <2>5. Ch(k) # NUL /\ ~ IsDigit(Ch(k))
    BY <2>4, NoDigits DEF NUL
  <2>6. /\ state = "FLAGS" => dopr(k) = Flags(k)
        /\ state = "MIN" => dopr(k) = MinWidth(k)
        /\ state = "DOT" => dopr(k) = Dot(k)
        /\ state = "MOD" => dopr(k) = Modifier(k)
        /\ state = "CONV" => dopr(k) = Conversion(k)
    <3> HIDE DEF out
    <3> QED BY <1>1, <2>1, <2>5, DoprIs DEF out
  <2>7. ASSUME NEW then \in {"FLAGS", "MIN", "DOT", "MOD", "CONV"}, Is(dopr(k), F, A, n, pos, then, {}, 0, -1, out)
        PROVE  Prints(p, dopr(k))
    <3>1. Doubled(p, dopr(k))
      BY <1>1, <2>7 DEF Doubled, F, A, E
    <3> QED BY <3>1 DEF Prints
  <2>8. CASE state = "FLAGS"
    <3>1. Is(Flags(k), F, A, n, pos, "MIN", {}, 0, -1, out)
      BY <1>1, <2>4, FlagsStep
    <3> QED BY <2>6, <2>7, <2>8, <3>1
  <2>9. CASE state = "MIN"
    <3>1. Is(MinWidth(k), F, A, n, pos, "DOT", {}, 0, -1, out)
      BY <1>1, <2>4, <2>5, MinStep
    <3> QED BY <2>6, <2>7, <2>9, <3>1
  <2>10. CASE state = "DOT"
    <3>1. Is(Dot(k), F, A, n, pos, "MOD", {}, 0, -1, out)
      BY <1>1, <2>4, DotStep
    <3> QED BY <2>6, <2>7, <2>10, <3>1
  <2>11. CASE state = "MOD"
    <3>1. Is(Modifier(k), F, A, n, pos, "CONV", {}, 0, -1, out)
      BY <1>1, <2>4, ModStep
    <3> QED BY <2>6, <2>7, <2>11, <3>1
  <2>12. CASE state = "CONV"
    <3>1. Convert(k) = dopr_outch(k, <<"%">>)
      BY <2>4 DEF Convert
    <3>2. Is(Convert(k), F, A, n, pos, "CONV", {}, 0, -1, Prefix(out \o <<"%">>, n))
      BY <1>1, <2>12, <3>1, IsOut
    <3>3. Is(Conversion(k), F, A, n, pos + 1, "DEFAULT", {}, 0, -1, Prefix(out \o <<"%">>, n))
      BY <3>2, ConvStep
    <3>4. b[j + 1] = "%"
      BY <1>1 DEF CharAt
    <3>5. Prefix(out \o <<"%">>, n) = Prefix(b, Len(b) - (i - 1))
      BY <1>2, <2>1, <2>2, <3>4, BeforeIs
    <3>6. Texting(p, dopr(k))
      BY <2>2, <2>4, <2>6, <2>12, <3>3, <3>5 DEF Texting, F, A, E
    <3> QED BY <3>6 DEF Prints
  <2> QED BY <2>8, <2>9, <2>10, <2>11, <2>12
<1> QED BY <1>4, <1>5

(* In a directive nothing is put out until the conversion; a buffer the    *)
(* text in front fills ends the loop.                                      *)
LEMMA Directive ==
  ASSUME NEW p, Printed(p), NEW k, NEW args, NEW pos, NEW state, NEW flags, NEW min, NEW max,
         Is(k, Spelled(p), args, p.maxlen, pos, state, flags, min, max, p.before), Len(p.before) <= p.maxlen
  PROVE  Prints(p, dopr(k)) \/ ~ (Len(p.before) >= p.maxlen)
<1> DEFINE j == Len(p.before)
<1>1. j \in Nat /\ j \in 0 .. j /\ p.maxlen \in Nat
  BY CharsBefore, WholeType
<1>2. Prefix(p.before, j) = p.before
  BY <1>1, BeforeIs
<1>3. ASSUME p.maxlen <= j PROVE Prints(p, dopr(k))
  <2>1. Is(k, Spelled(p), args, p.maxlen, pos, state, flags, min, max, Prefix(p.before, j))
    BY <1>2
  <2> HIDE DEF j
  <2> QED BY <1>1, <1>3, <2>1, Stopped DEF j
<1> QED BY <1>1, <1>3

(* What a width begins with: no flag.                                      *)
LEMMA WidthHead ==
  ASSUME NEW p, Printed(p)
  PROVE  \E ch \in Chars : /\ \E rest \in Seq(Chars) : Width(p) = <<ch>> \o rest
                          /\ ch \notin {"-", "+", " ", "#", "0"} /\ ch # NUL
<1>1. PICK c \in {".", "d", "u", "x", "s"} \cap Chars, r \in Seq(Chars) : Precision(p) = <<c>> \o r
  BY PrecisionHead
<1>2. c \notin {"-", "+", " ", "#", "0"} /\ c # NUL /\ c \in Chars
  BY <1>1 DEF NUL
<1>3. CASE p.star
  <2>1. Width(p) = <<"*">> \o Precision(p) /\ Precision(p) \in Seq(Chars)
    BY <1>3, DirectiveType DEF Width
  <2>2. "*" \in Chars /\ "*" \notin {"-", "+", " ", "#", "0"} /\ "*" # NUL
    BY SomeChars DEF NUL
  <2> QED BY <2>1, <2>2
<1>4. CASE ~ p.star /\ p.d.min = 0
  <2>1. Width(p) = Precision(p)
    BY <1>4 DEF Width
  <2> QED BY <1>1, <1>2, <2>1
<1>5. CASE ~ p.star /\ p.d.min # 0
  <2> DEFINE D == Number(p.d.min)
  <2>1. p.d.min \in Nat
    BY DEF Printed
  <2>2. Decimal(D, p.d.min)
    BY <2>1, DigitsDecimal DEF Number
  <2>3. Width(p) = D \o Precision(p)
    BY <1>5 DEF Width
  <2> HIDE DEF D
  <2>4. D \in Seq(Chars) /\ Len(D) \in Nat \ {0} /\ IsDigit(D[1]) /\ D[1] # "0"
    <3>1. D \in Seq(Chars) /\ Len(D) \in Nat \ {0}
      BY <2>2 DEF Decimal
    <3>2. 1 \in 1 .. Len(D) /\ p.d.min > 0
      BY <1>5, <2>1, <3>1
    <3> QED BY <2>2, <3>1, <3>2 DEF Decimal
  <2>5. D[1] \in Chars /\ D[1] \notin {"-", "+", " ", "#", "0"} /\ D[1] # NUL
    <3>1. 1 \in 1 .. Len(D)
      BY <2>4
    <3>2. D[1] \in Chars
      BY <2>4, <3>1, ElementOfSeq
    <3>3. D[1] # "-" /\ D[1] # "+" /\ D[1] # " " /\ D[1] # "#" /\ D[1] # NUL
      BY <2>4, DigitsApart
    <3> QED BY <2>4, <3>2, <3>3
  <2> DEFINE rest == Tail(D)
  <2>6. D = <<D[1]>> \o rest /\ rest \in Seq(Chars)
    <3>1. Len(D) \in Nat /\ 1 \in 1 .. Len(D) /\ Len(D) \in 1 .. Len(D)
      BY <2>4
    <3>2. SubSeq(D, 1, Len(D)) = <<D[1]>> \o SubSeq(D, 1 + 1, Len(D))
      BY ONLY <2>4, <3>1, SubSeqRecursiveFirst
    <3>3. SubSeq(D, 1, Len(D)) = D
      BY <2>4, SubSeqFull
    <3>4. D # <<>>
      <4>1. D = <<>> => Len(D) = 0
        OBVIOUS
      <4>2. Len(D) # 0
        BY <2>4
      <4> QED BY <4>1, <4>2
    <3>5. Tail(D) = SubSeq(D, 2, Len(D)) /\ Tail(D) \in Seq(Chars)
      BY <2>4, <3>4, TailIsSubSeq, HeadTailProperties
    <3>6. 1 + 1 = 2
      OBVIOUS
    <3> QED BY <3>2, <3>3, <3>5, <3>6
  <2> HIDE DEF rest
  <2>7. Precision(p) \in Seq(Chars) /\ <<D[1]>> \in Seq(Chars)
    BY <2>5, DirectiveType, Single
  <2>8. Width(p) = <<D[1]>> \o (rest \o Precision(p)) /\ rest \o Precision(p) \in Seq(Chars)
    <3>1. \A x, y, z \in Seq(Chars) : (x \o y) \o z = x \o (y \o z)
      BY ConcatAssociative
    <3>2. (<<D[1]>> \o rest) \o Precision(p) = <<D[1]>> \o (rest \o Precision(p))
      BY <2>6, <2>7, <3>1
    <3>3. rest \o Precision(p) \in Seq(Chars)
      BY <2>6, <2>7, ConcatProperties
    <3> QED BY <2>3, <2>6, <3>2, <3>3
  <2> QED BY <2>5, <2>8
<1> QED BY <1>3, <1>4, <1>5

(* The flags.                                                              *)
LEMMA FlaggingNext ==
  ASSUME NEW p, Printed(p), NEW k, Flagging(p, k)
  PROVE  Prints(p, dopr(k))
<1> DEFINE F == Spelled(p)
           A == Arguments(p)
           n == p.maxlen
           b == p.before
<1>1. PICK i0 \in 0 .. 4, pos \in Nat :
        /\ Is(k, F, A, n, pos, "FLAGS", Seen(p, i0), 0, -1, b)
        /\ At(F, pos, Flagged(p)[i0]) /\ Len(b) <= n
  BY DEF Flagging
<1>2. PICK i \in 0 .. i0 : Flagged(p)[i] = Flagged(p)[i0] /\ Seen(p, i) = Seen(p, i0) /\ (i # 0 => Order[i] \in p.d.flags)
  BY FlagNext
<1>3. i \in 0 .. 4 /\ Is(k, F, A, n, pos, "FLAGS", Seen(p, i), 0, -1, b) /\ At(F, pos, Flagged(p)[i])
  BY <1>1, <1>2
<1>4. CASE Len(b) >= n
  BY <1>1, <1>4, Directive
<1>5. CASE ~ (Len(b) >= n)
  <2> HIDE DEF F, A
  <2>1. FlagText(Flagged(p), p)
    BY FlagsFollow
  <2>2. CASE i = 0
    <3>1. At(F, pos, Width(p)) /\ Seen(p, 0) = p.d.flags
      BY <1>3, <2>1, <2>2, FlagsSeen DEF FlagText
    <3>2. \E ch \in Chars : /\ \E rest \in Seq(Chars) : Width(p) = <<ch>> \o rest
                            /\ ch \notin {"-", "+", " ", "#", "0"} /\ ch # NUL
      BY WidthHead
    <3>3. PICK ch \in Chars, rest \in Seq(Chars) : Width(p) = <<ch>> \o rest /\ ch \notin {"-", "+", " ", "#", "0"} /\ ch # NUL
      BY <3>2
    <3>4. Ch(k) = ch
      BY <1>3, <3>1, <3>3, NextChar
    <3>5. dopr(k) = Flags(k)
      BY <1>3, <1>5, <3>3, <3>4, DoprIs
    <3>6. Is(dopr(k), F, A, n, pos, "MIN", p.d.flags, 0, -1, b)
      BY <1>3, <2>2, <3>1, <3>3, <3>4, <3>5, FlagsStep
    <3>7. CASE p.star \/ p.d.min = 0
      <4>1. Starting(p, dopr(k))
        BY <1>1, <3>1, <3>6, <3>7 DEF Starting, F, A
      <4> QED BY <4>1 DEF Prints
    <3>8. CASE ~ (p.star \/ p.d.min = 0)
      <4>1. Decimal(Number(p.d.min), p.d.min)
        BY DigitsDecimal DEF Number, Printed
      <4>2. PICK v : Values(v, Number(p.d.min)) /\ v[Len(Number(p.d.min))] = p.d.min
        BY <4>1 DEF Decimal
      <4> DEFINE z == 0
      <4>3. v[z] = 0 /\ z \in 0 .. Len(Number(p.d.min)) /\ pos - z = pos
        BY <4>1, <4>2 DEF Values, Decimal
      <4> HIDE DEF z
      <4>4. Width(p) = Number(p.d.min) \o Precision(p)
        BY <3>8 DEF Width
      <4>5. At(F, pos - z, Number(p.d.min) \o Precision(p)) /\ Is(dopr(k), F, A, n, pos, "MIN", p.d.flags, v[z], -1, b)
        BY <3>1, <3>6, <4>3, <4>4
      <4>6. Sizing(p, dopr(k))
        <5>1. ~ p.star /\ p.d.min # 0 /\ Len(b) <= n
          BY <1>1, <3>8
        <5>2. v \in [0 .. Len(Number(p.d.min)) -> Nat]
          BY <4>2 DEF Values
        <5> QED BY <4>2, <4>3, <4>5, <5>1, <5>2 DEF Sizing, F, A
      <4> QED BY <4>6 DEF Prints
    <3> QED BY <3>7, <3>8
  <2>3. CASE i # 0
    <3>1. i \in 1 .. 4 /\ i - 1 \in 0 .. 4 /\ Order[i] \in p.d.flags
      BY <1>2, <1>3, <2>3
    <3>2. Order[i] \in {" ", "+", "0", "-"} /\ Seen(p, i) \cup {Order[i]} = Seen(p, i - 1)
      BY <3>1, FlagsSeen
    <3>3. Order[i] \in Chars /\ Order[i] # NUL
      BY <3>2, SomeChars DEF NUL
    <3>4. Flagged(p)[i] = <<Order[i]>> \o Flagged(p)[i - 1] /\ Flagged(p)[i - 1] \in Seq(Chars)
      BY <2>1, <3>1 DEF FlagText
    <3>5. Ch(k) = Order[i] /\ At(F, pos + 1, Flagged(p)[i - 1]) /\ pos + 1 \in Nat
      BY <1>3, <3>3, <3>4, NextChar
    <3>6. dopr(k) = Flags(k)
      BY <1>3, <1>5, <3>3, <3>5, DoprIs
    <3>7. Is(dopr(k), F, A, n, pos + 1, "FLAGS", Seen(p, i) \cup {Ch(k)}, 0, -1, b)
      <4>1. Ch(k) \in {"-", "+", " ", "#", "0"}
        BY <3>2, <3>5
      <4>2. Is(Flags(k), F, A, n, pos + 1, "FLAGS", Seen(p, i) \cup {Ch(k)}, 0, -1, b)
        BY <1>3, <4>1, FlagsStep
      <4> QED BY <3>6, <4>2
    <3>8. Flagging(p, dopr(k))
      BY <1>1, <3>1, <3>2, <3>5, <3>7 DEF Flagging, F, A
    <3> QED BY <3>8 DEF Prints
  <2> QED BY <2>2, <2>3
<1> QED BY <1>4, <1>5

(* The width, a star or none.                                              *)
LEMMA StartingNext ==
  ASSUME NEW p, Printed(p), NEW k, Starting(p, k)
  PROVE  Prints(p, dopr(k))
<1> DEFINE F == Spelled(p)
           A == Arguments(p)
           n == p.maxlen
           b == p.before
<1>1. PICK pos \in Nat :
        /\ Is(k, F, A, n, pos, "MIN", p.d.flags, 0, -1, b)
        /\ At(F, pos, Width(p)) /\ Len(b) <= n /\ (p.star \/ p.d.min = 0)
  BY DEF Starting
<1>2. CASE Len(b) >= n
  BY <1>1, <1>2, Directive
<1>3. CASE ~ (Len(b) >= n)
  <2> HIDE DEF F, A
  <2>1. CASE p.star
    <3>1. Width(p) = <<"*">> \o Precision(p) /\ Precision(p) \in Seq(Chars)
      BY <2>1, DirectiveType DEF Width
    <3>2. Ch(k) = "*" /\ At(F, pos + 1, Precision(p)) /\ pos + 1 \in Nat
      BY <1>1, <3>1, SomeChars, NextChar
    <3>3. Ch(k) # NUL /\ ~ IsDigit(Ch(k))
      BY <3>2, NoDigits DEF NUL
    <3>4. dopr(k) = MinWidth(k)
      BY <1>1, <1>3, <3>3, DoprIs
    <3>5. Is(dopr(k), F, Tail(A), n, pos + 1, "DOT", p.d.flags, Head(A), -1, b)
      BY <1>1, <3>2, <3>3, <3>4, MinStep
    <3>6. Head(A) = p.d.min /\ Tail(A) = <<p.arg>>
      BY <2>1, ArgumentsAre DEF A
    <3>7. Dotting(p, dopr(k))
      BY <1>1, <3>2, <3>5, <3>6 DEF Dotting, F
    <3> QED BY <3>7 DEF Prints
  <2>2. CASE ~ p.star
    <3>1. Width(p) = Precision(p) /\ p.d.min = 0 /\ A = <<p.arg>>
      BY <1>1, <2>2, ArgumentsAre DEF Width, A
    <3>2. PICK ch \in {".", "d", "u", "x", "s"} \cap Chars, rest \in Seq(Chars) : Precision(p) = <<ch>> \o rest
      BY PrecisionHead
    <3>3. Ch(k) = ch
      BY <1>1, <3>1, <3>2, NextChar
    <3>4. Ch(k) # NUL /\ ~ IsDigit(Ch(k)) /\ Ch(k) # "*"
      BY <3>2, <3>3, NoDigits DEF NUL
    <3>5. dopr(k) = MinWidth(k)
      BY <1>1, <1>3, <3>4, DoprIs
    <3>6. Is(dopr(k), F, A, n, pos, "DOT", p.d.flags, 0, -1, b)
      BY <1>1, <3>4, <3>5, MinStep
    <3>7. Dotting(p, dopr(k))
      BY <1>1, <3>1, <3>6 DEF Dotting, F
    <3> QED BY <3>7 DEF Prints
  <2> QED BY <2>1, <2>2
<1> QED BY <1>2, <1>3

(* The digits of the width.                                                *)
LEMMA SizingNext ==
  ASSUME NEW p, Printed(p), NEW k, Sizing(p, k)
  PROVE  Prints(p, dopr(k))
<1> DEFINE F == Spelled(p)
           A == Arguments(p)
           n == p.maxlen
           b == p.before
           D == Number(p.d.min)
<1>1. PICK pos \in Nat, v \in [0 .. Len(D) -> Nat], i \in 0 .. Len(D) :
        /\ ~ p.star /\ p.d.min # 0 /\ Values(v, D) /\ v[Len(D)] = p.d.min
        /\ Is(k, F, A, n, pos, "MIN", p.d.flags, v[i], -1, b)
        /\ At(F, pos - i, D \o Precision(p)) /\ Len(b) <= n
  BY DEF Sizing
<1>2. CASE Len(b) >= n
  BY <1>1, <1>2, Directive
<1>3. CASE ~ (Len(b) >= n)
  <2>1. D \in Seq(Chars) /\ Precision(p) \in Seq(Chars) /\ Len(D) \in Nat /\ A = <<p.arg>>
    BY <1>1, DirectiveType, LenProperties, ArgumentsAre
  <2>2. Decimal(D, p.d.min)
    BY DigitsDecimal DEF Number, Printed
  <2>3. /\ i < Len(D) => pos \in DOMAIN F /\ F[pos] = D[i + 1]
        /\ i = Len(D) => At(F, pos, Precision(p))
    BY <1>1, <2>1, AtInside
  <2> HIDE DEF F, A, D
  <2>4. CASE i < Len(D)
    <3>1. i + 1 \in 1 .. Len(D) /\ i + 1 \in 0 .. Len(D) /\ (i + 1) - 1 = i /\ (pos + 1) - (i + 1) = pos - i /\ pos + 1 \in Nat
      BY <2>1, <2>4
    <3>2. Ch(k) = D[i + 1]
      BY <1>1, <2>3, <2>4, DoprIs
    <3>3. IsDigit(D[i + 1])
      BY <2>2, <3>1 DEF Decimal
    <3>4. Ch(k) # NUL
      BY <3>2, <3>3, DigitsApart
    <3>5. dopr(k) = MinWidth(k)
      BY <1>1, <1>3, <3>4, DoprIs
    <3>6. Is(dopr(k), F, A, n, pos + 1, "MIN", p.d.flags, 10 * v[i] + char_to_int(Ch(k)), -1, b)
      BY <1>1, <3>2, <3>3, <3>5, MinStep
    <3>7. v[i + 1] = 10 * v[i] + char_to_int(Ch(k))
      BY <1>1, <3>1, <3>2 DEF Values
    <3>8. At(F, (pos + 1) - (i + 1), D \o Precision(p)) /\ Is(dopr(k), F, A, n, pos + 1, "MIN", p.d.flags, v[i + 1], -1, b)
      BY <1>1, <3>1, <3>6, <3>7
    <3>9. Sizing(p, dopr(k))
      BY <1>1, <3>1, <3>8 DEF Sizing, F, A, D
    <3> QED BY <3>9 DEF Prints
  <2>5. CASE ~ (i < Len(D))
    <3>1. i = Len(D) /\ v[i] = p.d.min
      BY <1>1, <2>1, <2>5
    <3>2. PICK ch \in {".", "d", "u", "x", "s"} \cap Chars, rest \in Seq(Chars) : Precision(p) = <<ch>> \o rest
      BY PrecisionHead
    <3>3. At(F, pos, Precision(p))
      BY <2>3, <3>1
    <3>4. Ch(k) = ch
      BY <1>1, <3>2, <3>3, NextChar
    <3>5. Ch(k) # NUL /\ ~ IsDigit(Ch(k)) /\ Ch(k) # "*"
      BY <3>2, <3>4, NoDigits DEF NUL
    <3>6. dopr(k) = MinWidth(k)
      BY <1>1, <1>3, <3>5, DoprIs
    <3>7. Is(dopr(k), F, A, n, pos, "DOT", p.d.flags, p.d.min, -1, b)
      BY <1>1, <3>1, <3>5, <3>6, MinStep
    <3>8. Dotting(p, dopr(k))
      BY <1>1, <2>1, <3>3, <3>7 DEF Dotting, F
    <3> QED BY <3>8 DEF Prints
  <2> QED BY <2>4, <2>5
<1> QED BY <1>2, <1>3

(* In front of the precision.                                              *)
LEMMA DottingNext ==
  ASSUME NEW p, Printed(p), NEW k, Dotting(p, k)
  PROVE  Prints(p, dopr(k))
<1> DEFINE F == Spelled(p)
           n == p.maxlen
           b == p.before
<1>1. PICK pos \in Nat :
        /\ Is(k, F, <<p.arg>>, n, pos, "DOT", p.d.flags, p.d.min, -1, b)
        /\ At(F, pos, Precision(p)) /\ Len(b) <= n
  BY DEF Dotting
<1>2. CASE Len(b) >= n
  BY <1>1, <1>2, Directive
<1>3. CASE ~ (Len(b) >= n)
  <2> HIDE DEF F
  <2>1. p.d.max \in Nat \cup {-1} /\ p.d.conv \in {"d", "u", "x", "s"} /\ p.d.conv \in Chars /\ <<"!">> \in Seq(Chars)
    BY DirectiveType DEF Printed
  <2>2. CASE p.d.max < 0
    <3>1. Precision(p) = Ending(p) /\ p.d.max = -1
      BY <2>1, <2>2 DEF Precision
    <3>2. At(F, pos, <<p.d.conv>> \o <<"!">>)
      BY <1>1, <3>1 DEF Ending
    <3>3. Ch(k) = p.d.conv
      BY <1>1, <2>1, <3>2, NextChar
    <3>4. Ch(k) # NUL /\ Ch(k) # "."
      BY <2>1, <3>3 DEF NUL
    <3>5. dopr(k) = Dot(k)
      BY <1>1, <1>3, <3>4, DoprIs
    <3>6. Is(dopr(k), F, <<p.arg>>, n, pos, "MOD", p.d.flags, p.d.min, p.d.max, b)
      BY <1>1, <3>1, <3>4, <3>5, DotStep
    <3>7. Converting(p, dopr(k))
      BY <1>1, <3>1, <3>6 DEF Converting, F
    <3> QED BY <3>7 DEF Prints
  <2>3. CASE ~ (p.d.max < 0)
    <3> DEFINE D == Number(p.d.max)
    <3>1. p.d.max \in Nat /\ p.d.max >= 0
      BY <2>1, <2>3
    <3>2. D \o Ending(p) \in Seq(Chars)
      BY <3>1, DirectiveType
    <3>3. Decimal(D, p.d.max)
      BY <3>1, DigitsDecimal DEF Number
    <3>4. At(F, pos, <<".">> \o (D \o Ending(p)))
      BY <1>1, <2>3 DEF Precision
    <3> HIDE DEF D
    <3>5. Ch(k) = "." /\ At(F, pos + 1, D \o Ending(p)) /\ pos + 1 \in Nat
      BY <1>1, <3>2, <3>4, SomeChars, NextChar
    <3>6. dopr(k) = Dot(k)
      <4>1. Ch(k) # NUL
        BY <3>5 DEF NUL
      <4> QED BY <1>1, <1>3, <4>1, DoprIs
    <3>7. Is(dopr(k), F, <<p.arg>>, n, pos + 1, "MAX", p.d.flags, p.d.min, -1, b)
      BY <1>1, <3>5, <3>6, DotStep
    <3>8. PICK v \in [0 .. Len(D) -> Nat] : Values(v, D) /\ v[Len(D)] = p.d.max
      BY <3>3 DEF Decimal, Values
    <3> DEFINE z == 0
    <3>9. z = 0 /\ z \in 0 .. Len(D) /\ (pos + 1) - z = pos + 1
      BY <3>3 DEF Decimal
    <3> HIDE DEF z
    <3>10. /\ Is(dopr(k), F, <<p.arg>>, n, pos + 1, "MAX", p.d.flags, p.d.min, IF z = 0 THEN -1 ELSE v[z], b)
           /\ At(F, (pos + 1) - z, D \o Ending(p))
      BY <3>5, <3>7, <3>9
    <3>11. Limiting(p, dopr(k))
      BY <1>1, <3>1, <3>5, <3>8, <3>9, <3>10 DEF Limiting, F, D
    <3> QED BY <3>11 DEF Prints
  <2> QED BY <2>2, <2>3
<1> QED BY <1>2, <1>3

(* The digits of the precision.                                            *)
LEMMA LimitingNext ==
  ASSUME NEW p, Printed(p), NEW k, Limiting(p, k)
  PROVE  Prints(p, dopr(k))
<1> DEFINE F == Spelled(p)
           A == <<p.arg>>
           n == p.maxlen
           b == p.before
           D == Number(p.d.max)
           Given(v, i) == IF i = 0 THEN -1 ELSE v[i]
<1>1. PICK pos \in Nat, v \in [0 .. Len(D) -> Nat], i \in 0 .. Len(D) :
        /\ p.d.max >= 0 /\ Values(v, D) /\ v[Len(D)] = p.d.max
        /\ Is(k, F, A, n, pos, "MAX", p.d.flags, p.d.min, Given(v, i), b)
        /\ At(F, pos - i, D \o Ending(p)) /\ Len(b) <= n
  BY DEF Limiting
<1> HIDE DEF Given
<1>2. CASE Len(b) >= n
  BY <1>1, <1>2, Directive
<1>3. CASE ~ (Len(b) >= n)
  <2>1. p.d.conv \in {"d", "u", "x", "s"} /\ p.d.conv \in Chars /\ <<"!">> \in Seq(Chars) /\ p.d.max \in Nat
    <3>1. p.d.max \in Nat \cup {-1} /\ p.d.conv \in {"d", "u", "x", "s"}
      BY DEF Printed
    <3> QED BY <1>1, <3>1, DirectiveType
  <2>2. D \in Seq(Chars) /\ Ending(p) \in Seq(Chars)
    BY <1>1, DirectiveType
  <2>3. Decimal(D, p.d.max)
    BY <2>1, DigitsDecimal DEF Number
  <2>4. Len(D) \in Nat \ {0}
    BY <2>3 DEF Decimal
  <2>5. /\ i < Len(D) => pos \in DOMAIN F /\ F[pos] = D[i + 1]
        /\ i = Len(D) => At(F, pos, Ending(p))
    BY <1>1, <2>2, AtInside
  <2> HIDE DEF F, A, D
  <2>6. CASE i < Len(D)
    <3>1. i + 1 \in 1 .. Len(D) /\ i + 1 \in 0 .. Len(D) /\ (i + 1) - 1 = i /\ (pos + 1) - (i + 1) = pos - i /\ pos + 1 \in Nat
      BY <2>4, <2>6
    <3>2. Ch(k) = D[i + 1]
      BY <1>1, <2>5, <2>6, DoprIs
    <3>3. IsDigit(D[i + 1])
      BY <2>3, <3>1 DEF Decimal
    <3>4. Ch(k) # NUL
      BY <3>2, <3>3, DigitsApart
    <3>5. dopr(k) = MaxWidth(k)
      BY <1>1, <1>3, <3>4, DoprIs
    <3>6. Is(dopr(k), F, A, n, pos + 1, "MAX", p.d.flags, p.d.min, 10 * Most(Given(v, i), 0) + char_to_int(Ch(k)), b)
      BY <1>1, <3>2, <3>3, <3>5, MaxStep
    <3>7. Most(Given(v, i), 0) = v[i]
      <4>1. v[i] \in Nat /\ v[0] = 0
        BY <1>1 DEF Values
      <4> QED BY <4>1 DEF Most, Given
    <3>8. Given(v, i + 1) = 10 * Most(Given(v, i), 0) + char_to_int(Ch(k))
      <4>1. v[i + 1] = 10 * v[i] + char_to_int(Ch(k))
        BY <1>1, <3>1, <3>2 DEF Values
      <4>2. i + 1 # 0
        BY <3>1
      <4>3. Given(v, i + 1) = v[i + 1]
        BY <4>2 DEF Given
      <4> QED BY <3>7, <4>1, <4>3
    <3>9. At(F, (pos + 1) - (i + 1), D \o Ending(p)) /\ Is(dopr(k), F, A, n, pos + 1, "MAX", p.d.flags, p.d.min, Given(v, i + 1), b)
      BY <1>1, <3>1, <3>6, <3>8
    <3>10. Limiting(p, dopr(k))
      BY <1>1, <3>1, <3>9 DEF Limiting, F, A, D, Given
    <3> QED BY <3>10 DEF Prints
  <2>7. CASE ~ (i < Len(D))
    <3>1. i = Len(D) /\ Given(v, i) = p.d.max
      BY <1>1, <2>4, <2>7 DEF Given
    <3>2. At(F, pos, <<p.d.conv>> \o <<"!">>)
      BY <2>5, <3>1 DEF Ending
    <3>3. Ch(k) = p.d.conv
      BY <1>1, <2>1, <3>2, NextChar
    <3>4. Ch(k) # NUL /\ ~ IsDigit(Ch(k)) /\ Ch(k) # "*"
      BY <2>1, <3>3, NoDigits DEF NUL
    <3>5. dopr(k) = MaxWidth(k)
      BY <1>1, <1>3, <3>4, DoprIs
    <3>6. Is(dopr(k), F, A, n, pos, "MOD", p.d.flags, p.d.min, p.d.max, b)
      BY <1>1, <3>1, <3>4, <3>5, MaxStep
    <3>7. At(F, pos, Ending(p))
      BY <2>5, <3>1
    <3>8. Converting(p, dopr(k))
      BY <1>1, <3>6, <3>7 DEF Converting, F, A
    <3> QED BY <3>8 DEF Prints
  <2> QED BY <2>6, <2>7
<1> QED BY <1>2, <1>3

(* The conversion itself.                                                  *)
LEMMA ConvertingNext ==
  ASSUME NEW p, Printed(p), NEW k, Converting(p, k)
  PROVE  Prints(p, dopr(k))
<1> DEFINE F == Spelled(p)
           A == <<p.arg>>
           n == p.maxlen
           b == p.before
<1>1. PICK pos \in Nat, state \in {"MOD", "CONV"} :
        /\ Is(k, F, A, n, pos, state, p.d.flags, p.d.min, p.d.max, b)
        /\ At(F, pos, Ending(p)) /\ Len(b) <= n
  BY DEF Converting
<1>2. CASE Len(b) >= n
  BY <1>1, <1>2, Directive
<1>3. CASE ~ (Len(b) >= n)
  <2>1. p.d.conv \in {"d", "u", "x", "s"} /\ p.d.conv \in Chars /\ <<"!">> \in Seq(Chars)
    BY DirectiveType DEF Printed
  <2> HIDE DEF F
  <2>2. At(F, pos, <<p.d.conv>> \o <<"!">>)
    BY <1>1 DEF Ending
  <2>3. Ch(k) = p.d.conv /\ At(F, pos + 1, <<"!">>) /\ pos + 1 \in Nat
    BY <1>1, <2>1, <2>2, NextChar
  <2>4. Ch(k) # NUL /\ Ch(k) # "h" /\ Ch(k) # "l"
    BY <2>1, <2>3 DEF NUL
  <2>5. CASE state = "MOD"
    <3>1. dopr(k) = Modifier(k)
      BY <1>1, <1>3, <2>4, <2>5, DoprIs
    <3>2. Is(dopr(k), F, A, n, pos, "CONV", p.d.flags, p.d.min, p.d.max, b)
      BY <1>1, <2>4, <3>1, ModStep
    <3>3. Converting(p, dopr(k))
      BY <1>1, <3>2 DEF Converting, F
    <3> QED BY <3>3 DEF Prints
  <2>6. CASE state = "CONV"
    <3>1. dopr(k) = Conversion(k)
      BY <1>1, <1>3, <2>4, <2>6, DoprIs
    <3>2. n \in Nat /\ b \in Seq(Chars)
      BY WholeType
    <3>3. Is(Convert(k), F, Tail(<<p.arg>>), n, pos, "CONV", p.d.flags, p.d.min, p.d.max, Prefix(b \o PrintedText(p), n))
      BY <1>1, <2>3, <2>6, <3>2, Converted
    <3> DEFINE rest == Tail(<<p.arg>>)
               out == Prefix(b \o PrintedText(p), n)
    <3> HIDE DEF rest, out
    <3>4. Is(Convert(k), F, rest, n, pos, "CONV", p.d.flags, p.d.min, p.d.max, out)
      BY <3>3 DEF rest, out
    <3>5. Is(dopr(k), F, rest, n, pos + 1, "DEFAULT", {}, 0, -1, out)
      BY <3>1, <3>4, ConvStep
    <3>6. out = Prefix(Directed(p), n)
      BY DEF out, Directed
    <3>7. Closing(p, dopr(k))
      BY <2>3, <3>5, <3>6 DEF Closing, F
    <3> QED BY <3>7 DEF Prints
  <2> QED BY <2>5, <2>6
<1> QED BY <1>2, <1>3

(* Behind the directive, and at the end.                                   *)
LEMMA ClosingNext ==
  ASSUME NEW p, Printed(p), NEW k, Closing(p, k)
  PROVE  Prints(p, dopr(k))
<1> DEFINE F == Spelled(p)
           n == p.maxlen
           X == Directed(p)
           out == Prefix(X, n)
<1>1. PICK args : \E pos \in Nat : Is(k, F, args, n, pos, "DEFAULT", {}, 0, -1, out) /\ At(F, pos, <<"!">>)
  BY DEF Closing
<1>2. PICK pos \in Nat : Is(k, F, args, n, pos, "DEFAULT", {}, 0, -1, out) /\ At(F, pos, <<"!">>)
  BY <1>1
<1>3. X \in Seq(Chars) /\ n \in Nat /\ n - 1 \in Nat /\ <<"!">> \in Seq(Chars) /\ Len(X) \in Nat
  BY WholeType, DirectiveType, LenProperties
<1>4. <<"!">> \o <<>> = <<"!">> /\ <<>> \in Seq(Chars)
  BY <1>3, ConcatEmptySeq, EmptySeq
<1> HIDE DEF F
<1>5. Ch(k) = "!" /\ At(F, pos + 1, <<>>) /\ pos + 1 \in Nat
  <2>1. At(F, pos, <<"!">> \o <<>>)
    BY <1>2, <1>4
  <2> QED BY <1>2, <1>4, <2>1, SomeChars, NextChar
<1> HIDE DEF X
<1>6. Len(out) = Least(n, Len(X))
  BY <1>3, PrefixIs
<1>7. CASE Len(out) >= n
  <2>1. Prefix(out, n - 1) = Prefix(X, n - 1)
    <3>1. n - 1 <= n
      BY <1>3
    <3> QED BY <1>3, <3>1, PrefixTwice
  <2>2. Prefix(Whole(p), n - 1) = Prefix(X, n - 1)
    <3>1. n - 1 <= Len(X)
      BY <1>3, <1>6, <1>7 DEF Least
    <3>2. Prefix(X \o <<"!">>, n - 1) = Prefix(X, n - 1)
      BY <1>3, <3>1, PrefixCut
    <3> QED BY <3>2 DEF Whole, X
  <2> DEFINE done == Prefix(out, n - 1) \o <<NUL>>
  <2>3. Is(Done(k), F, args, n, pos, "DONE", {}, 0, -1, done)
    BY <1>2, DoneStep
  <2>4. dopr(k) = Done(k)
    <3> HIDE DEF out
    <3> QED BY <1>2, <1>7, DoprIs DEF out
  <2>5. Done(k).state = "DONE" /\ Done(k).out = done
    <3> HIDE DEF done
    <3> QED BY <2>3 DEF Is
  <2>6. Finished(p, dopr(k))
    BY <2>1, <2>2, <2>4, <2>5 DEF Finished
  <2> QED BY <2>6 DEF Prints
<1>8. CASE ~ (Len(out) >= n)
  <2>1. dopr(k) = Default(k)
    <3>1. Ch(k) # NUL
      BY <1>5 DEF NUL
    <3> HIDE DEF out
    <3> QED BY <1>2, <1>8, <3>1, DoprIs DEF out
  <2>2. Is(Default(k), F, args, n, pos + 1, "DEFAULT", {}, 0, -1, Prefix(out \o <<"!">>, n))
    BY <1>2, <1>5, DefaultStep
  <2>3. Prefix(out \o <<"!">>, n) = Prefix(Whole(p), n)
    BY <1>3, PrefixJoined DEF Whole, X
  <2>4. Ended(p, dopr(k))
    BY <1>5, <2>1, <2>2, <2>3 DEF Ended, F
  <2> QED BY <2>4 DEF Prints
<1> QED BY <1>7, <1>8

(* Behind the last character.                                              *)
LEMMA EndedNext ==
  ASSUME NEW p, Printed(p), NEW k, Ended(p, k)
  PROVE  Prints(p, dopr(k))
<1> DEFINE F == Spelled(p)
           n == p.maxlen
           out == Prefix(Whole(p), n)
           done == Prefix(out, n - 1) \o <<NUL>>
<1>1. PICK args : \E pos \in Nat : Is(k, F, args, n, pos, "DEFAULT", {}, 0, -1, out) /\ At(F, pos, <<>>)
  BY DEF Ended
<1>2. PICK pos \in Nat : Is(k, F, args, n, pos, "DEFAULT", {}, 0, -1, out) /\ At(F, pos, <<>>)
  BY <1>1
<1>3. Prefix(out, n - 1) = Prefix(Whole(p), n - 1)
  <2>1. n \in Nat /\ n - 1 \in Nat /\ n - 1 <= n /\ Whole(p) \in Seq(Chars)
    BY WholeType
  <2> QED BY <2>1, PrefixTwice
<1> HIDE DEF F, out
<1>4. Ch(k) = NUL
  BY <1>2, AtEnd, DoprIs
<1>5. dopr(k) = Done(k)
  BY <1>2, <1>4, DoprIs
<1>6. Is(Done(k), F, args, n, pos, "DONE", {}, 0, -1, done)
  BY <1>2, DoneStep
<1>7. Done(k).state = "DONE" /\ Done(k).out = done
  <2> HIDE DEF done
  <2> QED BY <1>6 DEF Is
<1>8. Finished(p, dopr(k))
  BY <1>3, <1>5, <1>7 DEF Finished
<1> QED BY <1>8 DEF Prints

(* dopr() is somewhere in the format, or has come to its end.              *)
PrintInv == call.fn = "vsnprintf" => call \in Printings /\ Prints(call, m)

(* It begins so, in front of the text.                                     *)
LEMMA PrintBegins ==
  ASSUME NEW p, Printed(p)
  PROVE  Prints(p, vsnprintf(p.maxlen, Spelled(p), Arguments(p)))
<1> DEFINE F == Spelled(p)
           A == Arguments(p)
           b == p.before
           n == p.maxlen
           k == vsnprintf(n, F, A)
           last == Len(b)
<1>1. last \in Nat /\ last \in 0 .. last /\ b \in Seq(Chars) /\ n \in Nat /\ 0 \in Nat
  BY CharsBefore, WholeType
<1>2. last - last = 0 /\ 0 <= n /\ 1 \in Nat
  BY <1>1
<1>3. F = Escaped(p)[last]
  BY DEF Spelled
<1> DEFINE E == Escaped(p)
<1>4. EscapedText(E, p)
  BY EscapedFollow
<1> HIDE DEF E
<1>5. F \in Seq(Chars)
  BY <1>1, <1>3, <1>4 DEF EscapedText, E
<1>6. At(F, 1, E[last])
  <2>1. At(F, 1, F)
    BY <1>5, AtStart
  <2> QED BY <1>3, <2>1 DEF E
<1>7. Prefix(b, last - last) = <<>>
  <2>1. Prefix(b, 0) \in Seq(Chars) /\ Len(Prefix(b, 0)) = 0
    <3>1. 0 \in 0 .. last
      BY <1>1
    <3> QED BY <3>1, BeforeIs
  <2> QED BY <1>2, <2>1, EmptySeq
<1>8. Is(k, F, A, n, 1, "DEFAULT", {}, 0, -1, <<>>)
  <2> HIDE DEF F, A
  <2> QED BY DEF Is, vsnprintf
<1>9. Is(k, F, A, n, 1, "DEFAULT", {}, 0, -1, Prefix(b, last - last))
  BY <1>7, <1>8
<1>10. Texting(p, k)
  <2> HIDE DEF k
  <2> QED BY <1>1, <1>2, <1>6, <1>9 DEF Texting, E
<1> QED BY <1>10 DEF Prints

(* It holds in the beginning.                                              *)
LEMMA PrintInit == Init => PrintInv
<1> SUFFICES ASSUME Init, call.fn = "vsnprintf" PROVE call \in Printings /\ Prints(call, m)
  BY DEF PrintInv
<1>1. call \in Printings /\ m = vsnprintf(call.maxlen, Spelled(call), Arguments(call))
  BY Kinds DEF Init
<1>2. Printed(call)
  BY <1>1, PrintingsPrinted
<1> QED BY <1>1, <1>2, PrintBegins

(* It is kept.                                                             *)
LEMMA PrintNext == PrintInv /\ [Next]_vars => PrintInv'
<1> SUFFICES ASSUME PrintInv, [Next]_vars, call.fn = "vsnprintf", call' = call PROVE PrintInv'
  BY DEF PrintInv, Next, vars
<1>1. call \in Printings /\ Prints(call, m)
  BY DEF PrintInv
<1>2. Printed(call)
  BY <1>1, PrintingsPrinted
<1>3. CASE Dopr
  <2>1. m' = dopr(m) /\ ~ Finished(call, m)
    BY <1>3 DEF Dopr, Finished
  <2>2. Prints(call, dopr(m))
    BY <1>1, <1>2, <2>1, TextingNext, DoubledNext, FlaggingNext, StartingNext, SizingNext, DottingNext, LimitingNext, ConvertingNext,
       ClosingNext, EndedNext DEF Prints
  <2>3. Prints(call, m')
    BY <2>1, <2>2
  <2> QED BY <1>1, <2>3 DEF PrintInv, Prints, Finished, Texting, Doubled, Flagging, Starting, Sizing, Dotting, Limiting,
        Converting, Closing, Ended, Is
<1>4. CASE UNCHANGED vars
  BY <1>4 DEF PrintInv, vars, Prints, Finished, Texting, Doubled, Flagging, Starting, Sizing, Dotting, Limiting,
        Converting, Closing, Ended, Is
<1> QED BY <1>3, <1>4 DEF Next, SetFAT, SetFirst, SetSecond, ToDir, FindVolume, Mount, Line, CmosRead, CmosReread, Tick, Heap, HeapRuns, Malloc, Calloc, Realloc, Free

(* The buffer is never longer than it may be.                              *)
LEMMA Fitting ==
  ASSUME NEW p, Printed(p), NEW k, Prints(p, k)
  PROVE  Len(k.out) <= p.maxlen
<1>1. /\ p.maxlen \in Nat \ {0} /\ p.maxlen - 1 \in Nat /\ Directed(p) \in Seq(Chars) /\ Whole(p) \in Seq(Chars)
      /\ Len(p.before) \in Nat /\ p.before \in Seq(Chars)
  BY WholeType, CharsBefore DEF Printed
<1>2. CASE Finished(p, k)
  <2> DEFINE s == Prefix(Whole(p), p.maxlen - 1)
  <2>1. s \in Seq(Chars) /\ Len(s) = Least(p.maxlen - 1, Len(Whole(p))) /\ Len(Whole(p)) \in Nat /\ Len(s) \in Nat
    BY <1>1, PrefixIs, LenProperties
  <2>2. Len(s \o <<NUL>>) = Len(s) + 1
    BY <2>1
  <2> QED BY <1>1, <1>2, <2>1, <2>2 DEF Finished, Least
<1>3. ASSUME NEW j \in 0 .. Len(p.before), k.out = Prefix(p.before, j), j <= p.maxlen PROVE Len(k.out) <= p.maxlen
  BY <1>3, BeforeIs
<1>4. ASSUME k.out = p.before, Len(p.before) <= p.maxlen PROVE Len(k.out) <= p.maxlen
  BY <1>4
<1>5. ASSUME NEW s \in Seq(Chars), k.out = Prefix(s, p.maxlen) PROVE Len(k.out) <= p.maxlen
  <2>1. Len(k.out) = Least(p.maxlen, Len(s)) /\ Len(s) \in Nat
    BY <1>1, <1>5, PrefixIs, LenProperties
  <2> QED BY <1>1, <2>1 DEF Least
<1>6. CASE Texting(p, k)
  <2>1. PICK i \in 0 .. Len(p.before) : k.out = Prefix(p.before, Len(p.before) - i) /\ Len(p.before) - i <= p.maxlen
    BY <1>6 DEF Texting, Is
  <2>2. Len(p.before) - i \in 0 .. Len(p.before)
    BY <1>1
  <2> QED BY <1>3, <2>1, <2>2
<1>7. CASE Doubled(p, k)
  <2>1. PICK i \in 1 .. Len(p.before) : k.out = Prefix(p.before, Len(p.before) - i) /\ Len(p.before) - i <= p.maxlen
    BY <1>7 DEF Doubled, Is
  <2>2. Len(p.before) - i \in 0 .. Len(p.before)
    BY <1>1
  <2> QED BY <1>3, <2>1, <2>2
<1>8. CASE Flagging(p, k)
  BY <1>4, <1>8 DEF Flagging, Is
<1>9. CASE Starting(p, k)
  BY <1>4, <1>9 DEF Starting, Is
<1>10. CASE Sizing(p, k)
  BY <1>4, <1>10 DEF Sizing, Is
<1>11. CASE Dotting(p, k)
  BY <1>4, <1>11 DEF Dotting, Is
<1>12. CASE Limiting(p, k)
  BY <1>4, <1>12 DEF Limiting, Is
<1>13. CASE Converting(p, k)
  BY <1>4, <1>13 DEF Converting, Is
<1>14. CASE Closing(p, k)
  BY <1>1, <1>5, <1>14 DEF Closing, Is
<1>15. CASE Ended(p, k)
  BY <1>1, <1>5, <1>15 DEF Ended, Is
<1> QED BY <1>2, <1>6, <1>7, <1>8, <1>9, <1>10, <1>11, <1>12, <1>13, <1>14, <1>15 DEF Prints

(* Only the end has the state DONE.                                        *)
LEMMA DoneFinished ==
  ASSUME NEW p, NEW k, Prints(p, k), k.state = "DONE"
  PROVE  Finished(p, k)
<1>1. ~ Texting(p, k) /\ ~ Closing(p, k) /\ ~ Ended(p, k)
  BY DEF Texting, Closing, Ended, Is
<1>2. ~ Doubled(p, k) /\ ~ Converting(p, k)
  BY DEF Doubled, Converting, Is
<1>3. ~ Flagging(p, k) /\ ~ Starting(p, k) /\ ~ Dotting(p, k)
  BY DEF Flagging, Starting, Dotting, Is
<1>4. ~ Sizing(p, k)
  BY DEF Sizing, Is
<1>5. ~ Limiting(p, k)
  BY DEF Limiting, Is
<1> QED BY <1>1, <1>2, <1>3, <1>4, <1>5 DEF Prints

(* vsnprintf() prints what C says, cut off where the buffer ends: whatever *)
(* the widths, it writes within the buffer and leaves a terminated string  *)
(* (dopr(), snprintf.c:173).                                               *)
THEOREM PrintsAlwaysAsC == Spec => []PrintsAsC
<1>1. PrintInv => PrintsAsC
  <2> SUFFICES ASSUME PrintInv, call.fn = "vsnprintf" PROVE PrintsAsC
    BY DEF PrintsAsC
  <2>1. call \in Printings /\ Prints(call, m)
    BY DEF PrintInv
  <2>2. Printed(call)
    BY <2>1, PrintingsPrinted
  <2>3. Len(m.out) <= call.maxlen
    BY <2>1, <2>2, Fitting
  <2>4. ASSUME m.state = "DONE"
        PROVE  /\ Last(m.out) = NUL
               /\ Agreed(call) => Front(m.out) = Prefix(call.before \o InC(call.d, call.arg) \o <<"!">>, call.maxlen - 1)
    <3> DEFINE s == Prefix(Whole(call), call.maxlen - 1)
    <3>1. m.out = s \o <<NUL>>
      BY <2>1, <2>4, DoneFinished DEF Finished
    <3>2. s \in Seq(Chars) /\ NUL \in Chars
      BY <2>2, WholeType, PrefixIs, SomeChars
    <3>3. Agreed(call) => Whole(call) = call.before \o InC(call.d, call.arg) \o <<"!">>
      BY <2>2, PrintedTextIs DEF Whole, Directed
    <3>4. Last(s \o <<NUL>>) = NUL /\ Front(s \o <<NUL>>) = s
      <4> HIDE DEF s
      <4> QED BY <3>2 DEF Last, Front
    <3> QED BY <3>1, <3>3, <3>4
  <2> QED BY <2>3, <2>4 DEF PrintsAsC
<1> QED BY <1>1, PrintInit, PrintNext, PTL DEF Spec
================================================================================
