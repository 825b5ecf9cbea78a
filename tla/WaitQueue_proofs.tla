----------------------------- MODULE WaitQueue_proofs -----------------------------
(***************************************************************************)
(* What linking, unlinking and waking do to a queue, for queues of any     *)
(* length: the lemmas the proofs about the blocking primitives rest on.    *)
(***************************************************************************)
EXTENDS WaitQueue, TLAPS

(* sleep_on links exactly one more node, and keeps the others distinct.    *)
LEMMA LinkProperties ==
  ASSUME NEW S, NEW q \in Seq(S), NEW t \in S
  PROVE  /\ Link(q, t) \in Seq(S)
         /\ Range(Link(q, t)) = Range(q) \cup {t}
         /\ NoDuplicates(q) /\ t \notin Range(q) => NoDuplicates(Link(q, t))
<1> DEFINE p == Link(q, t)
<1>1. /\ p \in Seq(S) /\ Len(p) = Len(q) + 1 /\ p[1] = t
      /\ \A i \in 1 .. Len(q) : p[i + 1] = q[i]
  BY DEF Link
<1>2. DOMAIN p = 1 .. Len(q) + 1 /\ DOMAIN q = 1 .. Len(q) /\ Len(q) \in Nat
  BY <1>1
<1>3. \A i \in 2 .. Len(q) + 1 : i - 1 \in 1 .. Len(q) /\ p[i] = q[i - 1]
  <2> SUFFICES ASSUME NEW i \in 2 .. Len(q) + 1
               PROVE  i - 1 \in 1 .. Len(q) /\ p[i] = q[i - 1]
    OBVIOUS
  <2>1. i - 1 \in 1 .. Len(q) /\ (i - 1) + 1 = i
    BY <1>2
  <2> QED BY <2>1, <1>1
<1>4. Range(p) = Range(q) \cup {t}
  <2>1. ASSUME NEW x \in Range(p) PROVE x \in Range(q) \cup {t}
    <3>1. PICK i \in DOMAIN p : x = p[i]
      BY <2>1 DEF Range
    <3>2. i = 1 \/ i \in 2 .. Len(q) + 1
      BY <1>2
    <3> QED BY <3>1, <3>2, <1>1, <1>2, <1>3 DEF Range
  <2>2. ASSUME NEW x \in Range(q) PROVE x \in Range(p)
    <3>1. PICK i \in DOMAIN q : x = q[i]
      BY <2>2 DEF Range
    <3>2. i + 1 \in DOMAIN p /\ p[i + 1] = x
      BY <3>1, <1>1, <1>2
    <3> QED BY <3>2 DEF Range
  <2>3. t \in Range(p)
    <3>1. 1 \in DOMAIN p
      BY <1>2
    <3> QED BY <3>1, <1>1 DEF Range
  <2> QED BY <2>1, <2>2, <2>3
<1>5. ASSUME NoDuplicates(q), t \notin Range(q) PROVE NoDuplicates(p)
  <2> SUFFICES ASSUME NEW i \in DOMAIN p, NEW j \in DOMAIN p, p[i] = p[j]
               PROVE  i = j
    BY DEF NoDuplicates
  <2>1. \A k \in 1 .. Len(q) : q[k] # t
    BY <1>2, <1>5 DEF Range
  <2>2. CASE i = 1 /\ j = 1
    BY <2>2
  <2>3. CASE i = 1 /\ j \in 2 .. Len(q) + 1
    BY <2>1, <2>3, <1>1, <1>3
  <2>4. CASE j = 1 /\ i \in 2 .. Len(q) + 1
    BY <2>1, <2>4, <1>1, <1>3
  <2>5. CASE i \in 2 .. Len(q) + 1 /\ j \in 2 .. Len(q) + 1
    <3>1. i - 1 \in DOMAIN q /\ j - 1 \in DOMAIN q /\ q[i - 1] = q[j - 1]
      BY <2>5, <1>2, <1>3
    <3>2. i - 1 = j - 1
      BY <3>1, <1>5 DEF NoDuplicates
    <3> QED BY <3>2, <2>5
  <2> QED BY <2>2, <2>3, <2>4, <2>5, <1>2
<1> QED BY <1>1, <1>4, <1>5

(* Unlinking leaves a list, whatever it is given.                          *)
LEMMA UnlinkType ==
  ASSUME NEW S, NEW q \in Seq(S), NEW t
  PROVE  Unlink(q, t) \in Seq(S)
<1>1. CASE t \notin Range(q)
  BY <1>1 DEF Unlink
<1>2. CASE t \in Range(q)
  <2> DEFINE k == CHOOSE i \in DOMAIN q : q[i] = t
             p == [j \in 1 .. Len(q) - 1 |-> IF j < k THEN q[j] ELSE q[j + 1]]
  <2>1. k \in 1 .. Len(q) /\ Unlink(q, t) = p
    BY <1>2 DEF Unlink, Range
  <2> HIDE DEF k
  <2>2. Len(q) \in Nat /\ Len(q) - 1 \in Nat
    BY <2>1
  <2>3. \A j \in 1 .. Len(q) - 1 : p[j] \in S
    BY <2>1, <2>2
  <2>4. p \in [1 .. Len(q) - 1 -> S]
    BY <2>3
  <2> QED BY <2>1, <2>2, <2>4
<1> QED BY <1>1, <1>2

(* The loop of sleep_on and remove_task unlinks exactly the node of t, and *)
(* leaves the head alone unless it is that node.                           *)
LEMMA UnlinkProperties ==
  ASSUME NEW S, NEW q \in Seq(S), NEW t, NoDuplicates(q)
  PROVE  /\ Unlink(q, t) \in Seq(S)
         /\ Range(Unlink(q, t)) = Range(q) \ {t}
         /\ NoDuplicates(Unlink(q, t))
         /\ q # <<>> /\ q[1] # t => /\ Unlink(q, t) # <<>>
                                    /\ Unlink(q, t)[1] = q[1]
<1> DEFINE p == Unlink(q, t)
<1>1. CASE t \notin Range(q)
  <2>1. p = q
    BY <1>1 DEF Unlink
  <2>2. Range(q) \ {t} = Range(q)
    BY <1>1
  <2> QED BY <2>1, <2>2
<1>2. CASE t \in Range(q)
  <2> DEFINE k == CHOOSE i \in DOMAIN q : q[i] = t
  <2>1. k \in DOMAIN q /\ q[k] = t
    BY <1>2 DEF Range
  <2> HIDE DEF k
  <2>2. p = [j \in 1 .. Len(q) - 1 |-> IF j < k THEN q[j] ELSE q[j + 1]]
    BY <1>2 DEF Unlink, k
  <2>3. /\ Len(q) \in Nat /\ DOMAIN q = 1 .. Len(q)
        /\ k \in 1 .. Len(q) /\ Len(q) - 1 \in Nat
    BY <2>1
  <2>4. DOMAIN p = 1 .. Len(q) - 1
    BY <2>2
  <2>5. \A j \in 1 .. Len(q) - 1 :
           /\ j < k => j \in DOMAIN q /\ j # k /\ p[j] = q[j]
           /\ ~(j < k) => j + 1 \in DOMAIN q /\ j + 1 # k /\ p[j] = q[j + 1]
    BY <2>2, <2>3
  <2>6. p \in Seq(S)
    <3>1. \A j \in 1 .. Len(q) - 1 : p[j] \in S
      BY <2>5, <2>3
    <3>2. p \in [1 .. Len(q) - 1 -> S]
      BY <2>2, <3>1
    <3> QED BY <3>2, <2>3
  <2>7. \A i \in DOMAIN q : q[i] = t => i = k
    BY <2>1 DEF NoDuplicates
  <2>8. Range(p) = Range(q) \ {t}
    <3>1. ASSUME NEW x \in Range(p) PROVE x \in Range(q) \ {t}
      <4>1. PICK j \in 1 .. Len(q) - 1 : x = p[j]
        BY <3>1, <2>4 DEF Range
      <4>2. PICK i \in DOMAIN q : i # k /\ x = q[i]
        BY <4>1, <2>5
      <4> QED BY <4>2, <2>7 DEF Range
    <3>2. ASSUME NEW x \in Range(q) \ {t} PROVE x \in Range(p)
      <4>1. PICK i \in DOMAIN q : x = q[i]
        BY <3>2 DEF Range
      <4>2. i # k
        BY <4>1, <2>1, <3>2
      <4>3. CASE i < k
        <5>1. i \in 1 .. Len(q) - 1
          BY <4>3, <2>3, <4>1
        <5> QED BY <5>1, <4>1, <4>3, <2>4, <2>5 DEF Range
      <4>4. CASE i > k
        <5>1. i - 1 \in 1 .. Len(q) - 1 /\ ~(i - 1 < k) /\ (i - 1) + 1 = i
          BY <4>4, <2>3, <4>1
        <5>2. p[i - 1] = x
          BY <5>1, <4>1, <2>5
        <5> QED BY <5>1, <5>2, <2>4 DEF Range
      <4> QED BY <4>2, <4>3, <4>4, <2>3
    <3> QED BY <3>1, <3>2
  <2>9. NoDuplicates(p)
    <3> SUFFICES ASSUME NEW i \in DOMAIN p, NEW j \in DOMAIN p, p[i] = p[j]
                 PROVE  i = j
      BY DEF NoDuplicates
    <3>1. \A a, b \in DOMAIN q : q[a] = q[b] => a = b
      BY DEF NoDuplicates
    <3>2. i \in 1 .. Len(q) - 1 /\ j \in 1 .. Len(q) - 1
      BY <2>4
    <3>3. CASE i < k /\ j < k
      BY <3>1, <3>2, <3>3, <2>5
    <3>4. CASE ~(i < k) /\ ~(j < k)
      <4>1. i + 1 = j + 1
        BY <3>1, <3>2, <3>4, <2>5
      <4> QED BY <4>1, <3>2
    <3>5. CASE i < k /\ ~(j < k)
      <4>1. i = j + 1
        BY <3>1, <3>2, <3>5, <2>5
      <4> QED BY <4>1, <3>2, <3>5, <2>3
    <3>6. CASE ~(i < k) /\ j < k
      <4>1. i + 1 = j
        BY <3>1, <3>2, <3>6, <2>5
      <4> QED BY <4>1, <3>2, <3>6, <2>3
    <3> QED BY <3>3, <3>4, <3>5, <3>6
  <2>10. ASSUME q # <<>>, q[1] # t PROVE p # <<>> /\ p[1] = q[1]
    <3>1. k > 1
      BY <2>1, <2>3, <2>10
    <3>2. 1 \in 1 .. Len(q) - 1
      BY <3>1, <2>3
    <3>3. p[1] = q[1]
      BY <3>1, <3>2, <2>5
    <3>4. p # <<>>
      BY <3>2, <2>4
    <3> QED BY <3>3, <3>4
  <2> QED BY <2>6, <2>8, <2>9, <2>10
<1> QED BY <1>1, <1>2

(* A list without elements is empty.                                       *)
LEMMA EmptyRange ==
  ASSUME NEW S, NEW q \in Seq(S)
  PROVE  q = <<>> <=> Range(q) = {}
<1>1. CASE q = <<>>
  BY <1>1 DEF Range
<1>2. CASE q # <<>>
  <2>1. 1 \in DOMAIN q
    BY <1>2
  <2> QED BY <1>2, <2>1 DEF Range
<1> QED BY <1>1, <1>2

LEMMA NoElements == Range(<<>>) = {} /\ NoDuplicates(<<>>)
BY DEF Range, NoDuplicates

LEMMA RangeOfQueue ==
  ASSUME NEW S, NEW q \in Seq(S)
  PROVE  Range(q) \subseteq S
<1> SUFFICES ASSUME NEW x \in Range(q) PROVE x \in S
  OBVIOUS
<1>1. PICK i \in DOMAIN q : x = q[i]
  BY DEF Range
<1>2. i \in 1 .. Len(q)
  BY <1>1
<1> QED BY <1>1, <1>2

(* add_task: one more node, at the end.                                    *)
LEMMA AppendProperties ==
  ASSUME NEW S, NEW q \in Seq(S), NEW t \in S
  PROVE  /\ Append(q, t) \in Seq(S)
         /\ Range(Append(q, t)) = Range(q) \cup {t}
         /\ NoDuplicates(q) /\ t \notin Range(q) => NoDuplicates(Append(q, t))
         /\ q # <<>> => Append(q, t) # <<>> /\ Append(q, t)[1] = q[1]
<1> DEFINE p == Append(q, t)
           n == Len(q)
<1>1. /\ p \in Seq(S) /\ n \in Nat
      /\ DOMAIN q = 1 .. n /\ DOMAIN p = 1 .. n + 1
      /\ p[n + 1] = t /\ \A i \in 1 .. n : p[i] = q[i]
  OBVIOUS
<1>2. Range(p) = Range(q) \cup {t}
  <2>1. ASSUME NEW x \in Range(p) PROVE x \in Range(q) \cup {t}
    <3>1. PICK i \in 1 .. n + 1 : x = p[i]
      BY <2>1, <1>1 DEF Range
    <3>2. i \in 1 .. n \/ i = n + 1
      BY <1>1
    <3> HIDE DEF p
    <3> QED BY <3>1, <3>2, <1>1 DEF Range
  <2>2. ASSUME NEW x \in Range(q) PROVE x \in Range(p)
    <3>1. PICK i \in 1 .. n : x = q[i]
      BY <2>2, <1>1 DEF Range
    <3>2. i \in 1 .. n + 1
      BY <1>1
    <3> HIDE DEF p
    <3> QED BY <3>1, <3>2, <1>1 DEF Range
  <2>3. t \in Range(p)
    <3>1. n + 1 \in 1 .. n + 1
      BY <1>1
    <3> HIDE DEF p
    <3> QED BY <3>1, <1>1 DEF Range
  <2> QED BY <2>1, <2>2, <2>3
<1>3. ASSUME NoDuplicates(q), t \notin Range(q) PROVE NoDuplicates(p)
  <2>1. \A i \in 1 .. n : q[i] # t
    BY <1>1, <1>3 DEF Range
  <2>2. \A i, j \in 1 .. n : q[i] = q[j] => i = j
    BY <1>1, <1>3 DEF NoDuplicates
  <2>3. \A i \in 1 .. n + 1 : i \in 1 .. n \/ i = n + 1
    BY <1>1
  <2> HIDE DEF p
  <2> QED BY <2>1, <2>2, <2>3, <1>1 DEF NoDuplicates
<1>4. ASSUME q # <<>> PROVE p # <<>> /\ p[1] = q[1]
  <2>1. 1 \in 1 .. n
    BY <1>4, <1>1
  <2>2. p[1] = q[1] /\ 1 \in DOMAIN p
    BY <2>1, <1>1
  <2> QED BY <2>2
<1> QED BY <1>1, <1>2, <1>3, <1>4

(* wake_up touches threads of the queue only, and with n < 0 all of them.  *)
LEMMA WokenProperties ==
  ASSUME NEW q, NEW n \in Int
  PROVE  /\ Woken(q, n) \subseteq Range(q)
         /\ n < 0 => Woken(q, n) = Range(q)
BY DEF Woken, Range

(* wake_up(&q, 1) makes at most one thread READY.                          *)
LEMMA WokenOne ==
  ASSUME NEW S, NEW q \in Seq(S)
  PROVE  \A t, u \in Woken(q, 1) : t = u
<1>1. \A j \in DOMAIN q : j <= 1 => j = 1
  OBVIOUS
<1> QED BY <1>1 DEF Woken

================================================================================
