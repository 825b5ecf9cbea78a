----------------------------- MODULE KernelHeap_proofs -----------------------------
(***************************************************************************)
(* Proofs about TLSF and the kernel heap, for pools, second-level lists,   *)
(* sizes and alignments of any number: the consistency checks pass after   *)
(* every call, no block is lost or cut short, memory is refused only when  *)
(* no list can hold the request, and the heap keeps an allocator's         *)
(* promises.                                                               *)
(***************************************************************************)
EXTENDS KernelHeap, WaitQueue_proofs, WellFoundedInduction, TLAPS

(* Numbers have a least element.                                           *)
LEMMA LeastNumber ==
  ASSUME NEW T \in SUBSET Nat, T # {}
  PROVE  \E n \in T : \A m \in T : n <= m
<1> DEFINE R == {ss \in Nat \X Nat : ss[1] < ss[2]}
<1>1. IsWellFoundedOn(R, Nat)
  BY NatLessThanWellFounded, Zenon DEF OpToRel
<1>2. \A x, y \in Nat : <<x, y>> \in R <=> x < y
  OBVIOUS
<1> HIDE DEF R
<1>3. PICK x \in T : \A y \in T : ~(<<y, x>> \in R)
  BY <1>1, WFMin
<1>4. \A y \in T : ~(y < x)
  BY <1>2, <1>3
<1> QED BY <1>4

--------------------------------------------------------------------------------
(* The powers of two of 32-bit words.                                      *)
LEMMA Powers ==
  /\ Pow2(0) = 1
  /\ \A k \in 0 .. 30 : Pow2(k) \in Nat \ {0} /\ Pow2(k + 1) = 2 * Pow2(k)
  /\ Pow2(31) \in Nat
<1> DEFINE p == [k \in 0 .. 31 |-> 2 ^ k]
<1>1. /\ p[0] = 1 /\ p[1] = 2 /\ p[2] = 4 /\ p[3] = 8 /\ p[4] = 16 /\ p[5] = 32 /\ p[6] = 64
      /\ p[7] = 128 /\ p[8] = 256 /\ p[9] = 512 /\ p[10] = 1024 /\ p[11] = 2048
    BY SMT
<1>2. /\ p[12] = 4096 /\ p[13] = 8192 /\ p[14] = 16384 /\ p[15] = 32768 /\ p[16] = 65536
      /\ p[17] = 131072 /\ p[18] = 262144 /\ p[19] = 524288 /\ p[20] = 1048576
      /\ p[21] = 2097152 /\ p[22] = 4194304
    BY SMT
<1>3. /\ p[23] = 8388608 /\ p[24] = 16777216 /\ p[25] = 33554432 /\ p[26] = 67108864
      /\ p[27] = 134217728 /\ p[28] = 268435456 /\ p[29] = 536870912 /\ p[30] = 1073741824
      /\ p[31] = 2147483648
    BY SMT
<1>4. \A k \in 0 .. 31 : p[k] = Pow2(k)
  BY SMT DEF Pow2
<1> HIDE DEF p
<1>5. \A k \in 0 .. 10 : p[k] \in Nat \ {0} /\ p[k + 1] = 2 * p[k]
  BY <1>1, SMT
<1>6. \A k \in 11 .. 21 : p[k] \in Nat \ {0} /\ p[k + 1] = 2 * p[k]
  BY <1>1, <1>2, SMT
<1>7. \A k \in 22 .. 30 : p[k] \in Nat \ {0} /\ p[k + 1] = 2 * p[k]
  BY <1>2, <1>3, SMT
<1>8. \A k \in 0 .. 30 : p[k] \in Nat \ {0} /\ p[k + 1] = 2 * p[k]
  <2> SUFFICES ASSUME NEW k \in 0 .. 30 PROVE p[k] \in Nat \ {0} /\ p[k + 1] = 2 * p[k]
    OBVIOUS
  <2>1. k \in 0 .. 10 \/ k \in 11 .. 21 \/ k \in 22 .. 30
    BY SMT
  <2> QED BY <2>1, <1>5, <1>6, <1>7, Zenon
<1>9. p[31] \in Nat
  BY <1>3, SMT
<1>10. \A k \in 0 .. 30 : k \in 0 .. 31 /\ k + 1 \in 0 .. 31
  BY SMT
<1>11. 0 \in 0 .. 31 /\ 31 \in 0 .. 31
  BY SMT
<1>12. Pow2(0) = 1
  BY <1>1, <1>4, <1>11, SMT
<1> QED BY <1>4, <1>8, <1>9, <1>10, <1>11, <1>12, SMT

(* Powers of two are positive, grow, and multiply by adding exponents.     *)
LEMMA PowerOrder ==
  /\ \A k \in 0 .. 31 : Pow2(k) \in Nat \ {0}
  /\ \A j, k \in 0 .. 31 : j <= k => Pow2(j) <= Pow2(k)
  /\ \A j, k \in 0 .. 31 : j + k <= 31 => Pow2(j + k) = Pow2(j) * Pow2(k)
<1>1. \A k \in 0 .. 31 : Pow2(k) \in Nat \ {0}
  <2> SUFFICES ASSUME NEW k \in 0 .. 31 PROVE Pow2(k) \in Nat \ {0}
    OBVIOUS
  <2>1. CASE k \in 0 .. 30
    BY <2>1, Powers, SMT
  <2>2. CASE k = 31
    <3>1. 30 \in 0 .. 30 /\ 30 + 1 = 31
      BY SMT
    <3>2. Pow2(30) \in Nat \ {0} /\ Pow2(30 + 1) = 2 * Pow2(30)
      BY <3>1, Powers, SMT
    <3> QED BY <2>2, <3>1, <3>2, SMT
  <2> QED BY <2>1, <2>2, SMT
<1>2. ASSUME NEW j \in 0 .. 31, NEW k \in 0 .. 31, j <= k PROVE Pow2(j) <= Pow2(k)
  <2> DEFINE Bad == {m \in j .. 31 : ~(Pow2(j) <= Pow2(m))}
  <2>1. Bad = {}
    <3> SUFFICES ASSUME Bad # {} PROVE FALSE
      OBVIOUS
    <3>0. Bad \in SUBSET Nat
      BY SMT
    <3>1. PICK m \in Bad : \A i \in Bad : m <= i
      BY <3>0, LeastNumber
    <3>2. m \in j .. 31 /\ ~(Pow2(j) <= Pow2(m)) /\ m # j
      BY <1>1, <3>1, SMT
    <3>3. m - 1 \in j .. 31 /\ m - 1 \in 0 .. 30 /\ m - 1 + 1 = m /\ ~(m <= m - 1)
      BY <3>2, SMT
    <3>4. Pow2(j) <= Pow2(m - 1)
      BY <3>1, <3>3, SMT
    <3>5. Pow2(m) = 2 * Pow2(m - 1) /\ Pow2(m - 1) \in Nat
      BY <3>3, Powers, SMT
    <3> QED BY <1>1, <3>2, <3>4, <3>5, SMT
  <2> QED BY <1>2, <2>1, SMT
<1>3. ASSUME NEW j \in 0 .. 31, NEW k \in 0 .. 31, j + k <= 31 PROVE Pow2(j + k) = Pow2(j) * Pow2(k)
  <2> DEFINE Bad == {m \in 0 .. 31 - j : ~(Pow2(j + m) = Pow2(j) * Pow2(m))}
  <2>1. Bad = {}
    <3> SUFFICES ASSUME Bad # {} PROVE FALSE
      OBVIOUS
    <3>0. Bad \in SUBSET Nat
      BY SMT
    <3>1. PICK m \in Bad : \A i \in Bad : m <= i
      BY <3>0, LeastNumber
    <3>2. m \in 0 .. 31 - j /\ ~(Pow2(j + m) = Pow2(j) * Pow2(m))
      BY <3>1, SMT
    <3>3. m # 0
      <4> SUFFICES ASSUME m = 0 PROVE FALSE
        OBVIOUS
      <4>1. j + 0 = j /\ Pow2(j) \in Nat
        BY <1>1, SMT
      <4>2. Pow2(j) = Pow2(j) * Pow2(0)
        BY <4>1, Powers, SMT
      <4> QED BY <3>2, <4>1, <4>2, SMT
    <3>4. m - 1 \in 0 .. 31 - j /\ m - 1 \in 0 .. 30 /\ m - 1 + 1 = m /\ ~(m <= m - 1)
      BY <3>2, <3>3, SMT
    <3>5. j + (m - 1) \in 0 .. 30 /\ j + (m - 1) + 1 = j + m
      BY <3>2, <3>4, SMT
    <3>6. Pow2(j + (m - 1)) = Pow2(j) * Pow2(m - 1)
      BY <3>1, <3>4, SMT
    <3>7. Pow2(m) = 2 * Pow2(m - 1) /\ Pow2(j + m) = 2 * Pow2(j + (m - 1))
      BY <3>4, <3>5, Powers, SMT
    <3>8. Pow2(j) \in Nat /\ Pow2(m - 1) \in Nat
      BY <1>1, <3>4, Powers, SMT
    <3>9. 2 * (Pow2(j) * Pow2(m - 1)) = Pow2(j) * (2 * Pow2(m - 1))
      BY <3>8, SMT
    <3> QED BY <3>2, <3>6, <3>7, <3>9, SMT
  <2> QED BY <1>3, <2>1, SMT
<1> QED BY <1>1, <1>2, <1>3

--------------------------------------------------------------------------------
(* The classes of sizes.  Those of a list with first index f > 0 share     *)
(* their highest bit.                                                      *)
LEMMA SizeConstants ==
  /\ SlLog2 \in 1 .. 27 /\ MaxLog2 \in SlLog2 + 1 .. 28
  /\ SlCount \in Nat /\ SlCount >= 2
  /\ MAX_SIZE \in Nat /\ MAX_SIZE <= Pow2(28) /\ 4 * Pow2(28) = Pow2(30) /\ 2 * Pow2(30) = Pow2(31)
  /\ Pow2(28) \in Nat /\ Pow2(30) \in Nat
<1>1. SlLog2 \in 1 .. 27 /\ MaxLog2 \in SlLog2 + 1 .. 28
  BY TlsfAssumption
<1>2. /\ Pow2(1) = 2 /\ Pow2(29) = 2 * Pow2(28) /\ Pow2(30) = 2 * Pow2(29) /\ Pow2(31) = 2 * Pow2(30)
      /\ Pow2(28) \in Nat /\ Pow2(29) \in Nat /\ Pow2(30) \in Nat
  <2>1. 0 \in 0 .. 30 /\ 0 + 1 = 1 /\ 28 \in 0 .. 30 /\ 28 + 1 = 29 /\ 29 \in 0 .. 30 /\ 29 + 1 = 30
        /\ 30 \in 0 .. 30 /\ 30 + 1 = 31
    OBVIOUS
  <2>2. Pow2(0 + 1) = 2 * Pow2(0) /\ Pow2(28 + 1) = 2 * Pow2(28) /\ Pow2(29 + 1) = 2 * Pow2(29)
        /\ Pow2(30 + 1) = 2 * Pow2(30)
    BY <2>1, Powers
  <2>3. Pow2(28) \in Nat /\ Pow2(29) \in Nat /\ Pow2(30) \in Nat
    BY <2>1, Powers
  <2> QED BY <2>1, <2>2, <2>3, Powers
<1>3. SlCount \in Nat /\ Pow2(1) <= SlCount
  <2>1. 1 \in 0 .. 31 /\ SlLog2 \in 0 .. 31 /\ 1 <= SlLog2
    BY <1>1
  <2> QED BY <2>1, PowerOrder DEF SlCount
<1>4. MAX_SIZE \in Nat /\ MAX_SIZE <= Pow2(28)
  <2>1. 28 \in 0 .. 31 /\ MaxLog2 \in 0 .. 31 /\ MaxLog2 <= 28
    BY <1>1
  <2> QED BY <2>1, PowerOrder DEF MAX_SIZE
<1> QED BY <1>1, <1>2, <1>3, <1>4

(* tlsf_fls finds the highest bit of a word.                               *)
LEMMA Fls ==
  ASSUME NEW n \in Nat, 1 <= n, n < Pow2(31)
  PROVE  tlsf_fls(n) \in 0 .. 30 /\ Pow2(tlsf_fls(n)) <= n /\ n < Pow2(tlsf_fls(n) + 1)
<1> DEFINE T == {k \in 0 .. 31 : n < Pow2(k)}
<1>1. PICK k \in T : \A j \in T : k <= j
  <2>1. T \in SUBSET Nat /\ 31 \in T
    OBVIOUS
  <2> QED BY <2>1, LeastNumber
<1>2. k \in 0 .. 31 /\ n < Pow2(k) /\ k # 0
  BY <1>1, Powers
<1>3. k - 1 \in 0 .. 30 /\ k - 1 \in 0 .. 31 /\ ~(k <= k - 1) /\ (k - 1) + 1 = k
  BY <1>2
<1>4. ~(n < Pow2(k - 1))
  BY <1>1, <1>3
<1>5. Pow2(k - 1) <= n
  BY <1>3, <1>4, Powers
<1>6. \E i \in 0 .. 30 : Pow2(i) <= n /\ n < Pow2(i + 1)
  BY <1>2, <1>3, <1>5
<1> QED BY <1>6 DEF tlsf_fls

(* Two sizes with the same highest bit.                                    *)
LEMMA FlsOrder ==
  ASSUME NEW j \in 0 .. 30, NEW k \in 0 .. 30, NEW m \in Nat, NEW n \in Nat,
         Pow2(j) <= m, m < Pow2(j + 1), Pow2(k) <= n, n < Pow2(k + 1)
  PROVE  m <= n => j <= k
<1> SUFFICES ASSUME m <= n, j > k PROVE FALSE
  OBVIOUS
<1>1. k + 1 \in 0 .. 31 /\ j \in 0 .. 31 /\ k + 1 <= j
  OBVIOUS
<1>2. Pow2(k + 1) <= Pow2(j)
  BY <1>1, PowerOrder
<1>3. Pow2(k + 1) \in Nat /\ Pow2(j) \in Nat
  BY <1>1, PowerOrder
<1> QED BY <1>2, <1>3

(* The list of a size: its unit is the width of the list.                  *)
Unit(at) == Pow2(at[1] - 1)
InClass(n, at) ==
  IF at[1] = 0 THEN n = at[2]
  ELSE Unit(at) * (SlCount + at[2]) <= n /\ n < Unit(at) * (SlCount + at[2]) + Unit(at)

(* mapping_insert maps a size to the list whose class it is in.            *)
LEMMA MapInsert ==
  ASSUME NEW n \in Nat, 1 <= n, n < Pow2(31)
  PROVE  LET at == mapping_insert(n)
         IN  /\ at \in (0 .. 31 - SlLog2) \X SlIndex /\ at = <<at[1], at[2]>>
             /\ InClass(n, at)
             /\ at[1] = 0 <=> n < SlCount
             /\ n >= SlCount => at[1] = tlsf_fls(n) - SlLog2 + 1
             /\ n < MAX_SIZE => at[1] \in FlIndex
<1>0. SlLog2 \in 1 .. 27 /\ SlCount \in Nat /\ SlCount >= 2 /\ MaxLog2 \in SlLog2 + 1 .. 28
  BY SizeConstants
<1>1. CASE n < SlCount
  <2>1. mapping_insert(n) = <<0, n>>
    BY <1>1 DEF mapping_insert
  <2>2. n \in SlIndex /\ 0 \in FlIndex /\ 0 \in 0 .. 31 - SlLog2
    BY <1>0, <1>1 DEF SlIndex, FlIndex
  <2> DEFINE at == mapping_insert(n)
  <2>3. at[1] = 0 /\ at[2] = n /\ at = <<at[1], at[2]>>
    BY <2>1
  <2>4. at \in (0 .. 31 - SlLog2) \X SlIndex
    BY <2>1, <2>2
  <2> HIDE DEF at
  <2>5. InClass(n, at)
    BY <2>3 DEF InClass
  <2> QED BY <1>0, <1>1, <2>2, <2>3, <2>4, <2>5 DEF at
<1>2. CASE ~(n < SlCount)
  <2> DEFINE k == tlsf_fls(n)
             u == Pow2(k - SlLog2)
             q == n \div u
  <2>1. k \in 0 .. 30 /\ Pow2(k) <= n /\ n < Pow2(k + 1)
    BY Fls
  <2> HIDE DEF k
  <2>2. k >= SlLog2
    <3>1. SlLog2 \in 0 .. 30 /\ SlLog2 + 1 \in 0 .. 31 /\ Pow2(SlLog2) <= SlCount /\ SlCount < Pow2(SlLog2 + 1)
      BY <1>0, Powers DEF SlCount
    <3>2. SlCount <= n
      BY <1>0, <1>2
    <3> QED BY <1>0, <2>1, <3>1, <3>2, FlsOrder
  <2>3. /\ k - SlLog2 \in 0 .. 31 /\ SlLog2 \in 0 .. 31 /\ SlLog2 + (k - SlLog2) = k /\ k <= 31
        /\ k \in 0 .. 30
    BY <1>0, <2>1, <2>2
  <2>4. u \in Nat \ {0} /\ Pow2(k) = SlCount * u /\ Pow2(k + 1) = 2 * (SlCount * u)
    <3>1. Pow2(SlLog2 + (k - SlLog2)) = Pow2(SlLog2) * Pow2(k - SlLog2)
      BY <2>3, PowerOrder
    <3>2. Pow2(k + 1) = 2 * Pow2(k)
      BY <2>3, Powers
    <3>3. u \in Nat \ {0}
      BY <2>3, PowerOrder
    <3> QED BY <2>3, <3>1, <3>2, <3>3 DEF SlCount
  <2> HIDE DEF u
  <2>5. q \in Nat /\ q * u <= n /\ n < q * u + u
    BY <2>4
  <2> HIDE DEF q
  <2>6. q >= SlCount
    <3> SUFFICES ASSUME q <= SlCount - 1 PROVE FALSE
      BY <1>0, <2>5
    <3>1. q * u <= (SlCount - 1) * u
      BY <1>0, <2>4, <2>5
    <3>2. (SlCount - 1) * u + u = SlCount * u
      BY <1>0, <2>4
    <3>3. q * u \in Nat /\ (SlCount - 1) * u \in Nat /\ SlCount * u \in Nat
      BY <1>0, <2>4, <2>5
    <3> QED BY <2>1, <2>4, <2>5, <3>1, <3>2, <3>3
  <2>7. q < 2 * SlCount
    <3> SUFFICES ASSUME q >= 2 * SlCount PROVE FALSE
      BY <1>0, <2>5
    <3>1. q * u >= (2 * SlCount) * u
      BY <1>0, <2>4, <2>5
    <3>2. (2 * SlCount) * u = 2 * (SlCount * u)
      BY <1>0, <2>4
    <3>3. q * u \in Nat /\ SlCount * u \in Nat
      BY <1>0, <2>4, <2>5
    <3> QED BY <2>1, <2>4, <2>5, <3>1, <3>2, <3>3
  <2>8. mapping_insert(n) = <<k - SlLog2 + 1, q - SlCount>>
    BY <1>2 DEF mapping_insert, k, u, q
  <2>9. q - SlCount \in SlIndex /\ k - SlLog2 + 1 \in 0 .. 31 - SlLog2 /\ k - SlLog2 + 1 # 0
    BY <1>0, <2>1, <2>2, <2>5, <2>6, <2>7 DEF SlIndex
  <2>10. (k - SlLog2 + 1) - 1 = k - SlLog2 /\ SlCount + (q - SlCount) = q
    BY <1>0, <2>1, <2>5
  <2>11. InClass(n, <<k - SlLog2 + 1, q - SlCount>>)
    <3>1. Unit(<<k - SlLog2 + 1, q - SlCount>>) = u
      BY <2>10 DEF Unit, u
    <3>2. u * q = q * u
      BY <2>4, <2>5
    <3> QED BY <2>5, <2>9, <2>10, <3>1, <3>2 DEF InClass
  <2>12. n < MAX_SIZE => k - SlLog2 + 1 \in FlIndex
    <3> SUFFICES ASSUME n < MAX_SIZE, k >= MaxLog2 PROVE FALSE
      BY <1>0, <2>1, <2>2 DEF FlIndex
    <3>1. MaxLog2 \in 0 .. 31 /\ k \in 0 .. 31
      BY <1>0, <2>1
    <3>2. Pow2(MaxLog2) <= Pow2(k) /\ Pow2(MaxLog2) \in Nat /\ Pow2(k) \in Nat
      BY <3>1, PowerOrder
    <3> QED BY <2>1, <3>2 DEF MAX_SIZE
  <2> QED BY <1>2, <2>8, <2>9, <2>11, <2>12 DEF k
<1> QED BY <1>1, <1>2

(* The order of the lists is that of their sizes.                          *)
AtLeast(at, from) == at[1] > from[1] \/ (at[1] = from[1] /\ at[2] >= from[2])

(* A size of a later class is larger than any of an earlier one.           *)
LEMMA LargerClass ==
  ASSUME NEW m \in Nat, NEW n \in Nat, 1 <= n, n <= m, m < Pow2(31)
  PROVE  AtLeast(mapping_insert(m), mapping_insert(n))
<1> DEFINE am == mapping_insert(m)
           an == mapping_insert(n)
<1>0. SlLog2 \in 1 .. 27 /\ SlCount \in Nat /\ SlCount >= 2 /\ Pow2(31) \in Nat
  BY SizeConstants, Powers
<1>1. /\ am[1] \in 0 .. 31 - SlLog2 /\ am[2] \in SlIndex /\ InClass(m, am) /\ (am[1] = 0 <=> m < SlCount)
      /\ m >= SlCount => am[1] = tlsf_fls(m) - SlLog2 + 1
  <2>1. 1 <= m
    OBVIOUS
  <2> QED BY <2>1, MapInsert
<1>2. /\ an[1] \in 0 .. 31 - SlLog2 /\ an[2] \in SlIndex /\ InClass(n, an) /\ (an[1] = 0 <=> n < SlCount)
      /\ n >= SlCount => an[1] = tlsf_fls(n) - SlLog2 + 1
  <2>1. n < Pow2(31)
    BY <1>0
  <2> QED BY <2>1, MapInsert
<1> HIDE DEF am, an
<1>3. CASE n < SlCount
  <2>1. an[1] = 0 /\ an[2] = n
    BY <1>2, <1>3 DEF InClass
  <2>2. CASE m < SlCount
    BY <1>1, <2>1, <2>2 DEF InClass, AtLeast, am, an
  <2>3. CASE ~(m < SlCount)
    BY <1>0, <1>1, <2>1, <2>3 DEF AtLeast, am, an
  <2> QED BY <2>2, <2>3
<1>4. CASE ~(n < SlCount)
  <2>1. n >= SlCount /\ m >= SlCount
    BY <1>0, <1>4
  <2>2. /\ tlsf_fls(n) \in 0 .. 30 /\ Pow2(tlsf_fls(n)) <= n /\ n < Pow2(tlsf_fls(n) + 1)
        /\ tlsf_fls(m) \in 0 .. 30 /\ Pow2(tlsf_fls(m)) <= m /\ m < Pow2(tlsf_fls(m) + 1)
    <3>1. n < Pow2(31) /\ 1 <= m
      BY <1>0
    <3> QED BY <3>1, Fls
  <2>3. tlsf_fls(n) <= tlsf_fls(m)
    BY <2>2, FlsOrder
  <2>4. an[1] <= am[1] /\ an[1] # 0 /\ am[1] # 0
    BY <1>0, <1>1, <1>2, <2>1, <2>2, <2>3
  <2>5. CASE an[1] < am[1]
    BY <1>1, <1>2, <2>5 DEF AtLeast, am, an
  <2>6. CASE an[1] = am[1]
    <3> DEFINE u == Unit(am)
    <3>1. u \in Nat \ {0} /\ Unit(an) = u
      <4>1. am[1] - 1 \in 0 .. 31
        BY <1>0, <1>1, <2>4
      <4> QED BY <2>6, <4>1, PowerOrder DEF Unit
    <3> HIDE DEF u
    <3>2. am[2] \in Nat /\ an[2] \in Nat
      BY <1>0, <1>1, <1>2 DEF SlIndex
    <3>3. u * (SlCount + an[2]) <= n /\ m < u * (SlCount + am[2]) + u
      BY <1>1, <1>2, <2>4, <3>1 DEF InClass, u
    <3>4. am[2] >= an[2]
      <4> SUFFICES ASSUME am[2] + 1 <= an[2] PROVE FALSE
        BY <3>2
      <4>1. u * (SlCount + am[2] + 1) <= u * (SlCount + an[2])
        BY <1>0, <3>1, <3>2
      <4>2. u * (SlCount + am[2] + 1) = u * (SlCount + am[2]) + u
        BY <1>0, <3>1, <3>2
      <4>3. u * (SlCount + am[2]) \in Nat /\ u * (SlCount + an[2]) \in Nat
        BY <1>0, <3>1, <3>2
      <4> QED BY <3>1, <3>3, <4>1, <4>2, <4>3
    <3> QED BY <2>6, <3>2, <3>4 DEF AtLeast, am, an
  <2> QED BY <1>1, <1>2, <2>4, <2>5, <2>6
<1> QED BY <1>3, <1>4

(* What a request is rounded up to.                                        *)
Rounded(n) == IF n < SlCount THEN n ELSE n + Pow2(tlsf_fls(n) - SlLog2) - 1

(* mapping_search looks where the rounded request would be inserted.       *)
LEMMA RoundedUp ==
  ASSUME NEW n \in Nat, 1 <= n, n < Pow2(30)
  PROVE  /\ Rounded(n) \in Nat /\ n <= Rounded(n) /\ Rounded(n) < Pow2(31)
         /\ mapping_search(n) = mapping_insert(Rounded(n))
         /\ n >= SlCount => /\ tlsf_fls(n) \in SlLog2 .. 29
                            /\ Pow2(tlsf_fls(n) - SlLog2) \in Nat \ {0}
<1>0. SlLog2 \in 1 .. 27 /\ SlCount \in Nat /\ SlCount >= 2 /\ Pow2(31) = 2 * Pow2(30) /\ Pow2(30) \in Nat
  BY SizeConstants
<1>1. mapping_search(n) = mapping_insert(Rounded(n))
  BY DEF mapping_search, Rounded
<1>2. CASE n < SlCount
  BY <1>0, <1>1, <1>2 DEF Rounded
<1>3. CASE ~(n < SlCount)
  <2> DEFINE k == tlsf_fls(n)
  <2>1. k \in 0 .. 30 /\ Pow2(k) <= n /\ n < Pow2(k + 1)
    BY <1>0, Fls
  <2> HIDE DEF k
  <2>2. k # 30
    BY <1>0, <2>1
  <2>3. k >= SlLog2
    <3>1. SlLog2 \in 0 .. 30 /\ Pow2(SlLog2) <= SlCount /\ SlCount < Pow2(SlLog2 + 1)
      BY <1>0, Powers DEF SlCount
    <3>2. SlCount <= n
      BY <1>0, <1>3
    <3> QED BY <1>0, <2>1, <3>1, <3>2, FlsOrder
  <2>4. k - SlLog2 \in 0 .. 31 /\ 30 \in 0 .. 31 /\ k - SlLog2 <= 30
    BY <1>0, <2>1, <2>3
  <2>5. Pow2(k - SlLog2) \in Nat \ {0} /\ Pow2(k - SlLog2) <= Pow2(30)
    BY <2>4, PowerOrder
  <2>6. Rounded(n) = n + Pow2(k - SlLog2) - 1
    BY <1>3 DEF Rounded, k
  <2>7. k \in SlLog2 .. 29
    BY <1>0, <2>1, <2>2, <2>3
  <2>8. n + Pow2(k - SlLog2) - 1 \in Nat /\ n <= n + Pow2(k - SlLog2) - 1 /\ n + Pow2(k - SlLog2) - 1 < Pow2(31)
    BY <1>0, <2>5
  <2> QED BY <1>1, <2>5, <2>6, <2>7, <2>8 DEF k
<1> QED BY <1>2, <1>3

(* A block of the list a request is sent to, or of a later one, is large   *)
(* enough.                                                                 *)
LEMMA SearchFits ==
  ASSUME NEW n \in Nat, 1 <= n, n < Pow2(30), NEW m \in Nat, 1 <= m, m < Pow2(31),
         AtLeast(mapping_insert(m), mapping_search(n))
  PROVE  m >= n
<1> SUFFICES ASSUME m < n PROVE FALSE
  OBVIOUS
<1> DEFINE r == Rounded(n)
           am == mapping_insert(m)
           ar == mapping_insert(r)
<1>0. SlLog2 \in 1 .. 27 /\ SlCount \in Nat /\ SlCount >= 2
  BY SizeConstants
<1>1. /\ r \in Nat /\ n <= r /\ r < Pow2(31) /\ mapping_search(n) = ar
      /\ n >= SlCount => tlsf_fls(n) \in SlLog2 .. 29 /\ Pow2(tlsf_fls(n) - SlLog2) \in Nat \ {0}
  BY RoundedUp
<1>2. /\ am[1] \in 0 .. 31 - SlLog2 /\ am[2] \in SlIndex /\ InClass(m, am) /\ (am[1] = 0 <=> m < SlCount)
      /\ m >= SlCount => am[1] = tlsf_fls(m) - SlLog2 + 1
  BY MapInsert
<1>3. /\ ar[1] \in 0 .. 31 - SlLog2 /\ ar[2] \in SlIndex /\ InClass(r, ar) /\ (ar[1] = 0 <=> r < SlCount)
  <2>1. 1 <= r
    BY <1>1
  <2> HIDE DEF r
  <2> QED BY <1>1, <2>1, MapInsert
<1>4. AtLeast(ar, am)
  <2>1. m <= r
    BY <1>1
  <2> HIDE DEF r
  <2> QED BY <1>1, <2>1, LargerClass
<1>5. AtLeast(am, ar)
  BY <1>1
<1> HIDE DEF am, ar
<1>6. am[1] = ar[1] /\ am[2] = ar[2]
  BY <1>0, <1>2, <1>3, <1>4, <1>5 DEF AtLeast, SlIndex
<1>7. CASE n < SlCount
  <2>1. r = n
    BY <1>7 DEF Rounded
  <2>2. n = ar[2] /\ m = am[2]
    BY <1>0, <1>2, <1>3, <1>6, <1>7, <2>1 DEF InClass
  <2> QED BY <1>6, <2>2
<1>8. CASE ~(n < SlCount)
  <2> DEFINE k == tlsf_fls(n)
             v == Pow2(k - SlLog2)
             u == Unit(am)
  <2>1. r = n + v - 1 /\ v \in Nat \ {0} /\ k \in SlLog2 .. 29
    BY <1>0, <1>1, <1>8 DEF Rounded
  <2>2. ar[1] # 0 /\ am[1] # 0 /\ m >= SlCount
    <3>1. ~(r < SlCount)
      BY <1>0, <1>1, <1>8
    <3> QED BY <1>0, <1>2, <1>3, <1>6, <3>1
  <2>3. am[1] - 1 = tlsf_fls(m) - SlLog2 /\ tlsf_fls(m) \in 0 .. 30
        /\ Pow2(tlsf_fls(m)) <= m /\ m < Pow2(tlsf_fls(m) + 1)
    <3>1. tlsf_fls(m) \in 0 .. 30 /\ Pow2(tlsf_fls(m)) <= m /\ m < Pow2(tlsf_fls(m) + 1)
      BY Fls
    <3> QED BY <1>0, <1>2, <2>2, <3>1
  <2>4. k \in 0 .. 30 /\ Pow2(k) <= n /\ n < Pow2(k + 1)
    <3>1. n < Pow2(31)
      BY SizeConstants
    <3> QED BY <3>1, Fls
  <2>5. tlsf_fls(m) <= k
    <3> HIDE DEF k
    <3>1. m <= n /\ m \in Nat /\ n \in Nat
      OBVIOUS
    <3> DEFINE j == tlsf_fls(m)
    <3>2. j \in 0 .. 30 /\ Pow2(j) <= m /\ m < Pow2(j + 1)
      BY <2>3
    <3> HIDE DEF j
    <3>3. j <= k
      BY <2>4, <3>1, <3>2, FlsOrder
    <3> QED BY <3>3 DEF j
  <2>6. u <= v
    <3> DEFINE j == tlsf_fls(m)
    <3>0. j \in 0 .. 30 /\ j <= k /\ am[1] - 1 = j - SlLog2
      BY <2>3, <2>5
    <3>1. am[1] - 1 \in 0 .. 31 /\ k - SlLog2 \in 0 .. 31 /\ am[1] - 1 <= k - SlLog2
      <4> HIDE DEF j, k, v, u
      <4> QED BY <1>0, <1>2, <2>1, <2>2, <2>4, <3>0
    <3> QED BY <3>1, PowerOrder DEF Unit
  <2>7. u \in Nat /\ Unit(ar) = u
    <3>1. am[1] - 1 \in 0 .. 31
      BY <1>0, <1>2, <2>2
    <3> QED BY <1>6, <3>1, PowerOrder DEF Unit
  <2> HIDE DEF u, v, k
  <2> DEFINE low == u * (SlCount + am[2])
  <2>8. low <= m /\ r < low + u
    BY <1>2, <1>3, <1>6, <2>2, <2>7 DEF InClass, u
  <2>9. low \in Nat
    <3>1. am[2] \in Nat
      BY <1>0, <1>2 DEF SlIndex
    <3> QED BY <1>0, <2>7, <3>1
  <2> HIDE DEF low, r
  <2> QED BY <1>1, <2>1, <2>6, <2>7, <2>8, <2>9
<1> QED BY <1>7, <1>8

--------------------------------------------------------------------------------
(***************************************************************************)
(* The heap between two steps of a call: the blocks tile the pool, the     *)
(* flags behind each block say what it is, and the lists hold the free     *)
(* blocks but those of a set S, which the call has in its hands.           *)
(***************************************************************************)
LAST == PoolWords - START
Header == [size : Nat, free : BOOLEAN, prevfree : BOOLEAN, prev : Int]
Lists == FlIndex \X SlIndex
ListOf(h, b) == mapping_insert(h.blk[b].size)
FreeBlocks(h) == {b \in DOMAIN h.blk : h.blk[b].free}
Used(h) == {b \in DOMAIN h.blk : ~h.blk[b].free /\ b # LAST}

IsHeap(h) ==
  h = [blk |-> h.blk, blocks |-> h.blocks, fl_bitmap |-> h.fl_bitmap, sl_bitmap |-> h.sl_bitmap]
Tiles(h) ==
  /\ h.blk \in [DOMAIN h.blk -> Header] /\ DOMAIN h.blk \subseteq FirstBlock .. LAST
  /\ FirstBlock \in DOMAIN h.blk /\ LAST \in DOMAIN h.blk /\ h.blk[LAST].size = 0
  /\ \A b \in DOMAIN h.blk \ {LAST} :
       /\ h.blk[b].size >= MIN_SIZE /\ block_next(h, b) \in DOMAIN h.blk
       /\ \A c \in DOMAIN h.blk : b < c => block_next(h, b) <= c
  /\ \A c \in DOMAIN h.blk \ {FirstBlock} : \E a \in DOMAIN h.blk \ {LAST} : block_next(h, a) = c
Flags(h) ==
  /\ ~h.blk[LAST].free /\ ~h.blk[FirstBlock].prevfree
  /\ \A b \in DOMAIN h.blk \ {LAST} :
       /\ h.blk[block_next(h, b)].prevfree = h.blk[b].free
       /\ h.blk[b].free => h.blk[block_next(h, b)].prev = b
Apart(h, S) ==
  \A b \in FreeBlocks(h) \ S : block_next(h, b) \in FreeBlocks(h) => block_next(h, b) \in S
Listed(h, F) ==
  /\ h.blocks \in [Lists -> Seq(Int)] /\ h.sl_bitmap \in [FlIndex -> SUBSET SlIndex]
  /\ h.fl_bitmap = {i \in FlIndex : h.sl_bitmap[i] # {}}
  /\ \A i \in FlIndex, j \in SlIndex : j \in h.sl_bitmap[i] <=> h.blocks[<<i, j>>] # <<>>
  /\ \A at \in Lists : /\ NoDuplicates(h.blocks[at])
                       /\ Range(h.blocks[at]) = {b \in F : ListOf(h, b) = at}
HeapOK(h, S) ==
  /\ IsHeap(h) /\ Tiles(h) /\ Flags(h) /\ S \subseteq FreeBlocks(h)
  /\ Apart(h, S) /\ Listed(h, FreeBlocks(h) \ S)
SameLists(g, h) == g.blocks = h.blocks /\ g.fl_bitmap = h.fl_bitmap /\ g.sl_bitmap = h.sl_bitmap

(* The first block and the sentinel.                                       *)
LEMMA PoolConstants == LAST \in Nat /\ LAST >= 3 /\ LAST < MAX_SIZE /\ FirstBlock = -1
BY TlsfAssumption, SizeConstants DEF LAST, START, FirstBlock, OVERHEAD, MAX_SIZE

(* A block of a pool that is tiled: types, size, and what follows it.      *)
LEMMA TilesFacts ==
  ASSUME NEW h, Tiles(h), NEW b \in DOMAIN h.blk
  PROVE  /\ b \in Int /\ b \in -1 .. LAST /\ h.blk[b] \in Header /\ h.blk[b].size \in Nat
         /\ h.blk[b].free \in BOOLEAN /\ h.blk[b].prevfree \in BOOLEAN /\ h.blk[b].prev \in Int
         /\ block_next(h, b) = b + 1 + h.blk[b].size
         /\ h.blk[b].size = 0 <=> b = LAST
         /\ b # LAST => /\ h.blk[b].size >= 3 /\ block_next(h, b) \in DOMAIN h.blk
                        /\ b < block_next(h, b) /\ block_next(h, b) <= LAST
                        /\ h.blk[b].size < MAX_SIZE /\ ListOf(h, b) \in Lists
<1>1. /\ h.blk \in [DOMAIN h.blk -> Header] /\ DOMAIN h.blk \subseteq -1 .. LAST
      /\ h.blk[LAST].size = 0
      /\ b # LAST => h.blk[b].size >= 3 /\ block_next(h, b) \in DOMAIN h.blk
  BY PoolConstants DEF Tiles, MIN_SIZE
<1>2. /\ b \in Int /\ b \in -1 .. LAST /\ h.blk[b] \in Header /\ h.blk[b].size \in Nat
      /\ h.blk[b].free \in BOOLEAN /\ h.blk[b].prevfree \in BOOLEAN /\ h.blk[b].prev \in Int
  BY <1>1, PoolConstants DEF Header
<1>3. block_next(h, b) = b + 1 + h.blk[b].size
  BY <1>2 DEF block_next, START, OVERHEAD
<1>4. ASSUME b # LAST
      PROVE  b < block_next(h, b) /\ block_next(h, b) <= LAST /\ h.blk[b].size < MAX_SIZE
  <2> DEFINE n == block_next(h, b)
             m == h.blk[b].size
  <2>1. n \in -1 .. LAST /\ n = b + 1 + m /\ m \in Nat /\ b \in -1 .. LAST
    BY <1>1, <1>2, <1>3, <1>4
  <2> HIDE DEF n, m
  <2>2. b < n /\ n <= LAST /\ m < MAX_SIZE
    BY <2>1, PoolConstants, SizeConstants
  <2> QED BY <2>2 DEF n, m
<1>5. ASSUME b # LAST PROVE ListOf(h, b) \in Lists
  <2> DEFINE m == h.blk[b].size
  <2>1. m \in Nat /\ 1 <= m /\ m < MAX_SIZE
    BY <1>1, <1>2, <1>4, <1>5
  <2> HIDE DEF m
  <2>2. m < Pow2(31)
    BY <2>1, SizeConstants
  <2> DEFINE at == mapping_insert(m)
  <2>3. at[1] \in FlIndex /\ at[2] \in SlIndex /\ at = <<at[1], at[2]>>
    <3>1. at \in (0 .. 31 - SlLog2) \X SlIndex /\ at = <<at[1], at[2]>> /\ at[1] \in FlIndex
      BY <2>1, <2>2, MapInsert
    <3> QED BY <3>1
  <2> HIDE DEF at
  <2>4. at \in Lists
    BY <2>3 DEF Lists
  <2> QED BY <2>4 DEF at, m, ListOf
<1> QED BY <1>1, <1>2, <1>3, <1>4, <1>5

(* Blocks do not overlap, and no two have the same block behind them.      *)
LEMMA NextOrder ==
  ASSUME NEW h, Tiles(h), NEW b \in DOMAIN h.blk \ {LAST}, NEW c \in DOMAIN h.blk
  PROVE  /\ b < c => block_next(h, b) <= c
         /\ c # LAST /\ b # c => block_next(h, b) # block_next(h, c)
<1>1. b < c => block_next(h, b) <= c
  BY DEF Tiles
<1>2. ASSUME c # LAST PROVE c < b => block_next(h, c) <= b
  BY <1>2 DEF Tiles
<1>3. b \in Int /\ c \in Int /\ block_next(h, b) \in Int /\ b < block_next(h, b)
  BY TilesFacts
<1>4. ASSUME c # LAST PROVE block_next(h, c) \in Int /\ c < block_next(h, c)
  BY <1>4, TilesFacts
<1> QED BY <1>1, <1>2, <1>3, <1>4

--------------------------------------------------------------------------------
(* The free lists.                                                         *)
LEMMA InsertLists ==
  ASSUME NEW h, IsHeap(h), NEW F, F \subseteq Int, Listed(h, F), NEW b \in Int, b \notin F, ListOf(h, b) \in Lists
  PROVE  /\ IsHeap(block_insert(h, b)) /\ block_insert(h, b).blk = h.blk
         /\ Listed(block_insert(h, b), F \cup {b})
<1> DEFINE at == ListOf(h, b)
           g  == block_insert(h, b)
<1>0. g = insert_free_block(h, b, at)
  BY DEF block_insert, ListOf
<1>1. /\ IsHeap(g) /\ g.blk = h.blk
      /\ g.blocks = [h.blocks EXCEPT ![at] = Link(@, b)]
      /\ g.fl_bitmap = h.fl_bitmap \cup {at[1]}
      /\ g.sl_bitmap = [h.sl_bitmap EXCEPT ![at[1]] = @ \cup {at[2]}]
  <2> DEFINE p == h.fl_bitmap \cup {at[1]}
             q == [h.sl_bitmap EXCEPT ![at[1]] = @ \cup {at[2]}]
             r == [h.blocks EXCEPT ![at] = Link(@, b)]
  <2>1. g = [h EXCEPT !.blocks = r, !.fl_bitmap = p, !.sl_bitmap = q]
    BY <1>0 DEF insert_free_block
  <2> HIDE DEF g, at, p, q, r
  <2>2. IsHeap(g) /\ g.blk = h.blk /\ g.blocks = r /\ g.fl_bitmap = p /\ g.sl_bitmap = q
    BY <2>1 DEF IsHeap
  <2> QED BY <2>2 DEF p, q, r
<1>2. /\ h.blocks \in [Lists -> Seq(Int)] /\ h.sl_bitmap \in [FlIndex -> SUBSET SlIndex]
      /\ h.fl_bitmap = {i \in FlIndex : h.sl_bitmap[i] # {}}
      /\ \A i \in FlIndex, j \in SlIndex : j \in h.sl_bitmap[i] <=> h.blocks[<<i, j>>] # <<>>
      /\ \A l \in Lists : NoDuplicates(h.blocks[l]) /\ Range(h.blocks[l]) = {c \in F : ListOf(h, c) = l}
  BY DEF Listed
<1>3. at \in Lists /\ at[1] \in FlIndex /\ at[2] \in SlIndex /\ at = <<at[1], at[2]>>
  BY DEF Lists
<1>4. \A c : ListOf(g, c) = ListOf(h, c)
  BY <1>1 DEF ListOf
<1> HIDE DEF g
<1> DEFINE q == Link(h.blocks[at], b)
<1>5. /\ q \in Seq(Int) /\ Range(q) = Range(h.blocks[at]) \cup {b} /\ q # <<>>
      /\ NoDuplicates(q)
  <2>1. h.blocks[at] \in Seq(Int) /\ NoDuplicates(h.blocks[at]) /\ b \notin Range(h.blocks[at])
    BY <1>2, <1>3
  <2>2. q \in Seq(Int) /\ Range(q) = Range(h.blocks[at]) \cup {b} /\ NoDuplicates(q)
    BY <2>1, LinkProperties
  <2>3. q # <<>>
    BY <2>2, EmptyRange
  <2> QED BY <2>2, <2>3
<1>6. /\ g.blocks \in [Lists -> Seq(Int)]
      /\ g.blocks[at] = q /\ \A l \in Lists \ {at} : g.blocks[l] = h.blocks[l]
  BY <1>1, <1>2, <1>3, <1>5
<1>7. ListOf(h, b) = at
  OBVIOUS
<1> HIDE DEF q, at
<1>8. /\ g.sl_bitmap \in [FlIndex -> SUBSET SlIndex]
      /\ g.sl_bitmap[at[1]] = h.sl_bitmap[at[1]] \cup {at[2]}
      /\ \A i \in FlIndex \ {at[1]} : g.sl_bitmap[i] = h.sl_bitmap[i]
  BY <1>1, <1>2, <1>3
<1>9. g.fl_bitmap = {i \in FlIndex : g.sl_bitmap[i] # {}}
  BY <1>1, <1>2, <1>3, <1>8
<1>10. ASSUME NEW i \in FlIndex, NEW j \in SlIndex
       PROVE  j \in g.sl_bitmap[i] <=> g.blocks[<<i, j>>] # <<>>
  <2>1. <<i, j>> \in Lists /\ (<<i, j>> = at <=> i = at[1] /\ j = at[2])
    BY <1>3 DEF Lists
  <2>2. CASE <<i, j>> = at
    BY <2>1, <2>2, <1>5, <1>6, <1>8
  <2>3. CASE <<i, j>> # at
    <3>1. g.blocks[<<i, j>>] = h.blocks[<<i, j>>]
      BY <1>6, <2>1, <2>3
    <3>2. j \in g.sl_bitmap[i] <=> j \in h.sl_bitmap[i]
      BY <1>8, <2>1, <2>3
    <3> QED BY <1>2, <3>1, <3>2
  <2> QED BY <2>2, <2>3
<1>11. ASSUME NEW l \in Lists
       PROVE  NoDuplicates(g.blocks[l]) /\ Range(g.blocks[l]) = {c \in F \cup {b} : ListOf(g, c) = l}
  <2>1. CASE l = at
    BY <1>2, <1>4, <1>5, <1>6, <1>7, <2>1
  <2>2. CASE l # at
    BY <1>2, <1>4, <1>6, <1>7, <2>2
  <2> QED BY <2>1, <2>2
<1>12. Listed(g, F \cup {b})
  BY <1>6, <1>8, <1>9, <1>10, <1>11 DEF Listed
<1> QED BY <1>1, <1>12 DEF g

(* remove_free_block takes a block from its list and keeps the bitmaps.    *)
LEMMA RemoveLists ==
  ASSUME NEW h, IsHeap(h), NEW F, F \subseteq Int, Listed(h, F), NEW b \in F, NEW at \in Lists, ListOf(h, b) = at
  PROVE  /\ IsHeap(remove_free_block(h, b, at)) /\ remove_free_block(h, b, at).blk = h.blk
         /\ Listed(remove_free_block(h, b, at), F \ {b})
<1> DEFINE g    == remove_free_block(h, b, at)
           rest == Unlink(h.blocks[at], b)
           sl   == h.sl_bitmap[at[1]] \ (IF rest = <<>> THEN {at[2]} ELSE {})
<1>1. /\ IsHeap(g) /\ g.blk = h.blk
      /\ g.blocks = [h.blocks EXCEPT ![at] = rest]
      /\ g.fl_bitmap = h.fl_bitmap \ (IF sl = {} THEN {at[1]} ELSE {})
      /\ g.sl_bitmap = [h.sl_bitmap EXCEPT ![at[1]] = sl]
  <2>1. g = [h EXCEPT !.blocks[at] = rest, !.sl_bitmap[at[1]] = sl,
                      !.fl_bitmap = @ \ (IF sl = {} THEN {at[1]} ELSE {})]
    BY DEF remove_free_block
  <2> HIDE DEF g, rest, sl
  <2> QED BY <2>1 DEF IsHeap
<1>2. /\ h.blocks \in [Lists -> Seq(Int)] /\ h.sl_bitmap \in [FlIndex -> SUBSET SlIndex]
      /\ h.fl_bitmap = {i \in FlIndex : h.sl_bitmap[i] # {}}
      /\ \A i \in FlIndex, j \in SlIndex : j \in h.sl_bitmap[i] <=> h.blocks[<<i, j>>] # <<>>
      /\ \A l \in Lists : NoDuplicates(h.blocks[l]) /\ Range(h.blocks[l]) = {c \in F : ListOf(h, c) = l}
  BY DEF Listed
<1>3. at \in Lists /\ at[1] \in FlIndex /\ at[2] \in SlIndex /\ at = <<at[1], at[2]>>
  BY DEF Lists
<1>4. \A c : ListOf(g, c) = ListOf(h, c)
  BY <1>1 DEF ListOf
<1>5. rest \in Seq(Int) /\ Range(rest) = Range(h.blocks[at]) \ {b} /\ NoDuplicates(rest)
  <2>1. h.blocks[at] \in Seq(Int) /\ NoDuplicates(h.blocks[at])
    BY <1>2, <1>3
  <2> QED BY <2>1, UnlinkProperties
<1>6. /\ sl \subseteq SlIndex
      /\ at[2] \in sl <=> rest # <<>>
      /\ \A j \in SlIndex \ {at[2]} : j \in sl <=> j \in h.sl_bitmap[at[1]]
  <2>1. at[2] \in h.sl_bitmap[at[1]]
    <3>1. b \in Range(h.blocks[at])
      BY <1>2
    <3>2. h.blocks[at] # <<>>
      <4>1. h.blocks[at] \in Seq(Int)
        BY <1>2, <1>3
      <4> QED BY <3>1, <4>1, EmptyRange
    <3> QED BY <1>2, <1>3, <3>2
  <2>2. h.sl_bitmap[at[1]] \subseteq SlIndex
    BY <1>2, <1>3
  <2> HIDE DEF rest
  <2>3. CASE rest = <<>>
    BY <2>1, <2>2, <2>3
  <2>4. CASE rest # <<>>
    BY <2>1, <2>2, <2>4
  <2> QED BY <2>3, <2>4
<1> HIDE DEF g, rest, sl
<1>7. /\ g.blocks \in [Lists -> Seq(Int)]
      /\ g.blocks[at] = rest /\ \A l \in Lists \ {at} : g.blocks[l] = h.blocks[l]
  BY <1>1, <1>2, <1>5
<1>8. /\ g.sl_bitmap \in [FlIndex -> SUBSET SlIndex]
      /\ g.sl_bitmap[at[1]] = sl
      /\ \A i \in FlIndex \ {at[1]} : g.sl_bitmap[i] = h.sl_bitmap[i]
  BY <1>1, <1>2, <1>3, <1>6
<1>9. g.fl_bitmap = {i \in FlIndex : g.sl_bitmap[i] # {}}
  <2>1. h.sl_bitmap[at[1]] # {}
    <3>1. b \in Range(h.blocks[at])
      BY <1>2
    <3>2. h.blocks[at] # <<>>
      <4>1. h.blocks[at] \in Seq(Int)
        BY <1>2, <1>3
      <4> QED BY <3>1, <4>1, EmptyRange
    <3> QED BY <1>2, <1>3, <3>2
  <2>2. CASE sl = {}
    BY <1>1, <1>2, <1>3, <1>8, <2>2
  <2>3. CASE sl # {}
    BY <1>1, <1>2, <1>3, <1>8, <2>1, <2>3
  <2> QED BY <2>2, <2>3
<1>10. ASSUME NEW i \in FlIndex, NEW j \in SlIndex
       PROVE  j \in g.sl_bitmap[i] <=> g.blocks[<<i, j>>] # <<>>
  <2>1. <<i, j>> \in Lists /\ (<<i, j>> = at <=> i = at[1] /\ j = at[2])
    BY <1>3 DEF Lists
  <2>2. CASE <<i, j>> = at
    BY <2>1, <2>2, <1>6, <1>7, <1>8
  <2>3. CASE <<i, j>> # at
    <3>1. g.blocks[<<i, j>>] = h.blocks[<<i, j>>]
      BY <1>7, <2>1, <2>3
    <3>2. j \in g.sl_bitmap[i] <=> j \in h.sl_bitmap[i]
      BY <1>6, <1>8, <2>1, <2>3
    <3> QED BY <1>2, <3>1, <3>2
  <2> QED BY <2>2, <2>3
<1>11. ASSUME NEW l \in Lists
       PROVE  NoDuplicates(g.blocks[l]) /\ Range(g.blocks[l]) = {c \in F \ {b} : ListOf(g, c) = l}
  <2>1. CASE l = at
    BY <1>2, <1>4, <1>5, <1>7, <2>1
  <2>2. CASE l # at
    BY <1>2, <1>4, <1>7, <2>2
  <2> QED BY <2>1, <2>2
<1>12. Listed(g, F \ {b})
  BY <1>7, <1>8, <1>9, <1>10, <1>11 DEF Listed
<1> QED BY <1>1, <1>12 DEF g

(* Changes of the lists alone leave the blocks as they are.                *)
LEMMA SameBlocks ==
  ASSUME NEW h, NEW g, g.blk = h.blk
  PROVE  /\ \A b : block_next(g, b) = block_next(h, b) /\ ListOf(g, b) = ListOf(h, b)
         /\ Tiles(h) => Tiles(g)
         /\ Flags(h) => Flags(g)
         /\ FreeBlocks(g) = FreeBlocks(h) /\ Used(g) = Used(h)
<1>1. \A b : block_next(g, b) = block_next(h, b) /\ ListOf(g, b) = ListOf(h, b)
  BY DEF block_next, ListOf
<1>2. Tiles(h) => Tiles(g)
  BY <1>1, Zenon DEF Tiles
<1>3. Flags(h) => Flags(g)
  BY <1>1, Zenon DEF Flags
<1>4. FreeBlocks(g) = FreeBlocks(h) /\ Used(g) = Used(h)
  BY DEF FreeBlocks, Used
<1> QED BY <1>1, <1>2, <1>3, <1>4

(* Taking a block from its list, and putting one into its list.            *)
LEMMA TakeOut ==
  ASSUME NEW h, NEW S, HeapOK(h, S), NEW b \in FreeBlocks(h) \ S, NEW at, at = ListOf(h, b)
  PROVE  LET g == remove_free_block(h, b, at)
         IN  HeapOK(g, S \cup {b}) /\ g.blk = h.blk
<1> DEFINE g == remove_free_block(h, b, at)
<1>1. /\ IsHeap(h) /\ Tiles(h) /\ Flags(h) /\ S \subseteq FreeBlocks(h) /\ Apart(h, S)
      /\ Listed(h, FreeBlocks(h) \ S)
  BY DEF HeapOK
<1>2. FreeBlocks(h) \ S \subseteq Int /\ b # LAST /\ b \in DOMAIN h.blk
  <2>1. \A c \in FreeBlocks(h) : c \in Int
    BY <1>1, TilesFacts DEF FreeBlocks
  <2>2. b # LAST
    BY <1>1 DEF Flags, FreeBlocks
  <2> QED BY <2>1, <2>2 DEF FreeBlocks
<1>3. at \in Lists
  BY <1>1, <1>2, TilesFacts
<1>4. IsHeap(g) /\ g.blk = h.blk /\ Listed(g, (FreeBlocks(h) \ S) \ {b})
  BY <1>1, <1>2, <1>3, RemoveLists
<1> HIDE DEF g
<1>5. Tiles(g) /\ Flags(g) /\ FreeBlocks(g) = FreeBlocks(h)
  BY <1>1, <1>4, SameBlocks
<1>6. Apart(g, S \cup {b})
  <2>1. \A c : block_next(g, c) = block_next(h, c)
    BY <1>4, SameBlocks
  <2> QED BY <1>1, <1>5, <2>1 DEF Apart
<1>7. FreeBlocks(g) \ (S \cup {b}) = (FreeBlocks(h) \ S) \ {b}
  BY <1>5
<1>8. HeapOK(g, S \cup {b})
  BY <1>1, <1>4, <1>5, <1>6, <1>7 DEF HeapOK
<1> QED BY <1>4, <1>8 DEF g

(* A block with no free neighbour in a list goes from hand to its list.    *)
LEMMA PutIn ==
  ASSUME NEW h, NEW S, HeapOK(h, S), NEW b \in S,
         \A c \in FreeBlocks(h) \ S : block_next(h, c) # b /\ block_next(h, b) # c
  PROVE  LET g == block_insert(h, b)
         IN  HeapOK(g, S \ {b}) /\ g.blk = h.blk
<1> DEFINE g == block_insert(h, b)
<1>1. /\ IsHeap(h) /\ Tiles(h) /\ Flags(h) /\ S \subseteq FreeBlocks(h) /\ Apart(h, S)
      /\ Listed(h, FreeBlocks(h) \ S)
  BY DEF HeapOK
<1>2. FreeBlocks(h) \ S \subseteq Int /\ b # LAST /\ b \in DOMAIN h.blk /\ b \in Int
  <2>1. \A c \in FreeBlocks(h) : c \in Int
    BY <1>1, TilesFacts DEF FreeBlocks
  <2>2. b # LAST
    BY <1>1 DEF Flags, FreeBlocks
  <2> QED BY <1>1, <2>1, <2>2 DEF FreeBlocks
<1>3. ListOf(h, b) \in Lists
  BY <1>1, <1>2, TilesFacts
<1>4. IsHeap(g) /\ g.blk = h.blk /\ Listed(g, (FreeBlocks(h) \ S) \cup {b})
  BY <1>1, <1>2, <1>3, InsertLists
<1> HIDE DEF g
<1>5. Tiles(g) /\ Flags(g) /\ FreeBlocks(g) = FreeBlocks(h)
  BY <1>1, <1>4, SameBlocks
<1>6. Apart(g, S \ {b})
  <2>1. \A c : block_next(g, c) = block_next(h, c)
    BY <1>4, SameBlocks
  <2>2. SUFFICES ASSUME NEW c \in FreeBlocks(h) \ (S \ {b}), block_next(h, c) \in FreeBlocks(h)
                 PROVE  block_next(h, c) \in S \ {b}
    BY <1>5, <2>1 DEF Apart
  <2>3. block_next(h, b) # b
    <3>1. block_next(h, b) \in Int /\ b < block_next(h, b)
      BY <1>1, <1>2, TilesFacts
    <3> QED BY <1>2, <3>1
  <2>4. CASE c = b
    BY <2>2, <2>3, <2>4
  <2>5. CASE c # b
    BY <1>1, <2>2, <2>5 DEF Apart
  <2> QED BY <2>4, <2>5
<1>7. FreeBlocks(g) \ (S \ {b}) = (FreeBlocks(h) \ S) \cup {b}
  BY <1>1, <1>5
<1>8. HeapOK(g, S \ {b})
  BY <1>1, <1>4, <1>5, <1>6, <1>7 DEF HeapOK
<1> QED BY <1>4, <1>8 DEF g

--------------------------------------------------------------------------------
(* Changes of the headers.                                                 *)
LEMMA ListedSame ==
  ASSUME NEW h, NEW g, NEW F, SameLists(g, h), Listed(h, F), \A c \in F : g.blk[c].size = h.blk[c].size
  PROVE  Listed(g, F)
<1>1. \A c \in F : ListOf(g, c) = ListOf(h, c)
  BY DEF ListOf
<1>2. \A at : {c \in F : ListOf(g, c) = at} = {c \in F : ListOf(h, c) = at}
  BY <1>1
<1> QED BY <1>2, Zenon DEF Listed, SameLists

(* Changes of the flags alone leave the tiling as it is.                   *)
LEMMA SameSizes ==
  ASSUME NEW h, Tiles(h), NEW g, g.blk \in [DOMAIN h.blk -> Header],
         \A c \in DOMAIN h.blk : g.blk[c].size = h.blk[c].size
  PROVE  /\ Tiles(g) /\ DOMAIN g.blk = DOMAIN h.blk
         /\ \A c \in DOMAIN h.blk : block_next(g, c) = block_next(h, c) /\ ListOf(g, c) = ListOf(h, c)
<1>1. DOMAIN g.blk = DOMAIN h.blk
  OBVIOUS
<1>2. \A c \in DOMAIN h.blk : block_next(g, c) = block_next(h, c) /\ ListOf(g, c) = ListOf(h, c)
  BY DEF block_next, ListOf
<1>3. Tiles(g)
  BY <1>1, <1>2 DEF Tiles
<1> QED BY <1>1, <1>2, <1>3

(* What block_mark_as_free changes in the headers.                         *)
LEMMA FreeFields ==
  ASSUME NEW h, IsHeap(h), h.blk \in [DOMAIN h.blk -> Header], NEW b \in DOMAIN h.blk,
         NEW n, n = block_next(h, b), n \in DOMAIN h.blk, b \in Int, b # n, NEW g, g = block_mark_as_free(h, b)
  PROVE  /\ IsHeap(g) /\ SameLists(g, h)
         /\ g.blk \in [DOMAIN h.blk -> Header]
         /\ \A c \in DOMAIN h.blk : g.blk[c].size = h.blk[c].size
         /\ g.blk[b].free /\ \A c \in DOMAIN h.blk \ {b} : g.blk[c].free = h.blk[c].free
         /\ g.blk[n].prevfree /\ g.blk[n].prev = b
         /\ \A c \in DOMAIN h.blk \ {n} : g.blk[c].prevfree = h.blk[c].prevfree /\ g.blk[c].prev = h.blk[c].prev
<1> DEFINE D == DOMAIN h.blk
<1>1. IsHeap(g) /\ SameLists(g, h)
      /\ g.blk = [h.blk EXCEPT ![b].free = TRUE, ![n].prev = b, ![n].prevfree = TRUE]
  <2> DEFINE blk == [h.blk EXCEPT ![b].free = TRUE, ![n].prev = b, ![n].prevfree = TRUE]
  <2>1. g = [h EXCEPT !.blk = blk]
    BY DEF block_mark_as_free
  <2> HIDE DEF blk
  <2>2. IsHeap(g) /\ SameLists(g, h) /\ g.blk = blk
    BY <2>1 DEF IsHeap, SameLists
  <2> QED BY <2>2 DEF blk
<1>2. /\ g.blk \in [D -> Header]
      /\ \A c \in D : g.blk[c].size = h.blk[c].size
      /\ g.blk[b].free /\ \A c \in D \ {b} : g.blk[c].free = h.blk[c].free
      /\ g.blk[n].prevfree /\ g.blk[n].prev = b
      /\ \A c \in D \ {n} : g.blk[c].prevfree = h.blk[c].prevfree /\ g.blk[c].prev = h.blk[c].prev
  <2> DEFINE e == g.blk
             f == h.blk
  <2>1. b \in D /\ n \in D /\ b \in Int /\ b # n /\ f \in [D -> Header] /\ e = [f EXCEPT ![b].free = TRUE, ![n].prev = b, ![n].prevfree = TRUE]
    BY <1>1
  <2> HIDE DEF e, f, D
  <2>2. e[b] = [f[b] EXCEPT !.free = TRUE]
    BY <2>1
  <2>3. e[n] = [f[n] EXCEPT !.prev = b, !.prevfree = TRUE]
    BY <2>1
  <2>4. \A c \in D \ {b, n} : e[c] = f[c]
    BY <2>1
  <2>5. e = [c \in D |-> e[c]]
    BY <2>1
  <2>6. f[b] \in Header /\ f[n] \in Header
    BY <2>1
  <2>7. e[b] \in Header /\ e[n] \in Header
    BY <2>1, <2>2, <2>3, <2>6 DEF Header
  <2>8. \A c \in D : e[c] \in Header
    BY <2>1, <2>4, <2>7
  <2>9. e \in [D -> Header]
    BY <2>5, <2>8
  <2>10. /\ \A c \in D : e[c].size = f[c].size
         /\ e[b].free /\ \A c \in D \ {b} : e[c].free = f[c].free
         /\ e[n].prevfree /\ e[n].prev = b
         /\ \A c \in D \ {n} : e[c].prevfree = f[c].prevfree /\ e[c].prev = f[c].prev
    BY <2>1, <2>2, <2>3, <2>4, <2>6 DEF Header
  <2> QED BY <2>9, <2>10 DEF e, f
<1> QED BY <1>1, <1>2

(* A block in use becomes a free block in hand.                            *)
LEMMA MarkFree ==
  ASSUME NEW h, NEW S, HeapOK(h, S), NEW b \in Used(h)
  PROVE  LET g == block_mark_as_free(h, b)
         IN  /\ HeapOK(g, S \cup {b}) /\ DOMAIN g.blk = DOMAIN h.blk
             /\ \A c \in DOMAIN h.blk : g.blk[c].size = h.blk[c].size
             /\ Used(g) = Used(h) \ {b}
<1> DEFINE g == block_mark_as_free(h, b)
           n == block_next(h, b)
           D == DOMAIN h.blk
<1>1. /\ IsHeap(h) /\ Tiles(h) /\ Flags(h) /\ S \subseteq FreeBlocks(h) /\ Apart(h, S)
      /\ Listed(h, FreeBlocks(h) \ S)
  BY DEF HeapOK
<1>2. b \in D /\ b # LAST /\ ~h.blk[b].free
  BY DEF Used
<1>3. /\ n \in D /\ b \in Int /\ n \in Int /\ b < n /\ n # FirstBlock
      /\ b \in -1 .. LAST
  BY <1>1, <1>2, TilesFacts, PoolConstants
<1>4. h.blk \in [D -> Header]
  BY <1>1 DEF Tiles
<1>5. n = block_next(h, b)
  OBVIOUS
<1>6. g = block_mark_as_free(h, b)
  OBVIOUS
<1> HIDE DEF g, n
<1>7. /\ IsHeap(g) /\ SameLists(g, h)
      /\ g.blk \in [D -> Header]
      /\ \A c \in D : g.blk[c].size = h.blk[c].size
      /\ g.blk[b].free /\ \A c \in D \ {b} : g.blk[c].free = h.blk[c].free
      /\ g.blk[n].prevfree /\ g.blk[n].prev = b
      /\ \A c \in D \ {n} : g.blk[c].prevfree = h.blk[c].prevfree /\ g.blk[c].prev = h.blk[c].prev
  BY <1>1, <1>2, <1>3, <1>4, <1>5, <1>6, FreeFields
<1>8. /\ Tiles(g) /\ DOMAIN g.blk = D
      /\ \A c \in D : block_next(g, c) = block_next(h, c) /\ ListOf(g, c) = ListOf(h, c)
  BY <1>1, <1>7, SameSizes
<1>9. FreeBlocks(g) = FreeBlocks(h) \cup {b} /\ Used(g) = Used(h) \ {b}
  BY <1>2, <1>7, <1>8 DEF FreeBlocks, Used
<1>10. Flags(g)
  <2>1. ~g.blk[LAST].free /\ ~g.blk[FirstBlock].prevfree
    BY <1>1, <1>2, <1>3, <1>7 DEF Flags, Tiles
  <2>2. ASSUME NEW c \in D \ {LAST}
        PROVE  /\ g.blk[block_next(h, c)].prevfree = g.blk[c].free
               /\ g.blk[c].free => g.blk[block_next(h, c)].prev = c
    <3>1. CASE c = b
      BY <1>7, <3>1 DEF n
    <3>2. CASE c # b
      <4>1. block_next(h, c) \in D
        BY <1>1, TilesFacts
      <4>2. block_next(h, c) # n
        BY <1>1, <1>2, <3>2, NextOrder DEF n
      <4>3. /\ h.blk[block_next(h, c)].prevfree = h.blk[c].free
            /\ h.blk[c].free => h.blk[block_next(h, c)].prev = c
        BY <1>1 DEF Flags
      <4> QED BY <1>7, <3>2, <4>1, <4>2, <4>3
    <3> QED BY <3>1, <3>2
  <2> QED BY <1>8, <2>1, <2>2 DEF Flags
<1>11. Apart(g, S \cup {b})
  BY <1>1, <1>8, <1>9 DEF Apart, FreeBlocks
<1>12. FreeBlocks(g) \ (S \cup {b}) = FreeBlocks(h) \ S
  <2>1. b \notin FreeBlocks(h)
    BY <1>2 DEF FreeBlocks
  <2> QED BY <1>9, <2>1
<1>13. Listed(g, FreeBlocks(h) \ S)
  <2>1. \A c \in FreeBlocks(h) \ S : g.blk[c].size = h.blk[c].size
    BY <1>7 DEF FreeBlocks
  <2> DEFINE F == FreeBlocks(h) \ S
  <2>2. SameLists(g, h) /\ Listed(h, F) /\ \A c \in F : g.blk[c].size = h.blk[c].size
    BY <1>1, <1>7, <2>1
  <2> HIDE DEF F
  <2> QED BY <2>2, ListedSame DEF F
<1>14. HeapOK(g, S \cup {b})
  <2>1. S \cup {b} \subseteq FreeBlocks(g)
    BY <1>1, <1>9
  <2> QED BY <1>7, <1>8, <1>10, <1>11, <1>12, <1>13, <2>1 DEF HeapOK
<1> QED BY <1>7, <1>8, <1>9, <1>14 DEF g

(* What block_mark_as_used changes in the headers.                         *)
LEMMA UsedFields ==
  ASSUME NEW h, IsHeap(h), h.blk \in [DOMAIN h.blk -> Header], NEW b \in DOMAIN h.blk,
         NEW n, n = block_next(h, b), n \in DOMAIN h.blk, b \in Int, b # n, NEW g, g = block_mark_as_used(h, b)
  PROVE  /\ IsHeap(g) /\ SameLists(g, h)
         /\ g.blk \in [DOMAIN h.blk -> Header]
         /\ \A c \in DOMAIN h.blk : g.blk[c].size = h.blk[c].size
         /\ ~g.blk[b].free /\ \A c \in DOMAIN h.blk \ {b} : g.blk[c].free = h.blk[c].free
         /\ ~g.blk[n].prevfree
         /\ \A c \in DOMAIN h.blk \ {n} : g.blk[c].prevfree = h.blk[c].prevfree
         /\ \A c \in DOMAIN h.blk : g.blk[c].prev = h.blk[c].prev
<1> DEFINE D == DOMAIN h.blk
<1>1. IsHeap(g) /\ SameLists(g, h)
      /\ g.blk = [h.blk EXCEPT ![b].free = FALSE, ![n].prevfree = FALSE]
  <2> DEFINE blk == [h.blk EXCEPT ![b].free = FALSE, ![n].prevfree = FALSE]
  <2>1. g = [h EXCEPT !.blk = blk]
    BY DEF block_mark_as_used
  <2> HIDE DEF blk
  <2>2. IsHeap(g) /\ SameLists(g, h) /\ g.blk = blk
    BY <2>1 DEF IsHeap, SameLists
  <2> QED BY <2>2 DEF blk
<1>2. /\ g.blk \in [D -> Header]
      /\ \A c \in D : g.blk[c].size = h.blk[c].size
      /\ ~g.blk[b].free /\ \A c \in D \ {b} : g.blk[c].free = h.blk[c].free
      /\ ~g.blk[n].prevfree
      /\ \A c \in D \ {n} : g.blk[c].prevfree = h.blk[c].prevfree
      /\ \A c \in D : g.blk[c].prev = h.blk[c].prev
  <2> DEFINE e == g.blk
             f == h.blk
  <2>1. b \in D /\ n \in D /\ b \in Int /\ b # n /\ f \in [D -> Header] /\ e = [f EXCEPT ![b].free = FALSE, ![n].prevfree = FALSE]
    BY <1>1
  <2> HIDE DEF e, f, D
  <2>2. e[b] = [f[b] EXCEPT !.free = FALSE]
    BY <2>1
  <2>3. e[n] = [f[n] EXCEPT !.prevfree = FALSE]
    BY <2>1
  <2>4. \A c \in D \ {b, n} : e[c] = f[c]
    BY <2>1
  <2>5. e = [c \in D |-> e[c]]
    BY <2>1
  <2>6. f[b] \in Header /\ f[n] \in Header
    BY <2>1
  <2>7. e[b] \in Header /\ e[n] \in Header
    BY <2>1, <2>2, <2>3, <2>6 DEF Header
  <2>8. \A c \in D : e[c] \in Header
    BY <2>1, <2>4, <2>7
  <2>9. e \in [D -> Header]
    BY <2>5, <2>8
  <2>10. /\ \A c \in D : e[c].size = f[c].size
         /\ ~e[b].free /\ \A c \in D \ {b} : e[c].free = f[c].free
         /\ ~e[n].prevfree
         /\ \A c \in D \ {n} : e[c].prevfree = f[c].prevfree
         /\ \A c \in D : e[c].prev = f[c].prev
    BY <2>1, <2>2, <2>3, <2>4, <2>6 DEF Header
  <2> QED BY <2>9, <2>10 DEF e, f
<1> QED BY <1>1, <1>2

(* A block in hand becomes a block in use.                                 *)
LEMMA BecomesUsed ==
  ASSUME NEW h, NEW S, HeapOK(h, S), NEW b \in S
  PROVE  LET g == block_mark_as_used(h, b)
         IN  /\ HeapOK(g, S \ {b}) /\ DOMAIN g.blk = DOMAIN h.blk
             /\ \A c \in DOMAIN h.blk : g.blk[c].size = h.blk[c].size
             /\ Used(g) = Used(h) \cup {b}
<1> DEFINE g == block_mark_as_used(h, b)
           n == block_next(h, b)
           D == DOMAIN h.blk
<1>1. /\ IsHeap(h) /\ Tiles(h) /\ Flags(h) /\ S \subseteq FreeBlocks(h) /\ Apart(h, S)
      /\ Listed(h, FreeBlocks(h) \ S)
  BY DEF HeapOK
<1>2. b \in D /\ b # LAST /\ h.blk[b].free
  BY <1>1 DEF FreeBlocks, Flags
<1>3. /\ n \in D /\ b \in Int /\ n \in Int /\ b < n /\ n # FirstBlock
  BY <1>1, <1>2, TilesFacts, PoolConstants
<1>4. h.blk \in [D -> Header]
  BY <1>1 DEF Tiles
<1>5. n = block_next(h, b)
  OBVIOUS
<1>6. g = block_mark_as_used(h, b)
  OBVIOUS
<1> HIDE DEF g, n
<1>7. /\ IsHeap(g) /\ SameLists(g, h)
      /\ g.blk \in [D -> Header]
      /\ \A c \in D : g.blk[c].size = h.blk[c].size
      /\ ~g.blk[b].free /\ \A c \in D \ {b} : g.blk[c].free = h.blk[c].free
      /\ ~g.blk[n].prevfree
      /\ \A c \in D \ {n} : g.blk[c].prevfree = h.blk[c].prevfree
      /\ \A c \in D : g.blk[c].prev = h.blk[c].prev
  BY <1>1, <1>2, <1>3, <1>4, <1>5, <1>6, UsedFields
<1>8. /\ Tiles(g) /\ DOMAIN g.blk = D
      /\ \A c \in D : block_next(g, c) = block_next(h, c) /\ ListOf(g, c) = ListOf(h, c)
  BY <1>1, <1>7, SameSizes
<1>9. FreeBlocks(g) = FreeBlocks(h) \ {b} /\ Used(g) = Used(h) \cup {b}
  BY <1>2, <1>7, <1>8 DEF FreeBlocks, Used
<1>10. Flags(g)
  <2>1. ~g.blk[LAST].free /\ ~g.blk[FirstBlock].prevfree
    BY <1>1, <1>2, <1>3, <1>7 DEF Flags, Tiles
  <2>2. ASSUME NEW c \in D \ {LAST}
        PROVE  /\ g.blk[block_next(h, c)].prevfree = g.blk[c].free
               /\ g.blk[c].free => g.blk[block_next(h, c)].prev = c
    <3>1. CASE c = b
      <4>1. g.blk[n].prevfree = FALSE /\ g.blk[b].free = FALSE
        BY <1>2, <1>3, <1>7 DEF Header
      <4> QED BY <4>1, <3>1 DEF n
    <3>2. CASE c # b
      <4>1. block_next(h, c) \in D
        BY <1>1, TilesFacts
      <4>2. block_next(h, c) # n
        BY <1>1, <1>2, <3>2, NextOrder DEF n
      <4>3. /\ h.blk[block_next(h, c)].prevfree = h.blk[c].free
            /\ h.blk[c].free => h.blk[block_next(h, c)].prev = c
        BY <1>1 DEF Flags
      <4> QED BY <1>7, <3>2, <4>1, <4>2, <4>3
    <3> QED BY <3>1, <3>2
  <2> QED BY <1>8, <2>1, <2>2 DEF Flags
<1>11. Apart(g, S \ {b})
  BY <1>1, <1>8, <1>9 DEF Apart, FreeBlocks
<1>12. FreeBlocks(g) \ (S \ {b}) = FreeBlocks(h) \ S
  BY <1>9
<1>13. Listed(g, FreeBlocks(h) \ S)
  <2>1. \A c \in FreeBlocks(h) \ S : g.blk[c].size = h.blk[c].size
    BY <1>7 DEF FreeBlocks
  <2> DEFINE F == FreeBlocks(h) \ S
  <2>2. SameLists(g, h) /\ Listed(h, F) /\ \A c \in F : g.blk[c].size = h.blk[c].size
    BY <1>1, <1>7, <2>1
  <2> HIDE DEF F
  <2> QED BY <2>2, ListedSame DEF F
<1>14. HeapOK(g, S \ {b})
  <2>1. S \ {b} \subseteq FreeBlocks(g)
    BY <1>1, <1>9
  <2> QED BY <1>7, <1>8, <1>10, <1>11, <1>12, <1>13, <2>1 DEF HeapOK
<1> QED BY <1>7, <1>8, <1>9, <1>14 DEF g

(* A block can be cut into size words and a block at r; what its headers   *)
(* look like then but for the flag of the new block.                       *)
CanCut(h, b, size, r) == size \in Int /\ 3 <= size /\ size + 4 <= h.blk[b].size /\ r = b + 1 + size
IsCut(g, h, b, size, r) ==
  /\ IsHeap(g) /\ SameLists(g, h) /\ g.blk \in [DOMAIN h.blk \cup {r} -> Header]
  /\ g.blk[b].size = size /\ g.blk[r].size = h.blk[b].size - (size + 1)
  /\ \A c \in DOMAIN h.blk \ {b} : g.blk[c].size = h.blk[c].size
  /\ g.blk[r].free /\ \A c \in DOMAIN h.blk : g.blk[c].free = h.blk[c].free
  /\ g.blk[block_next(h, b)].prevfree /\ g.blk[block_next(h, b)].prev = r
  /\ \A c \in DOMAIN h.blk \ {block_next(h, b)} : /\ g.blk[c].prevfree = h.blk[c].prevfree
                                                 /\ g.blk[c].prev = h.blk[c].prev
(* A block is joined to the one in front of it.                            *)
IsJoin(g, h, p, b) ==
  /\ IsHeap(g) /\ SameLists(g, h) /\ g.blk \in [DOMAIN h.blk \ {b} -> Header]
  /\ g.blk[p].size = h.blk[p].size + h.blk[b].size + 1
  /\ \A c \in DOMAIN h.blk \ {b, p} : g.blk[c].size = h.blk[c].size
  /\ \A c \in DOMAIN h.blk \ {b} : g.blk[c].free = h.blk[c].free
  /\ \A c \in DOMAIN h.blk \ {b, block_next(h, b)} : /\ g.blk[c].prevfree = h.blk[c].prevfree
                                                    /\ g.blk[c].prev = h.blk[c].prev

(* A block in hand or in use is cut: the new block is in hand.             *)
LEMMA Split ==
  ASSUME NEW h, NEW S, HeapOK(h, S), NEW b \in S \cup Used(h), NEW size, NEW r, CanCut(h, b, size, r),
         NEW g, IsCut(g, h, b, size, r),
         g.blk[r].prevfree = h.blk[b].free, h.blk[b].free => g.blk[r].prev = b
  PROVE  /\ HeapOK(g, S \cup {r}) /\ Used(g) = Used(h) /\ FreeBlocks(g) = FreeBlocks(h) \cup {r}
         /\ r \notin DOMAIN h.blk /\ block_next(g, b) = r /\ block_next(g, r) = block_next(h, b)
<1> DEFINE n == block_next(h, b)
<1>0. /\ n = block_next(h, b) /\ size \in Int /\ 3 <= size /\ size + 4 <= h.blk[b].size /\ r = b + 1 + size
      /\ IsHeap(g) /\ SameLists(g, h) /\ g.blk \in [DOMAIN h.blk \cup {r} -> Header]
      /\ g.blk[b].size = size /\ g.blk[r].size = h.blk[b].size - (size + 1)
      /\ \A c \in DOMAIN h.blk \ {b} : g.blk[c].size = h.blk[c].size
      /\ g.blk[r].free /\ \A c \in DOMAIN h.blk : g.blk[c].free = h.blk[c].free
      /\ g.blk[n].prevfree /\ g.blk[n].prev = r
      /\ \A c \in DOMAIN h.blk \ {n} : /\ g.blk[c].prevfree = h.blk[c].prevfree
                                     /\ g.blk[c].prev = h.blk[c].prev
  BY DEF CanCut, IsCut
<1> HIDE DEF n
<1> USE <1>0
<1> DEFINE D == DOMAIN h.blk
<1>1. /\ IsHeap(h) /\ Tiles(h) /\ Flags(h) /\ S \subseteq FreeBlocks(h) /\ Apart(h, S)
      /\ Listed(h, FreeBlocks(h) \ S)
  BY DEF HeapOK
<1>2. b \in D /\ b # LAST
  BY <1>1 DEF FreeBlocks, Flags, Used
<1>3. /\ n \in D /\ b \in Int /\ n \in Int /\ n # FirstBlock /\ b \in -1 .. LAST
      /\ h.blk[b].size \in Nat /\ n = b + 1 + h.blk[b].size /\ n <= LAST
  BY <1>1, <1>2, TilesFacts, PoolConstants
<1>4. r \in Int /\ b < r /\ r < n /\ r \in FirstBlock .. LAST
  BY <1>3, PoolConstants
<1>5. \A c \in D : c \in Int /\ (b < c => n <= c)
  BY <1>1, <1>2, TilesFacts, NextOrder
<1>6. r \notin D /\ DOMAIN g.blk = D \cup {r} /\ r # LAST /\ r # b /\ r # n /\ b # n /\ r # FirstBlock
  BY <1>3, <1>4, <1>5, PoolConstants
<1>7. /\ block_next(g, b) = r /\ block_next(g, r) = n
      /\ \A c \in D \ {b} : block_next(g, c) = block_next(h, c)
  <2>1. block_next(g, b) = r
    BY <1>3 DEF block_next, START, OVERHEAD
  <2>2. block_next(g, r) = r + 2 + (h.blk[b].size - (size + 1)) - 1
    BY DEF block_next, START, OVERHEAD
  <2>3. \A c \in D \ {b} : block_next(g, c) = block_next(h, c)
    BY DEF block_next
  <2> QED BY <1>3, <2>1, <2>2, <2>3
<1>8. Tiles(g)
  <2>1. /\ g.blk \in [DOMAIN g.blk -> Header] /\ DOMAIN g.blk \subseteq FirstBlock .. LAST
        /\ FirstBlock \in DOMAIN g.blk /\ LAST \in DOMAIN g.blk /\ g.blk[LAST].size = 0
    BY <1>1, <1>2, <1>4, <1>6 DEF Tiles
  <2>2. ASSUME NEW c \in (D \cup {r}) \ {LAST}
        PROVE  /\ g.blk[c].size >= MIN_SIZE /\ block_next(g, c) \in D \cup {r}
               /\ \A d \in D \cup {r} : c < d => block_next(g, c) <= d
    <3>1. CASE c = b
      <4>1. g.blk[c].size >= MIN_SIZE
        BY <3>1 DEF MIN_SIZE
      <4>2. \A d \in D \cup {r} : c < d => r <= d
        BY <1>3, <1>4, <1>5, <3>1
      <4> QED BY <1>7, <3>1, <4>1, <4>2
    <3>2. CASE c = r
      <4>1. g.blk[c].size >= MIN_SIZE
        BY <1>3, <3>2 DEF MIN_SIZE
      <4>2. \A d \in D \cup {r} : c < d => n <= d
        BY <1>3, <1>4, <1>5, <3>2
      <4> QED BY <1>3, <1>7, <3>2, <4>1, <4>2
    <3>3. CASE c \in D \ {b}
      <4>1. /\ h.blk[c].size >= MIN_SIZE /\ block_next(h, c) \in D
            /\ \A d \in D : c < d => block_next(h, c) <= d
        BY <1>1, <2>2, <3>3 DEF Tiles
      <4>2. c < r => block_next(h, c) <= r
        <5> SUFFICES ASSUME c < r PROVE block_next(h, c) <= r
          OBVIOUS
        <5>1. c < b
          BY <1>3, <1>4, <1>5, <3>3
        <5>2. block_next(h, c) <= b /\ block_next(h, c) \in Int
          BY <1>2, <1>5, <4>1, <5>1
        <5> QED BY <1>3, <1>4, <5>2
      <4> QED BY <1>7, <3>3, <4>1, <4>2
    <3> QED BY <2>2, <3>1, <3>2, <3>3
  <2>3. ASSUME NEW c \in (D \cup {r}) \ {FirstBlock}
        PROVE  \E a \in (D \cup {r}) \ {LAST} : block_next(g, a) = c
    <3>1. CASE c = r
      BY <1>2, <1>7, <3>1
    <3>2. CASE c = n
      BY <1>6, <1>7, <3>2
    <3>3. CASE c \in D \ {n}
      <4>1. PICK a \in D \ {LAST} : block_next(h, a) = c
        BY <1>1, <2>3, <3>3 DEF Tiles
      <4> QED BY <1>7, <3>3, <4>1
    <3> QED BY <2>3, <3>1, <3>2, <3>3
  <2> QED BY <1>6, <2>1, <2>2, <2>3 DEF Tiles
<1>9. FreeBlocks(g) = FreeBlocks(h) \cup {r} /\ Used(g) = Used(h)
  BY <1>6 DEF FreeBlocks, Used
<1>10. Flags(g)
  <2>1. ~g.blk[LAST].free /\ ~g.blk[FirstBlock].prevfree
    BY <1>1, <1>3 DEF Flags, Tiles
  <2>2. ASSUME NEW c \in (D \cup {r}) \ {LAST}
        PROVE  /\ g.blk[block_next(g, c)].prevfree = g.blk[c].free
               /\ g.blk[c].free => g.blk[block_next(g, c)].prev = c
    <3>1. CASE c = b
      BY <1>2, <1>7, <3>1
    <3>2. CASE c = r
      <4>1. g.blk[n].prevfree = TRUE /\ g.blk[r].free = TRUE
        BY <1>3, <1>6 DEF Header
      <4> QED BY <1>7, <3>2, <4>1
    <3>3. CASE c \in D \ {b}
      <4>1. block_next(h, c) \in D /\ block_next(h, c) # n
        BY <1>1, <1>2, <2>2, <3>3, NextOrder, TilesFacts
      <4>2. /\ h.blk[block_next(h, c)].prevfree = h.blk[c].free
            /\ h.blk[c].free => h.blk[block_next(h, c)].prev = c
        BY <1>1, <2>2, <3>3 DEF Flags
      <4> QED BY <1>7, <3>3, <4>1, <4>2
    <3> QED BY <2>2, <3>1, <3>2, <3>3
  <2> QED BY <1>6, <2>1, <2>2 DEF Flags
<1>11. \A c \in FreeBlocks(h) \ S : c \in D \ {b}
  BY DEF FreeBlocks, Used
<1>12. Apart(g, S \cup {r})
  BY <1>1, <1>7, <1>9, <1>11 DEF Apart
<1>13. FreeBlocks(g) \ (S \cup {r}) = FreeBlocks(h) \ S
  <2>1. r \notin FreeBlocks(h)
    BY <1>6 DEF FreeBlocks
  <2> QED BY <1>9, <2>1
<1>14. Listed(g, FreeBlocks(h) \ S)
  <2> DEFINE F == FreeBlocks(h) \ S
  <2>1. SameLists(g, h) /\ Listed(h, F) /\ \A c \in F : g.blk[c].size = h.blk[c].size
    BY <1>1, <1>11
  <2> HIDE DEF F
  <2> QED BY <2>1, ListedSame DEF F
<1>15. S \cup {r} \subseteq FreeBlocks(g)
  BY <1>1, <1>9
<1>16. HeapOK(g, S \cup {r})
  BY <1>8, <1>10, <1>12, <1>13, <1>14, <1>15 DEF HeapOK
<1> QED BY <1>6, <1>7, <1>9, <1>16

(* A block in hand joins the block in front of it, which is in hand or in  *)
(* use.                                                                    *)
LEMMA Absorb ==
  ASSUME NEW h, NEW S, HeapOK(h, S), NEW p \in S \cup Used(h), NEW b \in S, block_next(h, p) = b,
         NEW n, block_next(h, b) = n, NEW g, IsJoin(g, h, p, b),
         g.blk[n].prevfree = h.blk[p].free, h.blk[p].free => g.blk[n].prev = p
  PROVE  /\ HeapOK(g, S \ {b}) /\ Used(g) = Used(h) /\ FreeBlocks(g) = FreeBlocks(h) \ {b}
         /\ block_next(g, p) = n /\ p # b
         /\ \A c \in DOMAIN h.blk \ {b, p} : block_next(g, c) = block_next(h, c)
<1>0. /\ IsHeap(g) /\ SameLists(g, h) /\ g.blk \in [DOMAIN h.blk \ {b} -> Header]
      /\ g.blk[p].size = h.blk[p].size + h.blk[b].size + 1
      /\ \A c \in DOMAIN h.blk \ {b, p} : g.blk[c].size = h.blk[c].size
      /\ \A c \in DOMAIN h.blk \ {b} : g.blk[c].free = h.blk[c].free
      /\ \A c \in DOMAIN h.blk \ {b, n} : /\ g.blk[c].prevfree = h.blk[c].prevfree
                                        /\ g.blk[c].prev = h.blk[c].prev
  BY DEF IsJoin
<1> USE <1>0
<1> DEFINE D == DOMAIN h.blk
           E == D \ {b}
           sp == h.blk[p].size
           sb == h.blk[b].size
<1>1. /\ IsHeap(h) /\ Tiles(h) /\ Flags(h) /\ S \subseteq FreeBlocks(h) /\ Apart(h, S)
      /\ Listed(h, FreeBlocks(h) \ S)
  BY DEF HeapOK
<1>2. b \in D /\ b # LAST /\ h.blk[b].free /\ p \in D /\ p # LAST
  BY <1>1 DEF FreeBlocks, Flags, Used
<1>3. /\ p \in Int /\ b \in Int /\ n \in Int /\ p < b /\ b < n /\ n \in D /\ n <= LAST
      /\ p \in -1 .. LAST
      /\ sb \in Nat /\ n = b + 1 + sb /\ sp \in Nat /\ b = p + 1 + sp /\ sp >= 3
      /\ g.blk[p].size = sp + sb + 1
  BY <1>1, <1>2, TilesFacts, PoolConstants
<1> HIDE DEF sp, sb
<1>4. p # b /\ n # b /\ n # p /\ n # FirstBlock /\ b # FirstBlock /\ p \in E /\ n \in E /\ DOMAIN g.blk = E
  <2>1. p # b /\ n # b /\ n # p /\ n # FirstBlock /\ b # FirstBlock
    BY <1>3, PoolConstants
  <2> QED BY <1>2, <1>3, <2>1
<1>5. \A c \in D : c \in Int /\ (p < c => b <= c) /\ (b < c => n <= c)
  BY <1>1, <1>2, TilesFacts, NextOrder
<1>6. /\ block_next(g, p) = n
      /\ \A c \in E \ {p} : block_next(g, c) = block_next(h, c)
      /\ \A c \in E \ {p} : c # LAST => block_next(h, c) \in E \ {n}
  <2>1. block_next(g, p) = p + 2 + (sp + sb + 1) - 1
    BY <1>3 DEF block_next, START, OVERHEAD
  <2>2. \A c \in E \ {p} : block_next(g, c) = block_next(h, c)
    BY DEF block_next
  <2>3. ASSUME NEW c \in E \ {p}, c # LAST PROVE block_next(h, c) \in E \ {n}
    BY <1>1, <1>2, <2>3, NextOrder, TilesFacts
  <2>4. block_next(g, p) = n
    BY <1>3, <2>1
  <2> QED BY <2>2, <2>3, <2>4
<1>7. Tiles(g)
  <2>1. /\ g.blk \in [DOMAIN g.blk -> Header] /\ DOMAIN g.blk \subseteq FirstBlock .. LAST
        /\ FirstBlock \in DOMAIN g.blk /\ LAST \in DOMAIN g.blk /\ g.blk[LAST].size = 0
    BY <1>1, <1>2, <1>4 DEF Tiles
  <2>2. ASSUME NEW c \in E \ {LAST}
        PROVE  /\ g.blk[c].size >= MIN_SIZE /\ block_next(g, c) \in E
               /\ \A d \in E : c < d => block_next(g, c) <= d
    <3>1. CASE c = p
      <4>1. g.blk[p].size >= MIN_SIZE
        BY <1>3 DEF MIN_SIZE
      <4>2. \A d \in E : p < d => n <= d
        BY <1>3, <1>5
      <4>3. block_next(g, p) = n /\ n \in E
        BY <1>4, <1>6
      <4> QED BY ONLY <3>1, <4>1, <4>2, <4>3
    <3>2. CASE c # p
      <4>1. /\ h.blk[c].size >= MIN_SIZE
            /\ \A d \in D : c < d => block_next(h, c) <= d
        BY <1>1, <2>2, <3>2 DEF Tiles
      <4>2. block_next(g, c) = block_next(h, c) /\ block_next(h, c) \in E /\ g.blk[c].size = h.blk[c].size
        BY <1>6, <2>2, <3>2
      <4>3. \A d \in E : d \in D
        OBVIOUS
      <4> HIDE DEF D, E
      <4> QED BY ONLY <4>1, <4>2, <4>3
    <3> QED BY <3>1, <3>2
  <2>3. ASSUME NEW c \in E \ {FirstBlock}
        PROVE  \E a \in E \ {LAST} : block_next(g, a) = c
    <3>1. CASE c = n
      BY <1>2, <1>4, <1>6, <3>1
    <3>2. CASE c # n
      <4>1. PICK a \in D \ {LAST} : block_next(h, a) = c
        BY <1>1, <2>3, <3>2 DEF Tiles
      <4>2. a # p /\ a # b
        BY <2>3, <3>2, <4>1
      <4> QED BY <1>6, <4>1, <4>2
    <3> QED BY <3>1, <3>2
  <2> QED BY <1>4, <2>1, <2>2, <2>3 DEF Tiles
<1>8. FreeBlocks(g) = FreeBlocks(h) \ {b} /\ Used(g) = Used(h)
  BY <1>2, <1>4 DEF FreeBlocks, Used
<1>9. Flags(g)
  <2>1. ~g.blk[LAST].free /\ ~g.blk[FirstBlock].prevfree
    BY <1>1, <1>2, <1>4 DEF Flags, Tiles
  <2>2. ASSUME NEW c \in E \ {LAST}
        PROVE  /\ g.blk[block_next(g, c)].prevfree = g.blk[c].free
               /\ g.blk[c].free => g.blk[block_next(g, c)].prev = c
    <3>1. CASE c = p
      BY <1>2, <1>4, <1>6, <3>1
    <3>2. CASE c # p
      <4>1. block_next(h, c) \in E \ {n} /\ block_next(g, c) = block_next(h, c)
        BY <1>6, <2>2, <3>2
      <4>2. /\ h.blk[block_next(h, c)].prevfree = h.blk[c].free
            /\ h.blk[c].free => h.blk[block_next(h, c)].prev = c
        BY <1>1, <2>2, <3>2 DEF Flags
      <4> QED BY <4>1, <4>2
    <3> QED BY <3>1, <3>2
  <2> QED BY <1>4, <2>1, <2>2 DEF Flags
<1>10. \A c \in FreeBlocks(h) \ S : c \in E \ {p} /\ c # LAST
  BY <1>1 DEF FreeBlocks, Used, Flags
<1>11. Apart(g, S \ {b})
  <2> SUFFICES ASSUME NEW c \in FreeBlocks(g) \ (S \ {b}), block_next(g, c) \in FreeBlocks(g)
               PROVE  block_next(g, c) \in S \ {b}
    BY DEF Apart
  <2>1. c \in FreeBlocks(h) \ S
    BY <1>8
  <2>2. block_next(g, c) = block_next(h, c)
    BY <1>6, <1>10, <2>1
  <2> QED BY <1>1, <1>8, <2>1, <2>2 DEF Apart
<1>12. FreeBlocks(g) \ (S \ {b}) = FreeBlocks(h) \ S
  BY <1>8
<1>13. Listed(g, FreeBlocks(h) \ S)
  <2> DEFINE F == FreeBlocks(h) \ S
  <2>1. SameLists(g, h) /\ Listed(h, F) /\ \A c \in F : g.blk[c].size = h.blk[c].size
    BY <1>1, <1>10
  <2> HIDE DEF F
  <2> QED BY <2>1, ListedSame DEF F
<1>14. S \ {b} \subseteq FreeBlocks(g)
  BY <1>1, <1>8
<1>15. HeapOK(g, S \ {b})
  BY <1>7, <1>9, <1>11, <1>12, <1>13, <1>14 DEF HeapOK
<1> QED BY <1>4, <1>6, <1>8, <1>15

--------------------------------------------------------------------------------
(* Cutting and joining blocks.                                             *)
LEMMA SplitFields ==
  ASSUME NEW h, IsHeap(h), Tiles(h), NEW b \in DOMAIN h.blk \ {LAST}, NEW size, NEW r, CanCut(h, b, size, r)
  PROVE  LET g == block_split(h, b, size)
         IN  IsCut(g, h, b, size, r) /\ g.blk[r].prevfree = FALSE /\ Rest(b, size) = r /\ r \notin DOMAIN h.blk
<1> DEFINE D   == DOMAIN h.blk
           m   == h.blk[b].size
           new == [size |-> m - (size + OVERHEAD), free |-> TRUE, prevfree |-> FALSE, prev |-> Null]
           F   == [x \in D \cup {r} |-> IF x = b THEN [h.blk[b] EXCEPT !.size = size]
                                        ELSE IF x = r THEN new ELSE h.blk[x]]
           cut == [h EXCEPT !.blk = F]
           n   == block_next(h, b)
           g   == block_split(h, b, size)
<1>0. /\ size \in Int /\ 3 <= size /\ size + 4 <= m /\ r = b + 1 + size
      /\ n = block_next(h, b) /\ g = block_split(h, b, size)
  BY DEF CanCut
<1> USE <1>0
<1> HIDE DEF n, g
<1>1. /\ b \in D /\ b \in Int /\ h.blk \in [D -> Header] /\ m \in Nat
      /\ n \in D /\ n \in Int /\ n = b + 1 + m
  BY TilesFacts DEF Tiles
<1> HIDE DEF m
<1>2. r \in Int /\ b < r /\ r < n /\ b # r /\ n # r /\ b # n
  BY <1>1 DEF m
<1>3. r \notin D
  <2> SUFFICES ASSUME r \in D PROVE FALSE
    OBVIOUS
  <2>1. n <= r
    BY <1>2, NextOrder
  <2> QED BY <1>1, <1>2, <2>1
<1>4. Rest(b, size) = r
  BY <1>1 DEF Rest, START, OVERHEAD
<1>5. g = block_mark_as_free(cut, r)
  BY <1>4, Zenon DEF block_split, m
<1> HIDE DEF cut
<1>6. IsHeap(cut) /\ cut.blk = F /\ SameLists(cut, h)
  <2> HIDE DEF F
  <2> QED BY DEF cut, IsHeap, SameLists
<1>7. new \in Header /\ new.size = m - (size + 1) /\ new.free = TRUE /\ new.prevfree = FALSE
  <2>1. m - (size + OVERHEAD) \in Nat /\ m - (size + OVERHEAD) = m - (size + 1)
    BY <1>1 DEF m, OVERHEAD
  <2>2. Null \in Int
    BY DEF Null
  <2> QED BY <2>1, <2>2 DEF Header
<1> HIDE DEF new
<1>8. /\ F \in [D \cup {r} -> Header] /\ F[r] = new /\ F[b] = [h.blk[b] EXCEPT !.size = size]
      /\ \A c \in D \ {b} : F[c] = h.blk[c]
  <2>1. [h.blk[b] EXCEPT !.size = size] \in Header
    BY <1>1 DEF Header
  <2> QED BY <1>1, <1>2, <1>3, <1>7, <2>1
<1> HIDE DEF F
<1>9. /\ F[b].size = size /\ F[b].free = h.blk[b].free /\ F[b].prevfree = h.blk[b].prevfree
      /\ F[b].prev = h.blk[b].prev
  BY <1>1, <1>8 DEF Header
<1>10. /\ cut.blk \in [DOMAIN cut.blk -> Header] /\ r \in DOMAIN cut.blk /\ DOMAIN cut.blk = D \cup {r}
       /\ block_next(cut, r) = n
  <2>1. block_next(cut, r) = r + 2 + (m - (size + 1)) - 1
    BY <1>6, <1>7, <1>8 DEF block_next, START, OVERHEAD
  <2>2. block_next(cut, r) = n
    BY <1>1, <2>1
  <2> QED BY <1>6, <1>8, <2>2
<1>11. /\ IsHeap(g) /\ SameLists(g, cut)
       /\ g.blk \in [D \cup {r} -> Header]
       /\ \A c \in D \cup {r} : g.blk[c].size = F[c].size
       /\ g.blk[r].free /\ \A c \in (D \cup {r}) \ {r} : g.blk[c].free = F[c].free
       /\ g.blk[n].prevfree /\ g.blk[n].prev = r
       /\ \A c \in (D \cup {r}) \ {n} : g.blk[c].prevfree = F[c].prevfree /\ g.blk[c].prev = F[c].prev
  <2>1. n \in DOMAIN cut.blk /\ n = block_next(cut, r) /\ r # n
    BY <1>1, <1>2, <1>10
  <2> QED BY <1>2, <1>5, <1>6, <1>10, <2>1, FreeFields
<1>12. SameLists(g, h)
  BY <1>6, <1>11 DEF SameLists
<1>13. /\ g.blk[b].size = size /\ g.blk[r].size = h.blk[b].size - (size + 1)
       /\ \A c \in D \ {b} : g.blk[c].size = h.blk[c].size
       /\ g.blk[r].free /\ \A c \in D : g.blk[c].free = h.blk[c].free
       /\ g.blk[n].prevfree /\ g.blk[n].prev = r
       /\ \A c \in D \ {n} : /\ g.blk[c].prevfree = h.blk[c].prevfree
                            /\ g.blk[c].prev = h.blk[c].prev
       /\ g.blk[r].prevfree = FALSE
  <2>1. g.blk[b].size = size /\ g.blk[r].size = h.blk[b].size - (size + 1) /\ g.blk[r].prevfree = FALSE
    BY <1>1, <1>2, <1>7, <1>8, <1>9, <1>11 DEF m
  <2>2. \A c \in D : c # r /\ (c # b => F[c] = h.blk[c])
    BY <1>3, <1>8
  <2>3. ASSUME NEW c \in D
        PROVE  /\ c # b => g.blk[c].size = h.blk[c].size
               /\ g.blk[c].free = h.blk[c].free
               /\ c # n => g.blk[c].prevfree = h.blk[c].prevfree /\ g.blk[c].prev = h.blk[c].prev
    BY <1>9, <1>11, <2>2
  <2> QED BY <1>11, <2>1, <2>3
<1>14. IsCut(g, h, b, size, r)
  BY <1>11, <1>12, <1>13 DEF IsCut
<1> QED BY <1>3, <1>4, <1>13, <1>14

(* block_trim_free and block_trim_free_leading link the block they cut     *)
(* off a free one to it.                                                   *)
LinkedTo(s, r, b) == [s EXCEPT !.blk[r] = [@ EXCEPT !.prev = b, !.prevfree = TRUE]]

(* block_split of a block in hand, the new block linked to it.             *)
LEMMA SplitFree ==
  ASSUME NEW h, NEW S, HeapOK(h, S), NEW b \in S,
         NEW size, NEW r, CanCut(h, b, size, r)
  PROVE  LET g == LinkedTo(block_split(h, b, size), r, b) IN
         /\ HeapOK(g, S \cup {r}) /\ Used(g) = Used(h) /\ FreeBlocks(g) = FreeBlocks(h) \cup {r}
         /\ Rest(b, size) = r /\ r \notin DOMAIN h.blk
         /\ block_next(g, b) = r /\ block_next(g, r) = block_next(h, b)
         /\ DOMAIN g.blk = DOMAIN h.blk \cup {r}
         /\ g.blk[b].size = size /\ g.blk[r].size = h.blk[b].size - (size + 1)
         /\ \A c \in DOMAIN h.blk \ {b} : g.blk[c].size = h.blk[c].size
<1> DEFINE D == DOMAIN h.blk
           n == block_next(h, b)
           s == block_split(h, b, size)
           g == LinkedTo(s, r, b)
<1>1. IsHeap(h) /\ Tiles(h) /\ b \in D \ {LAST} /\ h.blk[b].free = TRUE
  <2>1. Tiles(h) /\ b \in D /\ b # LAST /\ h.blk[b].free
    BY DEF HeapOK, FreeBlocks, Flags
  <2>2. h.blk[b].free \in BOOLEAN
    BY <2>1, TilesFacts
  <2> QED BY <2>1, <2>2 DEF HeapOK
<1>2. IsCut(s, h, b, size, r) /\ s.blk[r].prevfree = FALSE /\ Rest(b, size) = r /\ r \notin D
  BY <1>1, SplitFields
<1>3. b \in Int /\ b # r
  BY <1>1, <1>2, TilesFacts
<1> DEFINE f == s.blk
           e == [f EXCEPT ![r] = [@ EXCEPT !.prev = b, !.prevfree = TRUE]]
<1>4. IsHeap(g) /\ SameLists(g, h) /\ g.blk = e
  <2>1. g = [s EXCEPT !.blk = e]
    BY DEF LinkedTo
  <2> HIDE DEF e, s, g
  <2> QED BY <1>2, <2>1 DEF IsCut, IsHeap, SameLists
<1> HIDE DEF f, g, s
<1>5. f \in [D \cup {r} -> Header] /\ r \in D \cup {r}
  BY <1>2 DEF f, IsCut
<1>6. /\ e = [c \in D \cup {r} |-> e[c]] /\ \A c \in D : e[c] = f[c]
      /\ e[r] = [f[r] EXCEPT !.prev = b, !.prevfree = TRUE]
  BY <1>2, <1>5
<1> HIDE DEF e
<1>7. e[r] \in Header /\ e[r].prev = b /\ e[r].prevfree = TRUE /\ e[r].size = f[r].size /\ e[r].free = f[r].free
  <2>1. f[r] \in Header
    BY <1>5
  <2> QED BY <1>3, <1>6, <2>1 DEF Header
<1>8. e \in [D \cup {r} -> Header]
  BY <1>5, <1>6, <1>7
<1>9. IsCut(g, h, b, size, r) /\ g.blk[r].prevfree = TRUE /\ g.blk[r].prev = b
  <2>1. n \in D
    BY <1>1, TilesFacts
  <2>2. /\ f[b].size = size /\ f[r].size = h.blk[b].size - (size + 1)
        /\ \A c \in D \ {b} : f[c].size = h.blk[c].size
        /\ f[r].free /\ \A c \in D : f[c].free = h.blk[c].free
        /\ f[n].prevfree /\ f[n].prev = r
        /\ \A c \in D \ {n} : f[c].prevfree = h.blk[c].prevfree /\ f[c].prev = h.blk[c].prev
    BY <1>2 DEF f, IsCut
  <2>3. /\ e[b].size = size /\ e[r].size = h.blk[b].size - (size + 1)
        /\ \A c \in D \ {b} : e[c].size = h.blk[c].size
        /\ e[r].free /\ \A c \in D : e[c].free = h.blk[c].free
        /\ e[n].prevfree /\ e[n].prev = r
        /\ \A c \in D \ {n} : e[c].prevfree = h.blk[c].prevfree /\ e[c].prev = h.blk[c].prev
    <3>1. e[b].size = size /\ e[r].size = h.blk[b].size - (size + 1) /\ e[r].free
      BY <1>1, <1>6, <1>7, <2>2
    <3>2. e[n].prevfree /\ e[n].prev = r
      BY <1>6, <2>1, <2>2
    <3> HIDE DEF D
    <3> QED BY <1>6, <2>2, <3>1, <3>2, Zenon
  <2> QED BY <1>4, <1>7, <1>8, <2>3 DEF IsCut
<1>10. /\ HeapOK(g, S \cup {r}) /\ Used(g) = Used(h) /\ FreeBlocks(g) = FreeBlocks(h) \cup {r}
       /\ block_next(g, b) = r /\ block_next(g, r) = n
  <2>1. b \in S \cup Used(h) /\ g.blk[r].prevfree = h.blk[b].free /\ (h.blk[b].free => g.blk[r].prev = b)
    BY <1>1, <1>9
  <2> HIDE DEF n
  <2>2. n = block_next(h, b)
    BY DEF n
  <2> QED BY <1>9, <2>1, <2>2, Split
<1> QED BY <1>2, <1>9, <1>10 DEF IsCut, g, s

(* block_split of a block in use.                                          *)
LEMMA SplitUsed ==
  ASSUME NEW h, NEW S, HeapOK(h, S), NEW b \in Used(h),
         NEW size, NEW r, CanCut(h, b, size, r), NEW g, g = block_split(h, b, size)
  PROVE  /\ HeapOK(g, S \cup {r}) /\ Used(g) = Used(h) /\ FreeBlocks(g) = FreeBlocks(h) \cup {r}
         /\ Rest(b, size) = r /\ r \notin DOMAIN h.blk
         /\ block_next(g, b) = r /\ block_next(g, r) = block_next(h, b)
         /\ DOMAIN g.blk = DOMAIN h.blk \cup {r}
         /\ g.blk[b].size = size /\ g.blk[r].size = h.blk[b].size - (size + 1)
         /\ \A c \in DOMAIN h.blk \ {b} : g.blk[c].size = h.blk[c].size
<1> DEFINE D == DOMAIN h.blk
           n == block_next(h, b)
<1>1. IsHeap(h) /\ Tiles(h) /\ b \in D \ {LAST} /\ h.blk[b].free = FALSE
  <2>1. Tiles(h) /\ b \in D /\ b # LAST /\ ~h.blk[b].free
    BY DEF HeapOK, Used
  <2>2. h.blk[b].free \in BOOLEAN
    BY <2>1, TilesFacts
  <2> QED BY <2>1, <2>2 DEF HeapOK
<1>2. IsCut(g, h, b, size, r) /\ g.blk[r].prevfree = FALSE /\ Rest(b, size) = r /\ r \notin D
  BY <1>1, SplitFields
<1>3. /\ HeapOK(g, S \cup {r}) /\ Used(g) = Used(h) /\ FreeBlocks(g) = FreeBlocks(h) \cup {r}
      /\ block_next(g, b) = r /\ block_next(g, r) = n
  <2>1. b \in S \cup Used(h) /\ g.blk[r].prevfree = h.blk[b].free /\ (h.blk[b].free => g.blk[r].prev = b)
    BY <1>1, <1>2
  <2> HIDE DEF n
  <2>2. n = block_next(h, b)
    BY DEF n
  <2> QED BY <1>2, <2>1, <2>2, Split
<1> QED BY <1>2, <1>3 DEF IsCut

(* What block_absorb changes in the headers.                               *)
LEMMA AbsorbFields ==
  ASSUME NEW h, IsHeap(h), Tiles(h), NEW p \in DOMAIN h.blk \ {LAST}, NEW b \in DOMAIN h.blk \ {LAST},
         block_next(h, p) = b, NEW n, block_next(h, b) = n
  PROVE  LET g == block_absorb(h, p, b)
         IN  /\ IsJoin(g, h, p, b) /\ g.blk[n].prev = p /\ g.blk[n].prevfree = h.blk[n].prevfree
             /\ block_next(g, p) = n /\ n \in DOMAIN g.blk /\ p \in DOMAIN g.blk /\ p # n
<1> DEFINE D    == DOMAIN h.blk
           sp   == h.blk[p].size
           sb   == h.blk[b].size
           size == sp + sb + OVERHEAD
           next == p + START + size - OVERHEAD
           F    == [x \in D \ {b} |-> IF x = p THEN [h.blk[x] EXCEPT !.size = size]
                                      ELSE IF x = next THEN [h.blk[x] EXCEPT !.prev = p] ELSE h.blk[x]]
           g    == block_absorb(h, p, b)
<1>1. /\ p \in Int /\ b \in Int /\ n \in D /\ h.blk \in [D -> Header] /\ p < b /\ b < n
      /\ n = b + 1 + sb /\ sb \in Nat /\ sp \in Nat /\ b = p + 1 + sp
  BY TilesFacts DEF Tiles
<1>2. g = [h EXCEPT !.blk = F]
  BY DEF block_absorb
<1> HIDE DEF sp, sb
<1>3. size = sp + sb + 1 /\ size \in Nat /\ next = n /\ p # b /\ n # b /\ p # n
  BY <1>1 DEF OVERHEAD, START
<1> HIDE DEF next, size
<1>4. /\ F \in [D \ {b} -> Header] /\ F[p] = [h.blk[p] EXCEPT !.size = size]
      /\ F[n] = [h.blk[n] EXCEPT !.prev = p]
      /\ \A c \in D \ {b, p, n} : F[c] = h.blk[c]
  <2>1. [h.blk[p] EXCEPT !.size = size] \in Header /\ [h.blk[n] EXCEPT !.prev = p] \in Header
    BY <1>1, <1>3 DEF Header
  <2> QED BY <1>1, <1>3, <2>1
<1> HIDE DEF F
<1>5. IsHeap(g) /\ SameLists(g, h) /\ g.blk = F
  <2> HIDE DEF g
  <2> QED BY <1>2 DEF IsHeap, SameLists
<1> HIDE DEF g, D
<1>6. h.blk[p] \in Header /\ h.blk[n] \in Header
  BY <1>1 DEF D
<1>7. /\ F[p].size = size /\ F[p].free = h.blk[p].free /\ F[p].prevfree = h.blk[p].prevfree
      /\ F[p].prev = h.blk[p].prev
      /\ F[n].size = h.blk[n].size /\ F[n].free = h.blk[n].free /\ F[n].prevfree = h.blk[n].prevfree
      /\ F[n].prev = p
  BY <1>4, <1>6 DEF Header
<1>8. IsJoin(g, h, p, b)
  <2>1. g.blk[p].size = h.blk[p].size + h.blk[b].size + 1
    BY <1>3, <1>5, <1>7 DEF sp, sb
  <2>2. ASSUME NEW c \in D \ {b}
        PROVE  /\ c # p => g.blk[c].size = h.blk[c].size
               /\ g.blk[c].free = h.blk[c].free
               /\ c # n => g.blk[c].prevfree = h.blk[c].prevfree /\ g.blk[c].prev = h.blk[c].prev
    <3>1. c = p \/ c = n \/ F[c] = h.blk[c]
      BY <1>4
    <3> QED BY <1>5, <1>7, <3>1, Zenon
  <2> QED BY <1>4, <1>5, <2>1, <2>2 DEF IsJoin, D
<1>9. block_next(g, p) = n /\ n \in DOMAIN g.blk /\ p \in DOMAIN g.blk
  <2>1. block_next(g, p) = p + 2 + size - 1
    BY <1>5, <1>7 DEF block_next, START, OVERHEAD
  <2>2. block_next(g, p) = n
    BY <1>1, <1>3, <2>1
  <2> QED BY <1>1, <1>3, <1>4, <1>5, <2>2 DEF D
<1> QED BY <1>3, <1>5, <1>7, <1>8, <1>9 DEF g

(* block_absorb of two blocks in hand.                                     *)
LEMMA JoinFree ==
  ASSUME NEW h, NEW S, HeapOK(h, S), NEW p \in S, NEW b \in S, block_next(h, p) = b
  PROVE  LET g == block_absorb(h, p, b)
         IN  /\ HeapOK(g, S \ {b}) /\ Used(g) = Used(h) /\ FreeBlocks(g) = FreeBlocks(h) \ {b}
             /\ IsJoin(g, h, p, b) /\ block_next(g, p) = block_next(h, b) /\ p # b
             /\ \A c \in DOMAIN h.blk \ {b, p} : block_next(g, c) = block_next(h, c)
<1> DEFINE n == block_next(h, b)
           g == block_absorb(h, p, b)
<1>1. /\ IsHeap(h) /\ Tiles(h) /\ p \in DOMAIN h.blk \ {LAST} /\ b \in DOMAIN h.blk \ {LAST}
      /\ h.blk[p].free = TRUE /\ h.blk[b].free = TRUE
  <2>1. /\ IsHeap(h) /\ Tiles(h) /\ p \in DOMAIN h.blk \ {LAST} /\ b \in DOMAIN h.blk \ {LAST}
        /\ h.blk[p].free /\ h.blk[b].free
    BY DEF HeapOK, FreeBlocks, Flags
  <2> QED BY <2>1, TilesFacts
<1>2. h.blk[n].prevfree = TRUE
  BY <1>1 DEF HeapOK, Flags
<1>3. n = block_next(h, b)
  OBVIOUS
<1> HIDE DEF n, g
<1>4. IsJoin(g, h, p, b) /\ g.blk[n].prev = p /\ g.blk[n].prevfree = h.blk[n].prevfree
  BY <1>1, <1>3, AbsorbFields DEF g
<1>5. p \in S \cup Used(h) /\ g.blk[n].prevfree = h.blk[p].free /\ (h.blk[p].free => g.blk[n].prev = p)
  BY <1>1, <1>2, <1>4
<1>6. /\ HeapOK(g, S \ {b}) /\ Used(g) = Used(h) /\ FreeBlocks(g) = FreeBlocks(h) \ {b}
      /\ block_next(g, p) = n /\ p # b
      /\ \A c \in DOMAIN h.blk \ {b, p} : block_next(g, c) = block_next(h, c)
  BY <1>3, <1>4, <1>5, Absorb
<1> QED BY <1>3, <1>4, <1>6 DEF g

(* A used block grows over the free one behind it.                         *)
LEMMA GrowUsed ==
  ASSUME NEW h, NEW S, HeapOK(h, S), NEW p \in Used(h), NEW b \in S, block_next(h, p) = b
  PROVE  LET g == block_mark_as_used(block_absorb(h, p, b), p)
         IN  /\ HeapOK(g, S \ {b}) /\ Used(g) = Used(h) /\ FreeBlocks(g) = FreeBlocks(h) \ {b}
             /\ IsJoin(g, h, p, b) /\ block_next(g, p) = block_next(h, b)
<1> DEFINE n == block_next(h, b)
           f == block_absorb(h, p, b)
           g == block_mark_as_used(f, p)
<1>1. /\ IsHeap(h) /\ Tiles(h) /\ p \in DOMAIN h.blk \ {LAST} /\ b \in DOMAIN h.blk \ {LAST}
      /\ ~h.blk[p].free /\ p \in Int
  <2>1. /\ IsHeap(h) /\ Tiles(h) /\ p \in DOMAIN h.blk \ {LAST} /\ b \in DOMAIN h.blk \ {LAST}
        /\ ~h.blk[p].free
    BY DEF HeapOK, FreeBlocks, Flags, Used
  <2> QED BY <2>1, TilesFacts
<1>2. n = block_next(h, b) /\ g = block_mark_as_used(f, p)
  OBVIOUS
<1> HIDE DEF n, f, g
<1>3. /\ IsJoin(f, h, p, b) /\ block_next(f, p) = n /\ n \in DOMAIN f.blk /\ p \in DOMAIN f.blk /\ p # n
  BY <1>1, <1>2, AbsorbFields DEF f
<1>4. IsHeap(f) /\ f.blk \in [DOMAIN f.blk -> Header] /\ DOMAIN f.blk = DOMAIN h.blk \ {b}
  BY <1>3 DEF IsJoin
<1>5. /\ IsHeap(g) /\ SameLists(g, f)
      /\ g.blk \in [DOMAIN f.blk -> Header]
      /\ \A c \in DOMAIN f.blk : g.blk[c].size = f.blk[c].size
      /\ ~g.blk[p].free /\ \A c \in DOMAIN f.blk \ {p} : g.blk[c].free = f.blk[c].free
      /\ ~g.blk[n].prevfree
      /\ \A c \in DOMAIN f.blk \ {n} : g.blk[c].prevfree = f.blk[c].prevfree
      /\ \A c \in DOMAIN f.blk : g.blk[c].prev = f.blk[c].prev
  <2>1. n = block_next(f, p)
    BY <1>3
  <2> QED BY <1>1, <1>2, <1>3, <1>4, <2>1, UsedFields
<1>6. g.blk[p].free = FALSE /\ h.blk[p].free = FALSE /\ g.blk[n].prevfree = FALSE
  <2>1. g.blk[p] \in Header /\ g.blk[n] \in Header
    BY <1>3, <1>5
  <2>2. h.blk[p] \in Header
    BY <1>1 DEF Tiles
  <2> QED BY <1>1, <1>5, <2>1, <2>2 DEF Header
<1>7. IsJoin(g, h, p, b)
  <2>1. SameLists(g, h)
    BY <1>3, <1>5 DEF SameLists, IsJoin
  <2>2. /\ g.blk[p].size = h.blk[p].size + h.blk[b].size + 1
        /\ g.blk \in [DOMAIN h.blk \ {b} -> Header]
    BY <1>3, <1>4, <1>5 DEF IsJoin
  <2>3. ASSUME NEW c \in DOMAIN h.blk \ {b}
        PROVE  /\ c # p => g.blk[c].size = h.blk[c].size
               /\ g.blk[c].free = h.blk[c].free
               /\ c # n => g.blk[c].prevfree = h.blk[c].prevfree /\ g.blk[c].prev = h.blk[c].prev
    <3>1. c \in DOMAIN f.blk
      BY <1>4
    <3>2. /\ c # p => f.blk[c].size = h.blk[c].size
          /\ f.blk[c].free = h.blk[c].free
          /\ c # n => f.blk[c].prevfree = h.blk[c].prevfree /\ f.blk[c].prev = h.blk[c].prev
      BY <1>2, <1>3 DEF IsJoin
    <3> QED BY <1>5, <1>6, <3>1, <3>2
  <2> QED BY <1>2, <1>5, <2>1, <2>2, <2>3 DEF IsJoin
<1>8. p \in S \cup Used(h) /\ g.blk[n].prevfree = h.blk[p].free /\ (h.blk[p].free => g.blk[n].prev = p)
  BY <1>6
<1>9. /\ HeapOK(g, S \ {b}) /\ Used(g) = Used(h) /\ FreeBlocks(g) = FreeBlocks(h) \ {b}
      /\ block_next(g, p) = n
  <2>1. block_next(h, b) = n
    BY <1>2
  <2> HIDE <1>2
  <2> QED BY <1>7, <1>8, <2>1, Absorb
<1> QED BY <1>2, <1>7, <1>9 DEF f

--------------------------------------------------------------------------------
(* Looking for a block.                                                    *)
LEMMA Ffs ==
  ASSUME NEW T \in SUBSET Nat, T # {}
  PROVE  tlsf_ffs(T) \in T
<1>1. \E i \in T : \A j \in T : i <= j
  BY LeastNumber
<1> QED BY <1>1 DEF tlsf_ffs

(* search_suitable_block finds a list at or behind the one asked for, or   *)
(* all of them are empty.                                                  *)
LEMMA Search ==
  ASSUME NEW h, NEW F, Listed(h, F), NEW at \in Lists
  PROVE  LET found == search_suitable_block(h, at)
         IN  \/ found = {} /\ \A l \in Lists : AtLeast(l, at) => h.blocks[l] = <<>>
             \/ \E l \in Lists : found = {l} /\ AtLeast(l, at) /\ h.blocks[l] # <<>>
<1> DEFINE sl == {i \in h.sl_bitmap[at[1]] : i >= at[2]}
           fl == {i \in h.fl_bitmap : i > at[1]}
           found == search_suitable_block(h, at)
<1>1. /\ at[1] \in FlIndex /\ at[2] \in SlIndex /\ FlIndex \subseteq Nat /\ SlIndex \subseteq Nat
  BY SizeConstants DEF Lists, FlIndex, SlIndex
<1>2. /\ h.sl_bitmap \in [FlIndex -> SUBSET SlIndex] /\ h.fl_bitmap = {i \in FlIndex : h.sl_bitmap[i] # {}}
      /\ \A i \in FlIndex, j \in SlIndex : j \in h.sl_bitmap[i] <=> h.blocks[<<i, j>>] # <<>>
  BY DEF Listed
<1>3. found = IF sl # {} THEN {<<at[1], tlsf_ffs(sl)>>}
              ELSE IF fl # {} THEN {<<tlsf_ffs(fl), tlsf_ffs(h.sl_bitmap[tlsf_ffs(fl)])>>} ELSE {}
  BY DEF search_suitable_block
<1>4. /\ sl \in SUBSET Nat /\ \A i \in sl : i \in SlIndex /\ i \in h.sl_bitmap[at[1]] /\ i >= at[2]
      /\ fl \in SUBSET Nat /\ \A i \in fl : i \in FlIndex /\ h.sl_bitmap[i] # {} /\ i > at[1]
  BY <1>1, <1>2
<1>5. /\ \A j \in h.sl_bitmap[at[1]] : j >= at[2] => j \in sl
      /\ \A i \in FlIndex : h.sl_bitmap[i] # {} /\ i > at[1] => i \in fl
  BY <1>2
<1> HIDE DEF sl, fl, found
<1>6. CASE sl # {}
  <2> DEFINE j == tlsf_ffs(sl)
  <2>1. j \in sl
    BY <1>4, <1>6, Ffs
  <2> HIDE DEF j
  <2>2. found = {<<at[1], j>>}
    BY <1>3, <1>6 DEF j
  <2>3. <<at[1], j>> \in Lists /\ AtLeast(<<at[1], j>>, at) /\ h.blocks[<<at[1], j>>] # <<>>
    BY <1>1, <1>2, <1>4, <2>1 DEF Lists, AtLeast
  <2> QED BY <2>2, <2>3 DEF found
<1>7. CASE sl = {} /\ fl # {}
  <2> DEFINE i == tlsf_ffs(fl)
             j == tlsf_ffs(h.sl_bitmap[i])
  <2>1. i \in fl
    BY <1>4, <1>7, Ffs
  <2>2. found = {<<i, j>>}
    BY <1>3, <1>7
  <2> HIDE DEF i
  <2>3. i \in FlIndex /\ h.sl_bitmap[i] # {} /\ i > at[1] /\ h.sl_bitmap[i] \in SUBSET Nat /\ h.sl_bitmap[i] \subseteq SlIndex
    BY <1>1, <1>2, <1>4, <2>1
  <2>4. j \in h.sl_bitmap[i]
    BY <2>3, Ffs
  <2> HIDE DEF j
  <2>5. <<i, j>> \in Lists /\ AtLeast(<<i, j>>, at) /\ h.blocks[<<i, j>>] # <<>>
    BY <1>2, <2>3, <2>4 DEF Lists, AtLeast
  <2> QED BY <2>2, <2>5 DEF found
<1>8. CASE sl = {} /\ fl = {}
  <2>1. found = {}
    BY <1>3, <1>8
  <2>2. ASSUME NEW l \in Lists, AtLeast(l, at), h.blocks[l] # <<>> PROVE FALSE
    <3>1. l[1] \in FlIndex /\ l[2] \in SlIndex /\ l = <<l[1], l[2]>>
      BY DEF Lists
    <3>2. l[2] \in h.sl_bitmap[l[1]]
      BY <1>2, <2>2, <3>1
    <3>3. CASE l[1] > at[1]
      BY <1>5, <1>8, <3>1, <3>2, <3>3
    <3>4. CASE l[1] = at[1] /\ l[2] >= at[2]
      BY <1>5, <1>8, <3>2, <3>4
    <3> QED BY <2>2, <3>3, <3>4 DEF AtLeast
  <2> QED BY <2>1, <2>2 DEF found
<1> QED BY <1>6, <1>7, <1>8

(* A request the table has a list for.                                     *)
Findable(n) == n \in Nat /\ 1 <= n /\ n < Pow2(30) /\ mapping_search(n)[1] \in FlIndex

(* block_locate_free takes out a block that is large enough, or none is.   *)
LEMMA Locating ==
  ASSUME NEW h, HeapOK(h, {}), NEW n, Findable(n)
  PROVE  LET found == block_locate_free(h, n)
         IN  \/ /\ Locate(h, n) = {} /\ found = [h |-> h, b |-> Null]
                /\ \A b \in FreeBlocks(h) : h.blk[b].size < Rounded(n)
             \/ /\ Locate(h, n) # {} /\ found = [h |-> found.h, b |-> found.b]
                /\ found.b \in FreeBlocks(h) /\ found.b # Null /\ h.blk[found.b].size >= n
                /\ HeapOK(found.h, {found.b}) /\ found.h.blk = h.blk
<1> DEFINE at    == mapping_search(n)
           found == block_locate_free(h, n)
<1>0. IsHeap(h) /\ Tiles(h) /\ Flags(h) /\ Listed(h, FreeBlocks(h))
  <2>1. FreeBlocks(h) \ {} = FreeBlocks(h)
    OBVIOUS
  <2> QED BY <2>1 DEF HeapOK
<1>1. /\ Rounded(n) \in Nat /\ n <= Rounded(n) /\ Rounded(n) < Pow2(31)
      /\ at = mapping_insert(Rounded(n)) /\ n \in Nat /\ 1 <= n /\ n < Pow2(30)
  BY RoundedUp DEF Findable
<1>2. at \in Lists
  <2> DEFINE r == Rounded(n)
  <2>1. r \in Nat /\ 1 <= r /\ r < Pow2(31)
    BY <1>1
  <2> HIDE DEF r
  <2>2. mapping_insert(r) = <<mapping_insert(r)[1], mapping_insert(r)[2]>> /\ mapping_insert(r)[2] \in SlIndex
    BY <2>1, MapInsert
  <2>3. at = <<at[1], at[2]>> /\ at[2] \in SlIndex /\ at[1] \in FlIndex
    BY <1>1, <2>2 DEF r, Findable
  <2> HIDE DEF at
  <2> QED BY <2>3 DEF Lists
<1>3. Locate(h, n) = search_suitable_block(h, at)
  BY <1>1 DEF Locate
<1>4. ASSUME NEW b \in FreeBlocks(h)
      PROVE  /\ b \in DOMAIN h.blk /\ b # LAST /\ b # Null /\ h.blk[b].size \in Nat /\ 1 <= h.blk[b].size
             /\ h.blk[b].size < Pow2(31) /\ ListOf(h, b) \in Lists
  <2>1. b \in DOMAIN h.blk /\ b # LAST
    BY <1>0 DEF FreeBlocks, Flags
  <2>2. h.blk[b].size \in Nat /\ 3 <= h.blk[b].size /\ h.blk[b].size < MAX_SIZE /\ ListOf(h, b) \in Lists
        /\ b \in -1 .. LAST
    BY <1>0, <2>1, TilesFacts
  <2>3. b # Null
    BY <2>2 DEF Null
  <2>4. h.blk[b].size < Pow2(31)
    BY <2>2, SizeConstants
  <2> QED BY <2>1, <2>2, <2>3, <2>4
<1>5. \A l \in Lists : /\ Range(h.blocks[l]) = {b \in FreeBlocks(h) : ListOf(h, b) = l}
                       /\ h.blocks[l] \in Seq(Int)
  BY <1>0 DEF Listed
<1>6. CASE Locate(h, n) = {}
  <2>1. \A l \in Lists : AtLeast(l, at) => h.blocks[l] = <<>>
    <3> HIDE DEF at
    <3>1. \/ search_suitable_block(h, at) = {} /\ \A l \in Lists : AtLeast(l, at) => h.blocks[l] = <<>>
          \/ \E l \in Lists : search_suitable_block(h, at) = {l}
      BY <1>0, <1>2, Search
    <3> QED BY <1>3, <1>6, <3>1
  <2>2. ASSUME NEW b \in FreeBlocks(h), h.blk[b].size >= Rounded(n) PROVE FALSE
    <3>1. AtLeast(ListOf(h, b), at)
      <4> DEFINE m == h.blk[b].size
                 r == Rounded(n)
      <4>1. m \in Nat /\ r \in Nat /\ 1 <= r /\ r <= m /\ m < Pow2(31)
        BY <1>1, <1>4, <2>2
      <4> HIDE DEF m, r
      <4>2. AtLeast(mapping_insert(m), mapping_insert(r))
        BY <4>1, LargerClass
      <4> QED BY <1>1, <4>2 DEF m, r, ListOf
    <3>2. h.blocks[ListOf(h, b)] = <<>>
      BY <1>4, <2>1, <3>1
    <3>3. b \in Range(h.blocks[ListOf(h, b)])
      BY <1>4, <1>5
    <3> QED BY <3>2, <3>3, NoElements
  <2>3. \A b \in FreeBlocks(h) : h.blk[b].size < Rounded(n)
    <3> SUFFICES ASSUME NEW b \in FreeBlocks(h) PROVE h.blk[b].size < Rounded(n)
      OBVIOUS
    <3> DEFINE m == h.blk[b].size
               r == Rounded(n)
    <3>1. m \in Nat /\ r \in Nat /\ ~(m >= r)
      BY <1>1, <1>4, <2>2
    <3> HIDE DEF m, r
    <3>2. m < r
      BY <3>1
    <3> QED BY <3>2 DEF m, r
  <2>4. found = [h |-> h, b |-> Null]
    BY <1>6 DEF block_locate_free
  <2> QED BY <1>6, <2>3, <2>4
<1>7. CASE Locate(h, n) # {}
  <2>1. PICK l \in Lists : Locate(h, n) = {l} /\ AtLeast(l, at) /\ h.blocks[l] # <<>>
    BY <1>0, <1>2, <1>3, <1>7, Search
  <2> DEFINE b == Head(h.blocks[l])
  <2>2. found = [h |-> remove_free_block(h, b, l), b |-> b]
    <3>1. (CHOOSE k \in Locate(h, n) : TRUE) = l
      BY <2>1
    <3> QED BY <1>7, <3>1 DEF block_locate_free
  <2>3. b \in Range(h.blocks[l])
    <3>1. h.blocks[l] \in Seq(Int)
      BY <1>5
    <3>2. Head(h.blocks[l]) = h.blocks[l][1] /\ 1 \in DOMAIN h.blocks[l]
      BY <2>1, <3>1
    <3> QED BY <3>2 DEF Range
  <2> HIDE DEF b
  <2>4. b \in FreeBlocks(h) /\ l = ListOf(h, b)
    BY <1>5, <2>3
  <2>5. h.blk[b].size >= n
    <3> DEFINE m == h.blk[b].size
    <3>1. m \in Nat /\ 1 <= m /\ m < Pow2(31) /\ AtLeast(mapping_insert(m), mapping_search(n))
      BY <1>4, <2>1, <2>4 DEF ListOf
    <3> HIDE DEF m
    <3>2. m >= n
      BY <1>1, <3>1, SearchFits
    <3> QED BY <3>2 DEF m
  <2> DEFINE g == remove_free_block(h, b, l)
  <2>6. HeapOK(g, {b}) /\ g.blk = h.blk
    <3>1. {} \cup {b} = {b} /\ b \in FreeBlocks(h) \ {}
      BY <2>4
    <3>2. HeapOK(g, {} \cup {b}) /\ g.blk = h.blk
      BY <2>4, <3>1, TakeOut
    <3> QED BY <3>1, <3>2
  <2> HIDE DEF g, found
  <2>7. found.h = g /\ found.b = b /\ found = [h |-> found.h, b |-> found.b]
    BY <2>2 DEF g
  <2> QED BY <1>4, <1>7, <2>4, <2>5, <2>6, <2>7 DEF found
<1> QED BY <1>6, <1>7

--------------------------------------------------------------------------------
(* The steps of a call, which leave the blocks in use and their sizes.     *)
Same(g, h) == Used(g) = Used(h) /\ \A c \in Used(h) : g.blk[c].size = h.blk[c].size
FreeAfter(h, b) == block_next(h, b) \in FreeBlocks(h)
FreeBefore(h, b) == \E c \in FreeBlocks(h) : block_next(h, c) = b

(* What is known of a free block.                                          *)
LEMMA InHand ==
  ASSUME NEW h, NEW S, HeapOK(h, S), NEW b \in FreeBlocks(h)
  PROVE  /\ Tiles(h) /\ Flags(h) /\ b \in DOMAIN h.blk /\ b # LAST /\ b \in Int /\ b >= -1 /\ b # Null
         /\ b \notin Used(h) /\ h.blk[b].size \in Nat /\ 3 <= h.blk[b].size
         /\ block_next(h, b) = b + 1 + h.blk[b].size /\ block_next(h, b) \in DOMAIN h.blk
         /\ block_next(h, b) # b /\ block_next(h, b) # FirstBlock
<1>1. Tiles(h) /\ Flags(h) /\ b \in DOMAIN h.blk /\ b # LAST /\ b \notin Used(h)
  BY DEF HeapOK, FreeBlocks, Flags, Used
<1>2. /\ b \in Int /\ b \in -1 .. LAST /\ h.blk[b].size \in Nat /\ 3 <= h.blk[b].size
      /\ block_next(h, b) \in DOMAIN h.blk /\ b < block_next(h, b)
  BY <1>1, TilesFacts
<1>3. block_next(h, b) = b + 1 + h.blk[b].size
  BY <1>1, TilesFacts
<1>4. block_next(h, b) \in Int
  BY <1>1, <1>2, TilesFacts
<1> DEFINE n == block_next(h, b)
           m == h.blk[b].size
<1> HIDE DEF n, m
<1>5. n # b /\ n # FirstBlock /\ b >= -1 /\ b # Null
  BY <1>2, <1>4, PoolConstants DEF Null, n
<1> QED BY <1>1, <1>2, <1>3, <1>5 DEF n

(* block_trim_free puts what is too much into its list.                    *)
LEMMA TrimFree ==
  ASSUME NEW h, NEW b, HeapOK(h, {b}), ~FreeAfter(h, b), NEW size \in Int, 3 <= size, size <= h.blk[b].size
  PROVE  LET g == block_trim_free(h, b, size)
         IN  HeapOK(g, {b}) /\ Same(g, h) /\ g.blk[b].size >= size
<1>1. b \in FreeBlocks(h) /\ b \in DOMAIN h.blk /\ b \in Int /\ h.blk[b].size \in Nat /\ b \notin Used(h)
      /\ \A c \in FreeBlocks(h) : block_next(h, c) \in DOMAIN h.blk
  <2>1. b \in FreeBlocks(h)
    BY DEF HeapOK
  <2> QED BY <2>1, InHand
<1>2. CASE ~can_split(h, b, size)
  BY <1>1, <1>2 DEF block_trim_free, Same
<1>3. CASE can_split(h, b, size)
  <2> DEFINE r == b + 1 + size
             s == block_split(h, b, size)
             f == LinkedTo(s, r, b)
             g == block_insert(f, r)
  <2>1. CanCut(h, b, size, r)
    BY <1>1, <1>3 DEF can_split, CanCut, HEADER
  <2>2. Rest(b, size) = r
    BY <1>1 DEF Rest, START, OVERHEAD
  <2>3. block_trim_free(h, b, size) = g
    BY <1>3, <2>2 DEF block_trim_free, LinkedTo
  <2> HIDE DEF r, s
  <2>4. /\ HeapOK(f, {b} \cup {r}) /\ Used(f) = Used(h) /\ FreeBlocks(f) = FreeBlocks(h) \cup {r}
        /\ r \notin DOMAIN h.blk
        /\ block_next(f, b) = r /\ block_next(f, r) = block_next(h, b)
        /\ f.blk[b].size = size /\ \A c \in DOMAIN h.blk \ {b} : f.blk[c].size = h.blk[c].size
    <3> DEFINE S == {b}
    <3>1. b \in S /\ HeapOK(h, S) /\ f = LinkedTo(block_split(h, b, size), r, b)
      BY DEF s
    <3> HIDE DEF f, S
    <3>2. HeapOK(f, S \cup {r})
      BY <2>1, <3>1, SplitFree
    <3> QED BY <2>1, <3>1, <3>2, SplitFree DEF S
  <2> HIDE DEF f
  <2>5. \A c \in FreeBlocks(f) \ {b, r} : block_next(f, c) # r /\ block_next(f, r) # c
    <3> SUFFICES ASSUME NEW c \in FreeBlocks(f) \ {b, r} PROVE block_next(f, c) # r /\ block_next(f, r) # c
      OBVIOUS
    <3>1. c \in FreeBlocks(h) /\ c \in DOMAIN h.blk \ {b}
      BY <2>4 DEF FreeBlocks
    <3>2. block_next(f, c) = block_next(h, c)
      BY <2>4, <3>1 DEF block_next
    <3> QED BY <1>1, <2>4, <3>1, <3>2 DEF FreeAfter
  <2>6. HeapOK(g, {b}) /\ g.blk = f.blk
    <3>1. {b} \cup {r} = {b, r} /\ {b, r} \ {r} = {b} /\ r \in {b, r}
      BY <1>1, <2>4
    <3>2. HeapOK(f, {b, r})
      BY <2>4, <3>1
    <3>3. HeapOK(g, {b, r} \ {r}) /\ g.blk = f.blk
      BY <2>5, <3>1, <3>2, PutIn
    <3> QED BY <3>1, <3>3
  <2>7. Used(g) = Used(f)
    BY <2>6, SameBlocks
  <2>8. Used(h) \subseteq DOMAIN h.blk \ {b}
    BY <1>1 DEF Used
  <2> HIDE DEF g
  <2>9. HeapOK(g, {b}) /\ Same(g, h) /\ g.blk[b].size >= size
    BY <2>4, <2>6, <2>7, <2>8 DEF Same
  <2> QED BY <2>3, <2>9
<1> QED BY <1>2, <1>3

(* block_prepare_used hands out a block that was in hand.                  *)
LEMMA Prepare ==
  ASSUME NEW h, NEW b, HeapOK(h, {b}), ~FreeAfter(h, b), NEW size \in Int, 3 <= size, size <= h.blk[b].size
  PROVE  LET g == block_prepare_used(h, b, size).h
         IN  /\ block_prepare_used(h, b, size).p = b + 2 /\ b \notin Used(h)
             /\ HeapOK(g, {}) /\ Used(g) = Used(h) \cup {b} /\ g.blk[b].size >= size
             /\ \A c \in Used(h) : g.blk[c].size = h.blk[c].size
<1> DEFINE f == block_trim_free(h, b, size)
           g == block_mark_as_used(f, b)
<1>1. HeapOK(f, {b}) /\ Same(f, h) /\ f.blk[b].size >= size
  BY TrimFree
<1>2. b \in FreeBlocks(h) /\ b # Null /\ b \notin Used(h) /\ b \in Int /\ b \in DOMAIN f.blk
  <2>1. b \in FreeBlocks(h) /\ b \in FreeBlocks(f)
    BY <1>1 DEF HeapOK
  <2> QED BY <1>1, <2>1, InHand
<1>3. block_prepare_used(h, b, size).h = g /\ block_prepare_used(h, b, size).p = b + 2
  BY <1>2 DEF block_prepare_used, ToPtr, START
<1> HIDE DEF f
<1>4. /\ HeapOK(g, {b} \ {b}) /\ \A c \in DOMAIN f.blk : g.blk[c].size = f.blk[c].size
      /\ Used(g) = Used(f) \cup {b}
  <2>1. b \in {b}
    OBVIOUS
  <2> QED BY <1>1, <2>1, BecomesUsed
<1> HIDE DEF g
<1>5. {b} \ {b} = {} /\ Used(f) \subseteq DOMAIN f.blk
  BY DEF Used
<1> QED BY <1>1, <1>2, <1>3, <1>4, <1>5 DEF Same

(* block_trim_free_leading: the block itself goes back to its list.        *)
Led(l, h, b, gap) ==
  /\ l.b = b + gap /\ l = [h |-> l.h, b |-> l.b]
  /\ HeapOK(l.h, {l.b}) /\ ~FreeAfter(l.h, l.b) /\ Same(l.h, h)
  /\ l.h.blk[l.b].size = h.blk[b].size - gap

(* The block behind the gap stays in hand, with no free neighbour behind.  *)
LEMMA TrimLeading ==
  ASSUME NEW h, NEW b, HeapOK(h, {b}), ~FreeAfter(h, b), ~FreeBefore(h, b),
         NEW gap \in Int, 4 <= gap, gap + 4 <= h.blk[b].size
  PROVE  Led(block_trim_free_leading(h, b, gap), h, b, gap)
<1>1. b \in FreeBlocks(h) /\ b \in DOMAIN h.blk /\ b \in Int /\ h.blk[b].size \in Nat /\ b \notin Used(h)
      /\ block_next(h, b) # b
  <2>1. b \in FreeBlocks(h)
    BY DEF HeapOK
  <2> QED BY <2>1, InHand
<1> DEFINE size == gap - 1
           r == b + 1 + size
           s == block_split(h, b, size)
           f == LinkedTo(s, r, b)
           g == block_insert(f, b)
           l == block_trim_free_leading(h, b, gap)
<1>2. CanCut(h, b, size, r) /\ r = b + gap /\ h.blk[b].size - (size + 1) = h.blk[b].size - gap /\ b # r
  BY <1>1 DEF CanCut
<1>3. Rest(b, size) = r
  BY <1>1 DEF Rest, START, OVERHEAD
<1>4. l = [h |-> g, b |-> r]
  <2>1. can_split(h, b, gap)
    BY <1>1 DEF can_split, HEADER
  <2>2. gap - OVERHEAD = size
    BY DEF OVERHEAD
  <2>3. [s EXCEPT !.blk[r] = [@ EXCEPT !.prevfree = TRUE, !.prev = b]] = f
    BY DEF LinkedTo
  <2> HIDE DEF f
  <2> QED BY <1>3, <2>1, <2>2, <2>3 DEF block_trim_free_leading
<1> HIDE DEF r, s, size, l
<1>5. /\ HeapOK(f, {b} \cup {r}) /\ Used(f) = Used(h) /\ FreeBlocks(f) = FreeBlocks(h) \cup {r}
      /\ r \notin DOMAIN h.blk
      /\ block_next(f, b) = r /\ block_next(f, r) = block_next(h, b)
      /\ f.blk[r].size = h.blk[b].size - (size + 1)
      /\ \A c \in DOMAIN h.blk \ {b} : f.blk[c].size = h.blk[c].size
  <2> DEFINE S == {b}
  <2>1. b \in S /\ HeapOK(h, S) /\ f = LinkedTo(block_split(h, b, size), r, b)
    BY DEF s
  <2> HIDE DEF f, S
  <2>2. HeapOK(f, S \cup {r})
    BY <1>2, <2>1, SplitFree
  <2> QED BY <1>2, <2>1, <2>2, SplitFree DEF S
<1> HIDE DEF f
<1>6. \A c \in FreeBlocks(f) \ {b, r} : block_next(f, c) # b /\ block_next(f, b) # c
  <2> SUFFICES ASSUME NEW c \in FreeBlocks(f) \ {b, r} PROVE block_next(f, c) # b /\ block_next(f, b) # c
    OBVIOUS
  <2>1. c \in FreeBlocks(h) /\ c \in DOMAIN h.blk \ {b}
    BY <1>5 DEF FreeBlocks
  <2>2. block_next(f, c) = block_next(h, c)
    BY <1>5, <2>1 DEF block_next
  <2> QED BY <1>5, <2>1, <2>2 DEF FreeBefore
<1>7. HeapOK(g, {r}) /\ g.blk = f.blk
  <2>1. {b} \cup {r} = {b, r} /\ {b, r} \ {b} = {r} /\ b \in {b, r}
    BY <1>2
  <2>2. HeapOK(f, {b, r})
    BY <1>5, <2>1
  <2>3. HeapOK(g, {b, r} \ {b}) /\ g.blk = f.blk
    BY <1>6, <2>1, <2>2, PutIn
  <2> QED BY <2>1, <2>3
<1>8. Used(g) = Used(f) /\ FreeBlocks(g) = FreeBlocks(f) /\ block_next(g, r) = block_next(f, r)
  BY <1>7, SameBlocks
<1> HIDE DEF g
<1>9. ~FreeAfter(g, r)
  <2>1. block_next(h, b) # r
    <3>1. block_next(h, b) \in DOMAIN h.blk
      BY <1>1, InHand
    <3> QED BY <1>5, <3>1
  <2> QED BY <1>5, <1>8, <2>1 DEF FreeAfter
<1>10. Same(g, h)
  <2>1. Used(h) \subseteq DOMAIN h.blk \ {b}
    BY <1>1 DEF Used
  <2> QED BY <1>5, <1>7, <1>8, <2>1 DEF Same
<1>11. l.h = g /\ l.b = r /\ l = [h |-> l.h, b |-> l.b]
  BY <1>4
<1>12. Led(l, h, b, gap)
  BY <1>2, <1>5, <1>7, <1>9, <1>10, <1>11 DEF Led
<1> QED BY <1>12 DEF l

--------------------------------------------------------------------------------
(* Merging a block in hand with its neighbours.                            *)
LEMMA MergeNext ==
  ASSUME NEW h, NEW b, HeapOK(h, {b})
  PROVE  LET g == block_merge_next(h, b)
         IN  /\ HeapOK(g, {b}) /\ ~FreeAfter(g, b) /\ Same(g, h) /\ h.blk[b].size <= g.blk[b].size
             /\ ~FreeBefore(h, b) => ~FreeBefore(g, b)
<1> DEFINE c == block_next(h, b)
<1>1. /\ Tiles(h) /\ Flags(h) /\ b \in FreeBlocks(h) /\ b \in DOMAIN h.blk /\ b # LAST /\ b \notin Used(h)
      /\ h.blk[b].size \in Nat /\ c \in DOMAIN h.blk /\ c # b
  <2>1. b \in FreeBlocks(h)
    BY DEF HeapOK
  <2> QED BY <2>1, InHand
<1>2. CASE ~h.blk[c].free
  <2>1. block_merge_next(h, b) = h
    BY <1>2 DEF block_merge_next
  <2> QED BY <1>1, <1>2, <2>1 DEF FreeAfter, FreeBlocks, Same
<1>3. CASE h.blk[c].free
  <2> DEFINE f == block_remove(h, c)
             g == block_absorb(f, b, c)
  <2>1. block_merge_next(h, b) = g
    BY <1>3 DEF block_merge_next
  <2>2. c \in FreeBlocks(h) /\ c \notin {b} /\ block_next(h, b) = c
    BY <1>1, <1>3 DEF FreeBlocks
  <2> HIDE DEF c
  <2>3. HeapOK(f, {b, c}) /\ f.blk = h.blk
    <3> DEFINE S == {b}
    <3>1. HeapOK(h, S) /\ c \in FreeBlocks(h) \ S /\ f = remove_free_block(h, c, ListOf(h, c))
      BY <2>2 DEF block_remove, ListOf
    <3> HIDE DEF S, f
    <3>2. HeapOK(f, S \cup {c}) /\ f.blk = h.blk
      BY <3>1, TakeOut
    <3>3. S \cup {c} = {b, c}
      BY DEF S
    <3> QED BY <3>2, <3>3
  <2> HIDE DEF f
  <2>4. Used(f) = Used(h) /\ FreeBlocks(f) = FreeBlocks(h) /\ \A d : block_next(f, d) = block_next(h, d)
    BY <2>3, SameBlocks
  <2>5. /\ HeapOK(g, {b}) /\ Used(g) = Used(f) /\ FreeBlocks(g) = FreeBlocks(f) \ {c}
        /\ IsJoin(g, f, b, c) /\ block_next(g, b) = block_next(f, c)
        /\ \A d \in DOMAIN f.blk \ {c, b} : block_next(g, d) = block_next(f, d)
    <3> DEFINE S == {b, c}
    <3>1. HeapOK(f, S) /\ b \in S /\ c \in S /\ block_next(f, b) = c /\ S \ {c} = {b}
      BY <2>2, <2>3, <2>4
    <3> HIDE DEF S, g
    <3>2. /\ HeapOK(g, S \ {c}) /\ Used(g) = Used(f) /\ FreeBlocks(g) = FreeBlocks(f) \ {c}
          /\ IsJoin(g, f, b, c) /\ block_next(g, b) = block_next(f, c)
          /\ \A d \in DOMAIN f.blk \ {c, b} : block_next(g, d) = block_next(f, d)
      BY <3>1, JoinFree DEF g
    <3> QED BY <3>1, <3>2
  <2> HIDE DEF g
  <2>6. ~FreeAfter(g, b)
    <3> SUFFICES ASSUME block_next(h, c) \in FreeBlocks(h) PROVE FALSE
      BY <2>4, <2>5 DEF FreeAfter
    <3>1. block_next(h, c) = b
      BY <2>2 DEF HeapOK, Apart
    <3>2. b \in Int /\ c \in Int /\ b < c /\ c < b
      <4>1. c \in DOMAIN h.blk /\ c # LAST
        BY <1>1, <2>2 DEF FreeBlocks, Flags
      <4> QED BY <1>1, <2>2, <3>1, <4>1, TilesFacts
    <3> QED BY <3>2
  <2>7. Same(g, h)
    <3>1. \A d \in Used(h) : d \in DOMAIN f.blk \ {c, b}
      BY <1>1, <2>2, <2>3 DEF Used, FreeBlocks
    <3>2. \A d \in DOMAIN f.blk \ {c, b} : g.blk[d].size = f.blk[d].size
      BY <2>5 DEF IsJoin
    <3> QED BY <2>3, <2>4, <2>5, <3>1, <3>2 DEF Same
  <2>8. h.blk[b].size <= g.blk[b].size
    <3>1. h.blk[c].size \in Nat
      BY <1>1, <2>2, TilesFacts DEF FreeBlocks
    <3>2. g.blk[b].size = h.blk[b].size + h.blk[c].size + 1
      BY <2>3, <2>5 DEF IsJoin
    <3> QED BY <1>1, <3>1, <3>2
  <2>9. ASSUME ~FreeBefore(h, b), FreeBefore(g, b) PROVE FALSE
    <3>1. PICK d \in FreeBlocks(g) : block_next(g, d) = b
      BY <2>9 DEF FreeBefore
    <3>2. d \in FreeBlocks(h) /\ d # c /\ d \in DOMAIN f.blk
      BY <2>3, <2>4, <2>5, <3>1 DEF FreeBlocks
    <3>3. d # b
      <4>1. b \in FreeBlocks(g)
        BY <2>5 DEF HeapOK
      <4>2. block_next(g, b) # b
        BY <2>5, <4>1, InHand
      <4> QED BY <3>1, <4>2
    <3>4. block_next(h, d) = b
      BY <2>4, <2>5, <3>1, <3>2, <3>3
    <3> QED BY <2>9, <3>2, <3>4 DEF FreeBefore
  <2> QED BY <2>1, <2>5, <2>6, <2>7, <2>8, <2>9
<1> QED BY <1>2, <1>3

(* block_merge_prev leaves no free block in front.                         *)
LEMMA MergePrev ==
  ASSUME NEW h, NEW b, HeapOK(h, {b})
  PROVE  LET l == block_merge_prev(h, b)
         IN  /\ l = [h |-> l.h, b |-> l.b]
             /\ HeapOK(l.h, {l.b}) /\ ~FreeBefore(l.h, l.b) /\ Same(l.h, h)
<1>1. /\ Tiles(h) /\ Flags(h) /\ b \in FreeBlocks(h) /\ b \in DOMAIN h.blk /\ b # LAST /\ b \notin Used(h)
  <2>1. b \in FreeBlocks(h)
    BY DEF HeapOK
  <2> QED BY <2>1, InHand
<1>2. ASSUME NEW c \in FreeBlocks(h), block_next(h, c) = b
      PROVE  h.blk[b].prevfree /\ h.blk[b].prev = c
  <2>1. c \in DOMAIN h.blk \ {LAST} /\ h.blk[c].free
    BY <1>1 DEF FreeBlocks, Flags
  <2> QED BY <1>1, <1>2, <2>1 DEF Flags
<1>3. CASE ~h.blk[b].prevfree
  <2>1. block_merge_prev(h, b) = [h |-> h, b |-> b]
    BY <1>3 DEF block_merge_prev
  <2>2. ~FreeBefore(h, b)
    BY <1>2, <1>3 DEF FreeBefore
  <2> QED BY <2>1, <2>2 DEF Same
<1>4. CASE h.blk[b].prevfree
  <2>1. PICK a \in DOMAIN h.blk \ {LAST} : block_next(h, a) = b
    <3>1. b # FirstBlock
      BY <1>1, <1>4 DEF Flags
    <3> QED BY <1>1, <3>1 DEF Tiles
  <2>2. h.blk[a].free /\ h.blk[b].prev = a
    <3>1. h.blk[b].prevfree = h.blk[a].free /\ (h.blk[a].free => h.blk[b].prev = a)
      BY <1>1, <2>1 DEF Flags
    <3> QED BY <1>4, <3>1
  <2> DEFINE f == block_remove(h, a)
             g == block_absorb(f, a, b)
             l == block_merge_prev(h, b)
  <2>3. l = [h |-> g, b |-> a]
    BY <1>4, <2>2 DEF block_merge_prev
  <2>4. a \in FreeBlocks(h) /\ a \notin {b}
    <3>1. a \in FreeBlocks(h)
      BY <2>1, <2>2 DEF FreeBlocks
    <3> QED BY <2>1, <3>1, InHand
  <2>5. HeapOK(f, {b, a}) /\ f.blk = h.blk
    <3> DEFINE S == {b}
    <3>1. HeapOK(h, S) /\ a \in FreeBlocks(h) \ S /\ f = remove_free_block(h, a, ListOf(h, a))
      BY <2>4 DEF block_remove, ListOf
    <3> HIDE DEF S, f
    <3>2. HeapOK(f, S \cup {a}) /\ f.blk = h.blk
      BY <3>1, TakeOut
    <3>3. S \cup {a} = {b, a}
      BY DEF S
    <3> QED BY <3>2, <3>3
  <2> HIDE DEF f, l
  <2>6. Used(f) = Used(h) /\ FreeBlocks(f) = FreeBlocks(h) /\ \A d : block_next(f, d) = block_next(h, d)
    BY <2>5, SameBlocks
  <2>7. /\ HeapOK(g, {a}) /\ Used(g) = Used(f) /\ FreeBlocks(g) = FreeBlocks(f) \ {b}
        /\ IsJoin(g, f, a, b)
        /\ \A d \in DOMAIN f.blk \ {b, a} : block_next(g, d) = block_next(f, d)
    <3> DEFINE S == {b, a}
    <3>1. HeapOK(f, S) /\ a \in S /\ b \in S /\ block_next(f, a) = b /\ S \ {b} = {a}
      BY <2>1, <2>4, <2>5, <2>6
    <3> HIDE DEF S, g
    <3>2. /\ HeapOK(g, S \ {b}) /\ Used(g) = Used(f) /\ FreeBlocks(g) = FreeBlocks(f) \ {b}
          /\ IsJoin(g, f, a, b)
          /\ \A d \in DOMAIN f.blk \ {b, a} : block_next(g, d) = block_next(f, d)
      BY <3>1, JoinFree DEF g
    <3> QED BY <3>1, <3>2
  <2> HIDE DEF g
  <2>8. ~FreeBefore(g, a)
    <3> SUFFICES ASSUME NEW d \in FreeBlocks(g), block_next(g, d) = a PROVE FALSE
      BY DEF FreeBefore
    <3>1. d # a
      <4>1. a \in FreeBlocks(g)
        BY <2>7 DEF HeapOK
      <4>2. block_next(g, a) # a
        BY <2>7, <4>1, InHand
      <4> QED BY <4>2
    <3>2. d \in FreeBlocks(h) \ {b} /\ d \in DOMAIN f.blk
      BY <2>5, <2>6, <2>7 DEF FreeBlocks
    <3>3. block_next(h, d) = a
      BY <2>6, <2>7, <3>1, <3>2
    <3>4. a \in {b}
      BY <2>4, <3>2, <3>3 DEF HeapOK, Apart
    <3> QED BY <2>4, <3>4
  <2>9. Same(g, h)
    <3>1. \A d \in Used(h) : d \in DOMAIN f.blk \ {b, a}
      BY <1>1, <2>4, <2>5 DEF Used, FreeBlocks
    <3>2. \A d \in DOMAIN f.blk \ {b, a} : g.blk[d].size = f.blk[d].size
      BY <2>7 DEF IsJoin
    <3> QED BY <2>5, <2>6, <2>7, <3>1, <3>2 DEF Same
  <2>10. l.h = g /\ l.b = a /\ l = [h |-> l.h, b |-> l.b]
    BY <2>3
  <2> QED BY <2>7, <2>8, <2>9, <2>10 DEF l
<1> QED BY <1>3, <1>4

(* A block with no free neighbour goes to its list.                        *)
LEMMA PutBack ==
  ASSUME NEW h, NEW b, HeapOK(h, {b}), ~FreeAfter(h, b), ~FreeBefore(h, b)
  PROVE  LET g == block_insert(h, b)
         IN  HeapOK(g, {}) /\ Same(g, h) /\ g.blk = h.blk
<1> DEFINE S == {b}
           g == block_insert(h, b)
<1>1. HeapOK(h, S) /\ b \in S /\ S \ {b} = {}
  OBVIOUS
<1> HIDE DEF S, g
<1>2. \A c \in FreeBlocks(h) \ S : block_next(h, c) # b /\ block_next(h, b) # c
  BY DEF FreeAfter, FreeBefore
<1>3. HeapOK(g, S \ {b}) /\ g.blk = h.blk
  BY <1>1, <1>2, PutIn DEF g
<1>4. Used(g) = Used(h)
  BY <1>3, SameBlocks
<1> QED BY <1>1, <1>3, <1>4 DEF Same, g

--------------------------------------------------------------------------------
(* What is asked of the lists.                                             *)
LEMMA Multiples ==
  ASSUME NEW x \in Nat, NEW align \in Nat \ {0}
  PROVE  /\ AlignUp(x, align) \in Nat /\ x <= AlignUp(x, align) /\ AlignUp(x, align) < x + align
         /\ AlignUp(x, align) % align = 0
         /\ align = 1 => AlignUp(x, align) = x
         /\ x % align = 0 => AlignUp(x, align) = x
         /\ x % align = 0 => (x + align) % align = 0
<1> DEFINE q == (x + align - 1) \div align
<1>1. q \in Nat /\ q * align <= x + align - 1 /\ x + align - 1 < q * align + align
  BY SMT
<1>2. AlignUp(x, align) = q * align
  BY DEF AlignUp
<1> HIDE DEF q
<1>3. q * align \in Nat /\ (q * align) % align = 0
  BY <1>1, SMT
<1>4. align = 1 => q * align = x
  BY <1>1
<1>5. x % align = 0 => q * align = x /\ (x + align) % align = 0
  <2> SUFFICES ASSUME x % align = 0 PROVE q * align = x /\ (x + align) % align = 0
    OBVIOUS
  <2>1. PICK k \in Nat : x = k * align
    <3>1. x \div align \in Nat /\ x = (x \div align) * align
      BY SMT
    <3> QED BY <3>1
  <2>2. (x + align) = (k + 1) * align /\ ((k + 1) * align) % align = 0
    BY <2>1, SMT
  <2>3. q = k
    BY <1>1, <2>1, SMT
  <2> QED BY <2>1, <2>2, <2>3
<1> QED BY <1>1, <1>2, <1>3, <1>4, <1>5

(* The gap in front of an aligned block is empty or a block of its own,    *)
(* and fits into what kmemalign looks for.                                 *)
LEMMA GapSize ==
  ASSUME NEW p \in Nat, NEW align \in Nat \ {0}
  PROVE  /\ Gap(p, align) \in Nat /\ (Gap(p, align) = 0 \/ 4 <= Gap(p, align))
         /\ Gap(p, align) <= align + 3 /\ (align = 1 => Gap(p, align) = 0)
         /\ (p + Gap(p, align)) % align = 0
<1> DEFINE a    == AlignUp(p, align)
           gap  == a - p
           x    == a + Most(4 - gap, align)
           next == AlignUp(x, align)
<1>1. Gap(p, align) = IF gap > 0 /\ gap < 4 THEN next - p ELSE gap
  BY DEF Gap, HEADER
<1>2. a \in Nat /\ p <= a /\ a < p + align /\ a % align = 0 /\ (align = 1 => a = p)
  BY Multiples
<1> HIDE DEF a
<1>3. gap \in Nat /\ p + gap = a /\ gap < align /\ (align = 1 => gap = 0)
  BY <1>2
<1>4. CASE ~(gap > 0 /\ gap < 4)
  <2>1. Gap(p, align) = gap
    BY <1>1, <1>4
  <2> HIDE DEF gap
  <2> QED BY <1>2, <1>3, <1>4, <2>1
<1>5. CASE gap > 0 /\ gap < 4
  <2>1. Gap(p, align) = next - p
    BY <1>1, <1>5
  <2>2. x \in Nat /\ x >= a + (4 - gap)
    BY <1>2, <1>3, <1>5 DEF Most
  <2>3. next \in Nat /\ x <= next /\ next < x + align /\ next % align = 0
    <3> HIDE DEF x
    <3> QED BY <2>2, Multiples
  <2>4. next <= a + (4 - gap) + align - 1 \/ next = a + align
    <3>1. CASE 4 - gap > align
      <4>1. x = a + (4 - gap)
        BY <3>1 DEF Most
      <4> HIDE DEF x, next, gap
      <4> QED BY <1>2, <1>3, <2>3, <4>1
    <3>2. CASE ~(4 - gap > align)
      <4>1. x = a + align
        BY <3>2 DEF Most
      <4>2. x % align = 0
        BY <1>2, <4>1, Multiples
      <4> HIDE DEF x
      <4> QED BY <2>2, <4>1, <4>2, Multiples
    <3> QED BY <3>1, <3>2
  <2> HIDE DEF x, next, gap
  <2>5. next - p \in Nat /\ 4 <= next - p /\ next - p <= align + 3 /\ p + (next - p) = next
    BY <1>2, <1>3, <1>5, <2>2, <2>3, <2>4
  <2>6. align # 1
    BY <1>3, <1>5
  <2> QED BY <2>1, <2>3, <2>5, <2>6
<1> QED BY <1>4, <1>5

(* A request is at least the size asked for and the least block, and has a *)
(* list.                                                                   *)
LEMMA Request ==
  ASSUME NEW n \in Sizes
  PROVE  LET m == adjust_request_size(n, 1)
         IN  n \in Nat /\ 1 <= n /\ m \in Nat /\ 3 <= m /\ n <= m /\ m < MAX_SIZE /\ Findable(m)
<1> DEFINE m == adjust_request_size(n, 1)
<1>1. n \in Nat /\ 1 <= n /\ n < MAX_SIZE /\ MAX_SIZE \in Nat /\ 4 <= MAX_SIZE
  <2>1. MAX_SIZE \in Nat /\ LAST \in Nat /\ LAST >= 3 /\ LAST < MAX_SIZE
    BY SizeConstants, PoolConstants
  <2> QED BY <2>1, SizesAssumption
<1>2. m = Most(n, 3)
  <2>1. AlignUp(n, 1) = n
    BY <1>1, Multiples
  <2> QED BY <1>1, <2>1 DEF adjust_request_size, MIN_SIZE
<1>3. m \in Nat /\ 3 <= m /\ n <= m /\ m < MAX_SIZE
  BY <1>1, <1>2 DEF Most
<1>4. mapping_search(m)[1] \in FlIndex
  BY SizesAssumption
<1> HIDE DEF m
<1>5. Findable(m)
  BY <1>3, <1>4, SizeConstants DEF Findable
<1> QED BY <1>1, <1>3, <1>5 DEF m

(* tlsf_memalign looks for a block with room for any gap, or for none.     *)
LEMMA WideRequest ==
  ASSUME NEW n \in Sizes, NEW align \in Aligns, align > 1
  PROVE  LET m == adjust_request_size(n, 1)
         IN  \/ Wide(m, align) = 0
             \/ Findable(Wide(m, align)) /\ m + align + 4 <= Wide(m, align)
<1> DEFINE m == adjust_request_size(n, 1)
           x == m + align + 4
           w == Wide(m, align)
<1>1. m \in Nat /\ 3 <= m /\ m < MAX_SIZE /\ align \in Nat \ {0}
  BY Request, SizesAssumption
<1>2. mapping_search(w)[1] \in FlIndex
  BY SizesAssumption
<1> HIDE DEF m
<1>3. w = IF x < MAX_SIZE THEN Most(AlignUp(x, align), 3) ELSE 0
  BY <1>1 DEF Wide, HEADER, adjust_request_size, MIN_SIZE
<1>4. x \in Nat /\ x >= 8 /\ align < x
  BY <1>1
<1> HIDE DEF x, w
<1>5. CASE x < MAX_SIZE
  <2> DEFINE y == AlignUp(x, align)
  <2>1. y \in Nat /\ x <= y /\ y < x + align
    BY <1>1, <1>4, Multiples
  <2>2. w = Most(y, 3)
    BY <1>3, <1>5
  <2> HIDE DEF y
  <2>3. w = y /\ y < Pow2(30) /\ 1 <= y
    BY <1>1, <1>4, <1>5, <2>1, <2>2, SizeConstants DEF Most
  <2> QED BY <1>2, <2>1, <2>3 DEF Findable, x, m, w
<1>6. CASE ~(x < MAX_SIZE)
  BY <1>3, <1>6 DEF w, m
<1> QED BY <1>5, <1>6

--------------------------------------------------------------------------------
(* The calls.  A block b of size n at least is handed out.                 *)
Gives(g, h, b, n) ==
  /\ HeapOK(g, {}) /\ b \notin Used(h) /\ Used(g) = Used(h) \cup {b} /\ g.blk[b].size >= n
  /\ \A c \in Used(h) : g.blk[c].size = h.blk[c].size
NoneFor(h, n) == \A b \in FreeBlocks(h) : h.blk[b].size < Rounded(n)

(* A block just taken from its list has no free neighbours.                *)
LEMMA Alone ==
  ASSUME NEW h, HeapOK(h, {}), NEW g, g.blk = h.blk, NEW b \in FreeBlocks(h)
  PROVE  ~FreeAfter(g, b) /\ ~FreeBefore(g, b) /\ Same(g, h)
<1>1. /\ FreeBlocks(g) = FreeBlocks(h) /\ Used(g) = Used(h) /\ \A c : block_next(g, c) = block_next(h, c)
  BY SameBlocks
<1>2. \A c \in FreeBlocks(h) : block_next(h, c) \notin FreeBlocks(h)
  BY DEF HeapOK, Apart
<1> QED BY <1>1, <1>2 DEF FreeAfter, FreeBefore, Same

(* tlsf_malloc hands out one block more, or no block is large enough.      *)
LEMMA MallocOK ==
  ASSUME NEW h, HeapOK(h, {}), NEW n \in Sizes
  PROVE  LET l == tlsf_malloc(h, n)
         IN  \/ l.p = Null /\ l.h = h /\ NoneFor(h, adjust_request_size(n, 1))
             \/ \E b : l.p = b + 2 /\ Gives(l.h, h, b, n)
<1> DEFINE m     == adjust_request_size(n, 1)
           found == block_locate_free(h, m)
           g     == found.h
           b     == found.b
           l     == tlsf_malloc(h, n)
<1>1. n \in Nat /\ m \in Nat /\ 3 <= m /\ n <= m /\ Findable(m)
  BY Request
<1>2. l = block_prepare_used(g, b, m)
  BY DEF tlsf_malloc
<1> HIDE DEF m, l
<1>3. \/ found = [h |-> h, b |-> Null] /\ NoneFor(h, m)
      \/ /\ b \in FreeBlocks(h) /\ h.blk[b].size >= m
         /\ HeapOK(g, {b}) /\ g.blk = h.blk
  <2>1. \/ found = [h |-> h, b |-> Null] /\ \A c \in FreeBlocks(h) : h.blk[c].size < Rounded(m)
        \/ /\ found.b \in FreeBlocks(h) /\ h.blk[found.b].size >= m
           /\ HeapOK(found.h, {found.b}) /\ found.h.blk = h.blk
    BY <1>1, Locating
  <2> QED BY <2>1 DEF NoneFor
<1>4. CASE found = [h |-> h, b |-> Null] /\ NoneFor(h, m)
  <2>1. g = h /\ b = Null
    BY <1>4
  <2> HIDE DEF g, b
  <2>2. l = [h |-> h, p |-> Null]
    BY <1>2, <2>1 DEF block_prepare_used
  <2> QED BY <1>4, <2>2 DEF l, m
<1> HIDE DEF g, b, found
<1>5. CASE b \in FreeBlocks(h) /\ h.blk[b].size >= m /\ HeapOK(g, {b}) /\ g.blk = h.blk
  <2>1. ~FreeAfter(g, b) /\ Same(g, h)
    BY <1>5, Alone
  <2>2. /\ l.p = b + 2 /\ b \notin Used(g)
        /\ HeapOK(l.h, {}) /\ Used(l.h) = Used(g) \cup {b} /\ l.h.blk[b].size >= m
        /\ \A c \in Used(g) : l.h.blk[c].size = g.blk[c].size
    <3>1. m \in Int /\ 3 <= m /\ m <= g.blk[b].size
      <4>1. h.blk[b].size \in Nat
        BY <1>5, InHand
      <4> QED BY <1>1, <1>5, <4>1
    <3> QED BY <1>2, <1>5, <2>1, <3>1, Prepare
  <2>3. l.h.blk[b].size >= n
    <3>1. l.h.blk[b].size \in Nat
      <4>1. Tiles(l.h) /\ b \in DOMAIN l.h.blk
        BY <2>2 DEF HeapOK, Used
      <4> QED BY <4>1, TilesFacts
    <3> QED BY <1>1, <2>2, <3>1
  <2>4. Gives(l.h, h, b, n)
    BY <1>5, <2>1, <2>2, <2>3 DEF Gives, Same
  <2> QED BY <2>2, <2>4 DEF l
<1> QED BY <1>3, <1>4, <1>5 DEF g, b

(* tlsf_memalign hands out an aligned block, or leaves the heap as it is.  *)
LEMMA MemalignOK ==
  ASSUME NEW h, HeapOK(h, {}), NEW n \in Sizes, NEW align \in Aligns
  PROVE  LET l == tlsf_memalign(h, align, n)
         IN  \/ l.p = Null /\ l.h = h
             \/ \E b : l.p = b + 2 /\ Gives(l.h, h, b, n) /\ (b + 2) % align = 0
<1> DEFINE m     == adjust_request_size(n, 1)
           w     == Wide(m, align)
           found == block_locate_free(h, w)
           g     == found.h
           b     == found.b
           gap   == Gap(ToPtr(b), align)
           lead  == IF b # Null /\ gap > 0 THEN block_trim_free_leading(g, b, gap) ELSE found
           l     == tlsf_memalign(h, align, n)
<1>1. n \in Nat /\ m \in Nat /\ 3 <= m /\ n <= m /\ Findable(m) /\ align \in Nat \ {0}
  BY Request, SizesAssumption
<1>2. l = block_prepare_used(lead.h, lead.b, m)
  BY DEF tlsf_memalign
<1>3. w = 0 \/ (Findable(w) /\ m <= w /\ (align # 1 => m + align + 4 <= w))
  <2>1. CASE align = 1
    <3>1. w = m
      BY <1>1, <2>1 DEF Wide
    <3> HIDE DEF w, m
    <3> QED BY <1>1, <2>1, <3>1
  <2>2. CASE align # 1
    <3>1. align > 1
      BY <1>1, <2>2
    <3>2. w = 0 \/ (Findable(w) /\ m + align + 4 <= w)
      BY <3>1, WideRequest
    <3>3. Findable(w) => w \in Nat
      BY DEF Findable
    <3> HIDE DEF w, m
    <3> QED BY <1>1, <3>2, <3>3
  <2> QED BY <2>1, <2>2
<1> HIDE DEF m, l, w
<1>4. \/ found = [h |-> h, b |-> Null]
      \/ /\ Findable(w) /\ found = [h |-> g, b |-> b]
         /\ b \in FreeBlocks(h) /\ b # Null /\ h.blk[b].size >= w
         /\ HeapOK(g, {b}) /\ g.blk = h.blk
  <2>1. CASE w = 0
    BY <2>1 DEF block_locate_free, Locate
  <2>2. CASE w # 0
    <3>1. Findable(w)
      BY <1>3, <2>2
    <3>2. \/ found = [h |-> h, b |-> Null]
          \/ /\ found = [h |-> found.h, b |-> found.b]
             /\ found.b \in FreeBlocks(h) /\ found.b # Null /\ h.blk[found.b].size >= w
             /\ HeapOK(found.h, {found.b}) /\ found.h.blk = h.blk
      BY <3>1, Locating
    <3> QED BY <3>1, <3>2
  <2> QED BY <2>1, <2>2
<1>5. CASE found = [h |-> h, b |-> Null]
  <2>1. lead = [h |-> h, b |-> Null]
    BY <1>5
  <2>2. lead.h = h /\ lead.b = Null
    BY <2>1
  <2> HIDE DEF lead
  <2>3. l = [h |-> h, p |-> Null]
    BY <1>2, <2>2 DEF block_prepare_used
  <2> QED BY <2>3 DEF l
<1> HIDE DEF g, b
<1>6. CASE /\ Findable(w) /\ found = [h |-> g, b |-> b]
           /\ b \in FreeBlocks(h) /\ b # Null /\ h.blk[b].size >= w
           /\ HeapOK(g, {b}) /\ g.blk = h.blk
  <2>1. ~FreeAfter(g, b) /\ ~FreeBefore(g, b) /\ Same(g, h)
    BY <1>6, Alone
  <2>2. /\ b \in Int /\ b >= -1 /\ g.blk[b].size \in Nat /\ ToPtr(b) = b + 2 /\ w \in Nat
        /\ g.blk[b].size >= w
    BY <1>6, InHand DEF ToPtr, START, Findable
  <2>3. /\ gap \in Nat /\ (gap = 0 \/ 4 <= gap) /\ gap <= align + 3 /\ (align = 1 => gap = 0)
        /\ ((b + 2) + gap) % align = 0
    <3> DEFINE p == ToPtr(b)
    <3>1. p \in Nat /\ p = b + 2
      BY <2>2
    <3> HIDE DEF p
    <3>2. /\ Gap(p, align) \in Nat /\ (Gap(p, align) = 0 \/ 4 <= Gap(p, align))
          /\ Gap(p, align) <= align + 3 /\ (align = 1 => Gap(p, align) = 0)
          /\ (p + Gap(p, align)) % align = 0
      BY <1>1, <3>1, GapSize
    <3> QED BY <3>1, <3>2 DEF p
  <2> HIDE DEF gap
  <2> DEFINE r == b + gap
  <2>4. /\ lead.b = r /\ HeapOK(lead.h, {lead.b}) /\ ~FreeAfter(lead.h, lead.b) /\ Same(lead.h, h)
        /\ lead.h.blk[lead.b].size >= m
    <3>1. CASE gap = 0
      <4>1. lead = found /\ r = b
        BY <2>2, <2>3, <3>1
      <4>2. lead.h = g /\ lead.b = b
        BY <1>6, <4>1
      <4>3. w # 0
        BY <1>6 DEF Findable
      <4> HIDE DEF lead, r
      <4>4. g.blk[b].size >= m
        BY <1>1, <1>3, <2>2, <4>3
      <4> QED BY <1>6, <2>1, <4>1, <4>2, <4>4
    <3>2. CASE gap # 0
      <4>1. lead = block_trim_free_leading(g, b, gap)
        BY <1>6, <2>3, <3>2
      <4> HIDE DEF lead
      <4>2. w # 0 /\ align # 1
        BY <1>6, <2>3, <3>2 DEF Findable
      <4>3. gap \in Int /\ 4 <= gap /\ gap + 4 <= g.blk[b].size /\ g.blk[b].size - gap >= m
        BY <1>1, <1>3, <2>2, <2>3, <3>2, <4>2
      <4>4. /\ lead.b = r /\ HeapOK(lead.h, {lead.b}) /\ ~FreeAfter(lead.h, lead.b) /\ Same(lead.h, g)
            /\ lead.h.blk[lead.b].size = g.blk[b].size - gap
        <5>1. HeapOK(g, {b}) /\ ~FreeAfter(g, b) /\ ~FreeBefore(g, b) /\ gap \in Int /\ 4 <= gap
              /\ gap + 4 <= g.blk[b].size
          BY <1>6, <2>1, <4>3
        <5>2. Led(block_trim_free_leading(g, b, gap), g, b, gap)
          <6> HIDE <1>6
          <6> QED BY <5>1, TrimLeading
        <5>3. Led(lead, g, b, gap)
          BY <4>1, <5>2
        <5> QED BY <5>3 DEF Led, r
      <4>5. Same(lead.h, h)
        BY <2>1, <4>4 DEF Same
      <4> QED BY <4>3, <4>4, <4>5
    <3> QED BY <3>1, <3>2
  <2>5. r \in Int /\ r + 2 = (b + 2) + gap
    BY <2>2, <2>3
  <2> HIDE DEF lead, r
  <2> DEFINE f == lead.h
             c == lead.b
  <2>6. HeapOK(f, {c}) /\ ~FreeAfter(f, c) /\ Same(f, h) /\ m <= f.blk[c].size /\ c = r
    <3>1. f.blk[c].size \in Nat
      <4>1. c \in FreeBlocks(f)
        BY <2>4 DEF HeapOK
      <4> QED BY <2>4, <4>1, InHand
    <3> QED BY <1>1, <2>4, <3>1
  <2>7. l = block_prepare_used(f, c, m)
    BY <1>2
  <2> HIDE DEF f, c
  <2>8. /\ l.p = c + 2 /\ c \notin Used(f)
        /\ HeapOK(l.h, {}) /\ Used(l.h) = Used(f) \cup {c} /\ l.h.blk[c].size >= m
        /\ \A d \in Used(f) : l.h.blk[d].size = f.blk[d].size
    <3>1. m \in Int
      BY <1>1
    <3> QED BY <1>1, <2>6, <2>7, <3>1, Prepare
  <2>9. l.h.blk[c].size >= n
    <3>1. l.h.blk[c].size \in Nat
      <4>1. Tiles(l.h) /\ c \in DOMAIN l.h.blk
        BY <2>8 DEF HeapOK, Used
      <4> QED BY <4>1, TilesFacts
    <3> QED BY <1>1, <2>8, <3>1
  <2>10. Gives(l.h, h, c, n)
    BY <2>6, <2>8, <2>9 DEF Gives, Same
  <2>11. (c + 2) % align = 0
    BY <2>3, <2>5, <2>6
  <2> QED BY <2>8, <2>10, <2>11 DEF l
<1> QED BY <1>4, <1>5, <1>6

(* tlsf_free: the block in use joins its free neighbours and is listed.    *)
Frees(g, h, b) ==
  /\ HeapOK(g, {}) /\ Used(g) = Used(h) \ {b}
  /\ \A c \in Used(h) \ {b} : g.blk[c].size = h.blk[c].size

(* After tlsf_free one block less is in use.                               *)
LEMMA FreeOK ==
  ASSUME NEW h, HeapOK(h, {}), NEW b \in Used(h)
  PROVE  Frees(tlsf_free(h, b + 2), h, b)
<1> DEFINE f == block_mark_as_free(h, b)
           k == block_merge_prev(f, b)
           g == block_merge_next(k.h, k.b)
           l == block_insert(g, k.b)
<1>1. FromPtr(b + 2) = b
  <2>1. b \in Int
    BY TilesFacts DEF HeapOK, Used
  <2> QED BY <2>1 DEF FromPtr, START
<1>2. tlsf_free(h, b + 2) = l
  BY <1>1 DEF tlsf_free
<1>3. /\ HeapOK(f, {b}) /\ Used(f) = Used(h) \ {b}
      /\ \A c \in Used(h) : f.blk[c].size = h.blk[c].size
  <2> DEFINE S == {}
  <2>1. HeapOK(h, S) /\ S \cup {b} = {b}
    OBVIOUS
  <2> HIDE DEF S, f
  <2>2. /\ HeapOK(f, S \cup {b}) /\ Used(f) = Used(h) \ {b}
        /\ \A c \in DOMAIN h.blk : f.blk[c].size = h.blk[c].size
    BY <2>1, MarkFree DEF f
  <2>3. Used(h) \subseteq DOMAIN h.blk
    BY DEF Used
  <2> QED BY <2>1, <2>2, <2>3
<1> HIDE DEF f
<1>4. HeapOK(k.h, {k.b}) /\ ~FreeBefore(k.h, k.b) /\ Same(k.h, f)
  BY <1>3, MergePrev
<1> HIDE DEF k
<1>5. HeapOK(g, {k.b}) /\ ~FreeAfter(g, k.b) /\ ~FreeBefore(g, k.b) /\ Same(g, k.h)
  BY <1>4, MergeNext
<1> HIDE DEF g
<1>6. HeapOK(l, {}) /\ Same(l, g)
  BY <1>5, PutBack
<1> HIDE DEF l
<1>7. Frees(l, h, b)
  BY <1>3, <1>4, <1>5, <1>6 DEF Same, Frees
<1> QED BY <1>2, <1>7

(* block_trim_used: what a used block has too much joins the free block    *)
(* behind it.                                                              *)
LEMMA TrimUsed ==
  ASSUME NEW h, HeapOK(h, {}), NEW b \in Used(h), NEW size \in Int, 3 <= size, size <= h.blk[b].size
  PROVE  LET g == block_trim_used(h, b, size)
         IN  /\ HeapOK(g, {}) /\ Used(g) = Used(h) /\ g.blk[b].size >= size
             /\ \A c \in Used(h) \ {b} : g.blk[c].size = h.blk[c].size
<1>1. Tiles(h) /\ b \in DOMAIN h.blk /\ b # LAST /\ b \in Int /\ h.blk[b].size \in Nat /\ b \notin FreeBlocks(h)
  <2>1. Tiles(h) /\ b \in DOMAIN h.blk /\ b # LAST
    BY DEF HeapOK, Used
  <2> QED BY <2>1, TilesFacts DEF Used, FreeBlocks
<1>2. CASE ~can_split(h, b, size)
  BY <1>1, <1>2 DEF block_trim_used
<1>3. CASE can_split(h, b, size)
  <2> DEFINE r == b + 1 + size
             s == block_split(h, b, size)
             f == block_merge_next(s, r)
             g == block_insert(f, r)
  <2>1. CanCut(h, b, size, r)
    BY <1>1, <1>3 DEF CanCut, can_split, HEADER
  <2>2. Rest(b, size) = r
    BY <1>1 DEF Rest, START, OVERHEAD
  <2>3. block_trim_used(h, b, size) = g
    BY <1>3, <2>2 DEF block_trim_used
  <2> HIDE DEF r
  <2>4. /\ HeapOK(s, {r}) /\ Used(s) = Used(h) /\ FreeBlocks(s) = FreeBlocks(h) \cup {r}
        /\ r \notin DOMAIN h.blk /\ block_next(s, b) = r
        /\ s.blk[b].size = size
        /\ \A c \in DOMAIN h.blk \ {b} : s.blk[c].size = h.blk[c].size
    <3> DEFINE S == {}
    <3>1. HeapOK(h, S) /\ S \cup {r} = {r}
      OBVIOUS
    <3> HIDE DEF S, s
    <3>2. s = block_split(h, b, size)
      BY DEF s
    <3>3. /\ HeapOK(s, S \cup {r}) /\ Used(s) = Used(h) /\ FreeBlocks(s) = FreeBlocks(h) \cup {r}
          /\ r \notin DOMAIN h.blk /\ block_next(s, b) = r
          /\ s.blk[b].size = size
          /\ \A c \in DOMAIN h.blk \ {b} : s.blk[c].size = h.blk[c].size
      <4>1. HeapOK(h, S) /\ b \in Used(h) /\ CanCut(h, b, size, r) /\ s = block_split(h, b, size)
        BY <2>1, <3>1, <3>2
      <4> QED BY ONLY <4>1, SplitUsed
    <3> QED BY <3>1, <3>3
  <2> HIDE DEF s
  <2>5. ~FreeBefore(s, r)
    <3> SUFFICES ASSUME NEW c \in FreeBlocks(s), block_next(s, c) = r PROVE FALSE
      BY DEF FreeBefore
    <3>1. Tiles(s) /\ c \in DOMAIN s.blk /\ c # LAST /\ c \notin Used(s)
      BY <2>4, InHand
    <3>2. b \in DOMAIN s.blk \ {LAST} /\ b # c
      BY <2>4, <3>1 DEF Used
    <3> QED BY <2>4, <3>1, <3>2, NextOrder
  <2>6. HeapOK(f, {r}) /\ ~FreeAfter(f, r) /\ ~FreeBefore(f, r) /\ Same(f, s)
    BY <2>4, <2>5, MergeNext
  <2> HIDE DEF f
  <2>7. HeapOK(g, {}) /\ Same(g, f)
    BY <2>6, PutBack
  <2> HIDE DEF g
  <2>8. /\ HeapOK(g, {}) /\ Used(g) = Used(h) /\ g.blk[b].size = size
        /\ \A c \in Used(h) \ {b} : g.blk[c].size = h.blk[c].size
    <3>1. Used(h) \subseteq DOMAIN h.blk
      BY DEF Used
    <3> QED BY <2>4, <2>6, <2>7, <3>1 DEF Same
  <2> QED BY <2>3, <2>8
<1> QED BY <1>2, <1>3

(* block_merge_next and block_mark_as_used for a block in use.             *)
LEMMA GrowOK ==
  ASSUME NEW h, HeapOK(h, {}), NEW b \in Used(h), h.blk[block_next(h, b)].free
  PROVE  LET g == block_mark_as_used(block_merge_next(h, b), b)
         IN  /\ HeapOK(g, {}) /\ Used(g) = Used(h)
             /\ g.blk[b].size = h.blk[b].size + h.blk[block_next(h, b)].size + 1
             /\ \A c \in Used(h) \ {b} : g.blk[c].size = h.blk[c].size
<1> DEFINE c == block_next(h, b)
           f == block_remove(h, c)
           g == block_mark_as_used(block_absorb(f, b, c), b)
<1>1. c \in FreeBlocks(h)
  <2>1. Tiles(h) /\ b \in DOMAIN h.blk /\ b # LAST
    BY DEF HeapOK, Used
  <2> QED BY <2>1 DEF FreeBlocks, Tiles
<1>2. block_mark_as_used(block_merge_next(h, b), b) = g
  BY DEF block_merge_next
<1>3. c = block_next(h, b)
  OBVIOUS
<1> HIDE DEF c
<1>4. HeapOK(f, {c}) /\ f.blk = h.blk
  <2> DEFINE S == {}
  <2>1. HeapOK(h, S) /\ S \cup {c} = {c} /\ c \in FreeBlocks(h) \ S /\ f = remove_free_block(h, c, ListOf(h, c))
    BY <1>1 DEF block_remove, ListOf
  <2> HIDE DEF S, f
  <2>2. HeapOK(f, S \cup {c}) /\ f.blk = h.blk
    BY ONLY <2>1, TakeOut
  <2> QED BY <2>1, <2>2
<1> HIDE DEF f
<1>5. Used(f) = Used(h) /\ block_next(f, b) = c
  BY <1>3, <1>4, SameBlocks
<1>6. HeapOK(g, {}) /\ Used(g) = Used(f) /\ IsJoin(g, f, b, c)
  <2> DEFINE S == {c}
  <2>1. HeapOK(f, S) /\ b \in Used(f) /\ c \in S /\ block_next(f, b) = c /\ S \ {c} = {}
    BY <1>4, <1>5
  <2> HIDE DEF S
  <2>2. g = block_mark_as_used(block_absorb(f, b, c), b)
    OBVIOUS
  <2> HIDE DEF g
  <2>3. HeapOK(g, S \ {c}) /\ Used(g) = Used(f) /\ IsJoin(g, f, b, c)
    BY ONLY <2>1, <2>2, GrowUsed
  <2> QED BY <2>1, <2>3
<1> HIDE DEF g
<1>7. Used(h) \subseteq DOMAIN h.blk /\ c \notin Used(h)
  BY <1>1 DEF Used, FreeBlocks
<1>8. /\ g.blk[b].size = h.blk[b].size + h.blk[c].size + 1
      /\ \A d \in Used(h) \ {b} : g.blk[d].size = h.blk[d].size
  BY <1>4, <1>6, <1>7 DEF IsJoin
<1> QED BY <1>2, <1>3, <1>5, <1>6, <1>8

(* tlsf_realloc: the block b is q now.                                     *)
Moves(g, h, b, q, n) ==
  /\ HeapOK(g, {}) /\ q \notin Used(h) \ {b} /\ Used(g) = (Used(h) \ {b}) \cup {q} /\ g.blk[q].size >= n
  /\ \A c \in Used(h) \ {b} : g.blk[c].size = h.blk[c].size

(* tlsf_realloc keeps or moves one block, or leaves the heap as it is.     *)
LEMMA ReallocOK ==
  ASSUME NEW h, HeapOK(h, {}), NEW b \in Used(h), NEW n \in Sizes
  PROVE  LET l == tlsf_realloc(h, b + 2, n)
         IN  \/ l.p = Null /\ l.h = h
             \/ \E q : l.p = q + 2 /\ Moves(l.h, h, b, q, n)
<1> DEFINE m     == adjust_request_size(n, 1)
           next  == h.blk[block_next(h, b)]
           moved == tlsf_malloc(h, n)
           grown == IF m > h.blk[b].size THEN block_mark_as_used(block_merge_next(h, b), b) ELSE h
           far   == m > h.blk[b].size /\ (~next.free \/ m > h.blk[b].size + next.size + OVERHEAD)
           l     == tlsf_realloc(h, b + 2, n)
<1>1. n \in Nat /\ m \in Nat /\ 3 <= m /\ n <= m
  BY Request
<1>2. b \in Int /\ Tiles(h) /\ b \in DOMAIN h.blk /\ h.blk[b].size \in Nat /\ next.size \in Nat
  <2>1. Tiles(h) /\ b \in DOMAIN h.blk /\ b # LAST
    BY DEF HeapOK, Used
  <2>2. block_next(h, b) \in DOMAIN h.blk
    BY <2>1 DEF Tiles
  <2> QED BY <2>1, <2>2, TilesFacts
<1>3. l = IF far
          THEN IF moved.p = Null THEN moved ELSE [h |-> tlsf_free(moved.h, b + 2), p |-> moved.p]
          ELSE [h |-> block_trim_used(grown, b, m), p |-> b + 2]
  <2>1. FromPtr(b + 2) = b
    BY <1>2 DEF FromPtr, START
  <2> QED BY <2>1 DEF tlsf_realloc
<1>4. CASE far
  <2>1. \/ moved.p = Null /\ moved.h = h
        \/ \E q : moved.p = q + 2 /\ Gives(moved.h, h, q, n)
    BY MallocOK
  <2>2. CASE moved.p = Null /\ moved.h = h
    <3>1. l = moved
      BY <1>3, <1>4, <2>2
    <3> QED BY <2>2, <3>1
  <2>3. ASSUME NEW q, moved.p = q + 2, Gives(moved.h, h, q, n)
        PROVE  l.p = q + 2 /\ Moves(l.h, h, b, q, n)
    <3> DEFINE f == moved.h
               g == tlsf_free(f, b + 2)
    <3>1. /\ HeapOK(f, {}) /\ q \notin Used(h) /\ Used(f) = Used(h) \cup {q} /\ f.blk[q].size >= n
          /\ \A c \in Used(h) : f.blk[c].size = h.blk[c].size
      BY <2>3 DEF Gives
    <3>2. q + 2 # Null
      <4>1. Tiles(f) /\ q \in DOMAIN f.blk
        BY <3>1 DEF HeapOK, Used
      <4>2. q \in Int /\ q \in -1 .. LAST /\ LAST \in Int
        BY <4>1, TilesFacts, PoolConstants
      <4> QED BY <4>2 DEF Null
    <3>3. l.h = g /\ l.p = q + 2
      BY <1>3, <1>4, <2>3, <3>2
    <3>4. Frees(g, f, b)
      <4>1. b \in Used(f)
        BY <3>1
      <4> HIDE DEF f
      <4> QED BY <3>1, <4>1, FreeOK
    <3> HIDE DEF f, g, l
    <3>5. Moves(g, h, b, q, n)
      BY <3>1, <3>4 DEF Frees, Moves
    <3> QED BY <3>3, <3>5
  <2> HIDE DEF l, moved
  <2> QED BY <2>1, <2>2, <2>3 DEF l
<1>5. CASE ~far
  <2> DEFINE g == block_trim_used(grown, b, m)
  <2>1. l.h = g /\ l.p = b + 2
    BY <1>3, <1>5
  <2>2. /\ HeapOK(grown, {}) /\ Used(grown) = Used(h) /\ m <= grown.blk[b].size
        /\ \A c \in Used(h) \ {b} : grown.blk[c].size = h.blk[c].size
    <3>1. CASE m > h.blk[b].size
      <4>1. next.free /\ m <= h.blk[b].size + next.size + 1
        BY <1>1, <1>2, <1>5, <3>1 DEF OVERHEAD
      <4>2. grown = block_mark_as_used(block_merge_next(h, b), b)
        BY <3>1
      <4> HIDE DEF grown
      <4> QED BY <4>1, <4>2, GrowOK
    <3>2. CASE ~(m > h.blk[b].size)
      BY <1>1, <1>2, <3>2
    <3> QED BY <3>1, <3>2
  <2> HIDE DEF l, m, grown
  <2>3. /\ HeapOK(g, {}) /\ Used(g) = Used(grown) /\ g.blk[b].size >= m
        /\ \A c \in Used(grown) \ {b} : g.blk[c].size = grown.blk[c].size
    <3>1. m \in Int
      BY <1>1
    <3> QED BY <1>1, <2>2, <3>1, TrimUsed
  <2> HIDE DEF g
  <2>4. g.blk[b].size >= n
    <3>1. Tiles(g) /\ b \in DOMAIN g.blk
      BY <2>2, <2>3 DEF HeapOK, Used
    <3>2. g.blk[b].size \in Nat
      BY <3>1, TilesFacts
    <3> QED BY <1>1, <2>3, <3>2
  <2>5. Moves(g, h, b, b, n)
    BY <2>2, <2>3, <2>4 DEF Moves
  <2> QED BY <2>1, <2>5 DEF l
<1> QED BY <1>4, <1>5 DEF l

(* tlsf_add_pool: one free block, listed, and the sentinel.                *)
LEMMA PoolOK ==
  LET h == tlsf_add_pool(control_construct)
  IN  HeapOK(h, {}) /\ Used(h) = {} /\ IsHeap(h)
<1> DEFINE size == PoolWords - 2 * OVERHEAD
           last == FirstBlock + START + size - OVERHEAD
           F == [x \in {FirstBlock, last} |->
                   IF x = last THEN [size |-> 0, free |-> FALSE, prevfree |-> TRUE, prev |-> FirstBlock]
                   ELSE [size |-> size, free |-> TRUE, prevfree |-> FALSE, prev |-> Null]]
           f == [control_construct EXCEPT !.blk = F]
           g == block_insert(f, FirstBlock)
<1>1. tlsf_add_pool(control_construct) = g
  BY DEF tlsf_add_pool
<1>2. size \in Nat /\ size >= 3 /\ last = LAST /\ size + 2 = PoolWords
  BY TlsfAssumption DEF OVERHEAD, START, FirstBlock, LAST
<1>3. FirstBlock = -1 /\ LAST \in Nat /\ LAST >= 3 /\ FirstBlock # LAST /\ size = LAST
  BY <1>2, PoolConstants DEF LAST, START
<1> HIDE DEF size, last
<1>4. /\ f = [blk |-> F, blocks |-> [at \in Lists |-> <<>>], fl_bitmap |-> {}, sl_bitmap |-> [i \in FlIndex |-> {}]]
  <2> DEFINE ls == [at \in Lists |-> <<>>]
             sl == [i \in FlIndex |-> {}]
             e  == <<>>
             k  == control_construct
  <2>1. k = [blk |-> e, blocks |-> ls, fl_bitmap |-> {}, sl_bitmap |-> sl]
    BY DEF control_construct, Lists
  <2>2. f = [k EXCEPT !.blk = F]
    OBVIOUS
  <2> HIDE DEF ls, sl, F, e, k, f
  <2>3. f = [blk |-> F, blocks |-> ls, fl_bitmap |-> {}, sl_bitmap |-> sl]
    BY <2>1, <2>2
  <2> QED BY <2>3 DEF ls, sl
<1>5. /\ DOMAIN F = {FirstBlock, LAST}
      /\ F[FirstBlock] = [size |-> size, free |-> TRUE, prevfree |-> FALSE, prev |-> Null]
      /\ F[LAST] = [size |-> 0, free |-> FALSE, prevfree |-> TRUE, prev |-> FirstBlock]
  BY <1>2, <1>3
<1>6. F \in [{FirstBlock, LAST} -> Header]
  <2>1. F[FirstBlock] \in Header /\ F[LAST] \in Header
    BY <1>2, <1>3, <1>5 DEF Header, Null
  <2>2. F = [x \in DOMAIN F |-> F[x]]
    OBVIOUS
  <2> HIDE DEF F
  <2> QED BY <1>5, <2>1, <2>2
<1> HIDE DEF F, f
<1>7. f.blk = F /\ f.blocks = [at \in Lists |-> <<>>] /\ f.fl_bitmap = {} /\ f.sl_bitmap = [i \in FlIndex |-> {}]
      /\ IsHeap(f)
  BY <1>4 DEF IsHeap
<1>8. block_next(f, FirstBlock) = LAST
  BY <1>2, <1>3, <1>5, <1>7 DEF block_next, START, OVERHEAD, LAST
<1>9. Tiles(f)
  <2>1. DOMAIN F \subseteq FirstBlock .. LAST
    BY <1>3, <1>5
  <2>2. \A b \in DOMAIN F \ {LAST} : b = FirstBlock
    BY <1>5
  <2>3. F[FirstBlock].size >= MIN_SIZE /\ F[LAST].size = 0
    BY <1>2, <1>5 DEF MIN_SIZE
  <2>4. \A c \in DOMAIN F : FirstBlock < c => LAST <= c
    BY <1>3, <1>5
  <2>5. \A c \in DOMAIN F \ {FirstBlock} : c = LAST
    BY <1>5
  <2> QED BY <1>3, <1>5, <1>6, <1>7, <1>8, <2>1, <2>2, <2>3, <2>4, <2>5 DEF Tiles
<1>10. Flags(f)
  <2>1. \A b \in DOMAIN F \ {LAST} : b = FirstBlock
    BY <1>5
  <2>2. ~F[LAST].free /\ ~F[FirstBlock].prevfree
    BY <1>5
  <2>3. F[LAST].prevfree = TRUE /\ F[FirstBlock].free = TRUE /\ F[LAST].prev = FirstBlock
    BY <1>5
  <2> QED BY <1>7, <1>8, <2>1, <2>2, <2>3 DEF Flags
<1>11. FreeBlocks(f) = {FirstBlock} /\ Used(f) = {}
  BY <1>3, <1>5, <1>7 DEF FreeBlocks, Used
<1>12. Apart(f, {FirstBlock})
  BY <1>11 DEF Apart
<1>13. Listed(f, {})
  <2>1. /\ f.blocks \in [Lists -> Seq(Int)] /\ f.sl_bitmap \in [FlIndex -> SUBSET SlIndex]
        /\ f.fl_bitmap = {i \in FlIndex : f.sl_bitmap[i] # {}}
    BY <1>7
  <2>2. \A i \in FlIndex, j \in SlIndex : j \in f.sl_bitmap[i] <=> f.blocks[<<i, j>>] # <<>>
    BY <1>7 DEF Lists
  <2>3. \A at \in Lists : NoDuplicates(f.blocks[at]) /\ Range(f.blocks[at]) = {}
    <3>1. NoDuplicates(<<>>) /\ Range(<<>>) = {}
      BY DEF NoDuplicates, Range
    <3> QED BY <1>7, <3>1
  <2> QED BY <2>1, <2>2, <2>3 DEF Listed
<1>14. HeapOK(f, {FirstBlock})
  BY <1>7, <1>9, <1>10, <1>11, <1>12, <1>13 DEF HeapOK
<1>15. ~FreeAfter(f, FirstBlock) /\ ~FreeBefore(f, FirstBlock)
  BY <1>3, <1>8, <1>11 DEF FreeAfter, FreeBefore
<1>16. HeapOK(g, {}) /\ Same(g, f)
  BY <1>14, <1>15, PutBack
<1> HIDE DEF g
<1> QED BY <1>1, <1>11, <1>16 DEF Same, HeapOK

--------------------------------------------------------------------------------
(***************************************************************************)
(* The invariant: the heap is whole between the calls, and the callers     *)
(* hold exactly the blocks in use, each large enough.                      *)
(***************************************************************************)
Owns(U, h, f) ==
  /\ f = [p \in DOMAIN f |-> f[p]] /\ DOMAIN f = {b + 2 : b \in U}
  /\ \A b \in U : f[b + 2] \in Sizes /\ f[b + 2] <= h.blk[b].size
IInv ==
  /\ HeapOK(kheap, {}) /\ Owns(Used(kheap), kheap, live)
  /\ asked \in {1} \cup Aligns /\ refused \in {0} \cup Sizes
  /\ refused > 0 => NoneFor(kheap, adjust_request_size(refused, 1))

(* What is known of a block in use.                                        *)
LEMMA UsedFacts ==
  ASSUME NEW h, HeapOK(h, {}), NEW b \in Used(h)
  PROVE  /\ Tiles(h) /\ b \in DOMAIN h.blk \ {LAST} /\ b \in Int /\ -1 <= b
         /\ h.blk[b].size \in Nat /\ block_next(h, b) = b + 1 + h.blk[b].size /\ block_next(h, b) <= LAST
<1>1. Tiles(h) /\ b \in DOMAIN h.blk /\ b # LAST
  BY DEF HeapOK, Used
<1>2. /\ b \in Int /\ b \in -1 .. LAST /\ LAST \in Int
      /\ h.blk[b].size \in Nat /\ block_next(h, b) = b + 1 + h.blk[b].size /\ block_next(h, b) <= LAST
  BY <1>1, TilesFacts, PoolConstants
<1>3. -1 <= b
  BY ONLY <1>2
<1> QED BY <1>1, <1>2, <1>3

(* Holders are not concerned by changes that keep the sizes of their       *)
(* blocks.                                                                 *)
LEMMA Keeps ==
  ASSUME NEW U, NEW h, NEW f, Owns(U, h, f), NEW g, \A c \in U : g.blk[c].size = h.blk[c].size
  PROVE  Owns(U, g, f)
BY DEF Owns

(* One block is given back.                                                *)
LEMMA Drops ==
  ASSUME NEW U \in SUBSET Int, NEW h, NEW f, Owns(U, h, f), NEW b \in U
  PROVE  b + 2 \in DOMAIN f /\ Owns(U \ {b}, h, [q \in DOMAIN f \ {b + 2} |-> f[q]])
<1> DEFINE g == [q \in DOMAIN f \ {b + 2} |-> f[q]]
<1>1. DOMAIN g = DOMAIN f \ {b + 2} /\ g = [p \in DOMAIN g |-> g[p]]
  OBVIOUS
<1>2. \A q \in DOMAIN f \ {b + 2} : g[q] = f[q]
  OBVIOUS
<1> HIDE DEF g
<1>3. DOMAIN f = {c + 2 : c \in U}
  BY DEF Owns
<1>4. DOMAIN g = {c + 2 : c \in U \ {b}}
  BY <1>1, <1>3
<1>5. \A c \in U \ {b} : g[c + 2] \in Sizes /\ g[c + 2] <= h.blk[c].size
  <2> SUFFICES ASSUME NEW c \in U \ {b} PROVE g[c + 2] \in Sizes /\ g[c + 2] <= h.blk[c].size
    OBVIOUS
  <2>1. c + 2 \in DOMAIN f \ {b + 2}
    BY <1>3
  <2> QED BY <1>2, <2>1 DEF Owns
<1> QED BY <1>1, <1>3, <1>4, <1>5 DEF Owns, g

(* One block more is held.                                                 *)
LEMMA Takes ==
  ASSUME NEW U \in SUBSET Int, NEW h, NEW f, Owns(U, h, f), NEW b \in Int, b \notin U,
         NEW n \in Sizes, n <= h.blk[b].size
  PROVE  b + 2 \notin DOMAIN f /\ Owns(U \cup {b}, h, Holding(f, b + 2, n))
<1> DEFINE p == b + 2
           g == Holding(f, p, n)
<1>1. DOMAIN f = {c + 2 : c \in U}
  BY DEF Owns
<1>2. p \notin DOMAIN f
  BY <1>1
<1>3. DOMAIN g = DOMAIN f \cup {p} /\ g = [q \in DOMAIN g |-> g[q]] /\ g[p] = n
      /\ \A q \in DOMAIN f : g[q] = IF q = p THEN n ELSE f[q]
  BY DEF Holding
<1> HIDE DEF g
<1>4. DOMAIN g = {c + 2 : c \in U \cup {b}}
  BY <1>1, <1>3
<1>5. \A c \in U \cup {b} : g[c + 2] \in Sizes /\ g[c + 2] <= h.blk[c].size
  <2> SUFFICES ASSUME NEW c \in U \cup {b} PROVE g[c + 2] \in Sizes /\ g[c + 2] <= h.blk[c].size
    OBVIOUS
  <2>1. CASE c = b
    BY <1>3, <2>1
  <2>2. CASE c \in U
    <3>1. c + 2 \in DOMAIN f
      BY <1>1, <2>2
    <3> QED BY <1>2, <1>3, <2>2, <3>1 DEF Owns
  <2> QED BY <2>1, <2>2
<1> QED BY <1>2, <1>3, <1>4, <1>5 DEF Owns, g

(* What one caller gets lies in the pool and apart from what others hold.  *)
LEMMA OwnedFits ==
  ASSUME NEW h, HeapOK(h, {}), NEW b \in Used(h), NEW n \in Sizes, n <= h.blk[b].size,
         NEW U, U \subseteq Used(h) \ {b}, NEW f, Owns(U, h, f)
  PROVE  H!Fits(b + 2, n, f) /\ b + 2 \in 0 .. PoolWords - 1
<1>1. n \in Nat /\ LAST = PoolWords - 2 /\ PoolWords \in Nat
  BY Request, TlsfAssumption DEF LAST, START
<1>2. /\ Tiles(h) /\ b \in DOMAIN h.blk \ {LAST} /\ b \in Int /\ -1 <= b
      /\ h.blk[b].size \in Nat /\ block_next(h, b) = b + 1 + h.blk[b].size /\ block_next(h, b) <= LAST
  BY UsedFacts
<1> DEFINE sb == h.blk[b].size
           nb == block_next(h, b)
<1>3. sb \in Nat /\ nb = b + 1 + sb /\ nb <= PoolWords - 2 /\ n <= sb /\ 1 <= n
  <2>1. 1 <= n
    BY Request
  <2> QED BY <1>1, <1>2, <2>1
<1> HIDE DEF sb, nb
<1>4. H!Region(b + 2, n) \subseteq 0 .. PoolWords - 1 /\ b + 2 \in 0 .. PoolWords - 1
  BY <1>1, <1>2, <1>3 DEF H!Region
<1>5. ASSUME NEW q \in DOMAIN f PROVE H!Region(b + 2, n) \cap H!Region(q, f[q]) = {}
  <2>1. PICK c \in U : q = c + 2
    BY DEF Owns
  <2>2. c \in Used(h) /\ c # b
    OBVIOUS
  <2>3. /\ c \in DOMAIN h.blk \ {LAST} /\ c \in Int /\ h.blk[c].size \in Nat
        /\ block_next(h, c) = c + 1 + h.blk[c].size
    BY <2>2, UsedFacts
  <2> DEFINE sc == h.blk[c].size
             nc == block_next(h, c)
             k  == f[q]
  <2>4. sc \in Nat /\ nc = c + 1 + sc /\ k \in Nat /\ k <= sc
    <3>1. f[c + 2] \in Sizes /\ f[c + 2] <= h.blk[c].size
      BY DEF Owns
    <3>2. f[c + 2] \in Nat
      BY <3>1, Request
    <3> QED BY <2>1, <2>3, <3>1, <3>2
  <2>5. (b < c => nb <= c) /\ (c < b => nc <= b)
    BY <1>2, <2>3, NextOrder DEF nb
  <2> HIDE DEF sc, nc, k
  <2>6. \A x \in H!Region(b + 2, n) : x \in Int /\ b + 2 <= x /\ x <= nb
    BY <1>1, <1>2, <1>3 DEF H!Region
  <2>7. \A x \in H!Region(q, k) : x \in Int /\ c + 2 <= x /\ x <= nc
    BY <2>1, <2>3, <2>4 DEF H!Region
  <2>8. \A x \in Int : ~(b + 2 <= x /\ x <= nb /\ c + 2 <= x /\ x <= nc)
    BY <1>2, <1>3, <2>2, <2>3, <2>4, <2>5
  <2> QED BY <2>6, <2>7, <2>8 DEF k
<1> QED BY <1>4, <1>5 DEF H!Fits

(* A block handed out goes to the caller.                                  *)
LEMMA Handed ==
  ASSUME IInv, NEW g, NEW b, NEW n \in Sizes, Gives(g, kheap, b, n)
  PROVE  /\ HeapOK(g, {}) /\ Owns(Used(g), g, Holding(live, b + 2, n))
         /\ b + 2 # Null /\ b + 2 \in (0 .. PoolWords - 1) \ DOMAIN live
         /\ H!Fits(b + 2, n, live)
<1> DEFINE U == Used(kheap)
<1>1. HeapOK(g, {}) /\ b \in Used(g) /\ b \notin U /\ Used(g) = U \cup {b} /\ g.blk[b].size >= n
      /\ \A c \in U : g.blk[c].size = kheap.blk[c].size
  BY DEF Gives
<1>2. b \in Int /\ -1 <= b /\ U \in SUBSET Int /\ g.blk[b].size \in Nat /\ n <= g.blk[b].size
  <2>1. b \in Int /\ -1 <= b /\ g.blk[b].size \in Nat
    BY <1>1, UsedFacts
  <2>2. \A c \in U : c \in Int
    BY UsedFacts DEF IInv
  <2>3. n \in Nat
    BY Request
  <2> QED BY <1>1, <2>1, <2>2, <2>3
<1>3. Owns(U, kheap, live)
  BY DEF IInv
<1> HIDE DEF U
<1>4. Owns(U, g, live)
  BY ONLY <1>1, <1>3, Keeps
<1>5. b + 2 \notin DOMAIN live /\ Owns(U \cup {b}, g, Holding(live, b + 2, n))
  BY <1>1, <1>2, <1>4, Takes
<1>6. H!Fits(b + 2, n, live) /\ b + 2 \in 0 .. PoolWords - 1
  <2>1. U \subseteq Used(g) \ {b}
    BY <1>1
  <2> QED BY <1>1, <1>2, <1>4, <2>1, OwnedFits
<1>7. b + 2 # Null
  BY <1>2 DEF Null
<1> QED BY <1>1, <1>5, <1>6, <1>7

(* Each call keeps the invariant, and is a step of the abstract allocator. *)
LEMMA MallocStep ==
  ASSUME IInv, NEW n \in Sizes, kmalloc(n)
  PROVE  IInv' /\ H!Next
<1> DEFINE r == tlsf_malloc(kheap, n)
<1>1. \/ r.p = Null /\ r.h = kheap /\ NoneFor(kheap, adjust_request_size(n, 1))
      \/ \E b : r.p = b + 2 /\ Gives(r.h, kheap, b, n)
  BY MallocOK DEF IInv
<1>2. /\ kheap' = r.h
      /\ live' = IF r.p = Null THEN live ELSE Holding(live, r.p, n)
      /\ asked' = 1
      /\ refused' = IF r.p = Null THEN n ELSE 0
  BY DEF kmalloc
<1> HIDE DEF r
<1>3. CASE r.p = Null /\ r.h = kheap /\ NoneFor(kheap, adjust_request_size(n, 1))
  <2>1. kheap' = kheap /\ live' = live /\ asked' = 1 /\ refused' = n
    BY <1>2, <1>3
  <2>2. IInv'
    BY <1>3, <2>1 DEF IInv
  <2>3. H!Refuse
    BY <2>1 DEF H!Refuse
  <2> QED BY <2>2, <2>3 DEF H!Next
<1>4. ASSUME NEW b, r.p = b + 2, Gives(r.h, kheap, b, n) PROVE IInv' /\ H!Next
  <2>1. /\ HeapOK(r.h, {}) /\ Owns(Used(r.h), r.h, Holding(live, b + 2, n))
        /\ b + 2 # Null /\ b + 2 \in (0 .. PoolWords - 1) \ DOMAIN live
        /\ H!Fits(b + 2, n, live)
    BY <1>4, Handed
  <2>2. kheap' = r.h /\ live' = Holding(live, b + 2, n) /\ asked' = 1 /\ refused' = 0
    BY <1>2, <1>4, <2>1
  <2>3. IInv'
    BY <2>1, <2>2 DEF IInv
  <2>4. H!Alloc
    <3>1. live' = H!With(live, b + 2, n)
      BY <2>2 DEF Holding, H!With
    <3>2. (b + 2) % asked' = 0
      <4>1. b + 2 \in Int
        BY <2>1
      <4> QED BY <2>2, <4>1
    <3> QED BY <2>1, <2>2, <3>1, <3>2 DEF H!Alloc
  <2> QED BY <2>3, <2>4 DEF H!Next
<1> QED BY <1>1, <1>3, <1>4

(* kmemalign is an allocation on the boundary asked for, or a refusal.     *)
LEMMA MemalignStep ==
  ASSUME IInv, NEW align \in Aligns, NEW n \in Sizes, kmemalign(align, n)
  PROVE  IInv' /\ H!Next
<1> DEFINE r == tlsf_memalign(kheap, align, n)
<1>1. \/ r.p = Null /\ r.h = kheap
      \/ \E b : r.p = b + 2 /\ Gives(r.h, kheap, b, n) /\ (b + 2) % align = 0
  BY MemalignOK DEF IInv
<1>2. /\ kheap' = r.h
      /\ live' = IF r.p = Null THEN live ELSE Holding(live, r.p, n)
      /\ asked' = align
      /\ refused' = 0
  BY DEF kmemalign
<1> HIDE DEF r
<1>3. CASE r.p = Null /\ r.h = kheap
  <2>1. kheap' = kheap /\ live' = live /\ asked' = align /\ refused' = 0
    BY <1>2, <1>3
  <2>2. IInv'
    BY <2>1 DEF IInv
  <2>3. H!Refuse
    BY <2>1 DEF H!Refuse
  <2> QED BY <2>2, <2>3 DEF H!Next
<1>4. ASSUME NEW b, r.p = b + 2, Gives(r.h, kheap, b, n), (b + 2) % align = 0 PROVE IInv' /\ H!Next
  <2>1. /\ HeapOK(r.h, {}) /\ Owns(Used(r.h), r.h, Holding(live, b + 2, n))
        /\ b + 2 # Null /\ b + 2 \in (0 .. PoolWords - 1) \ DOMAIN live
        /\ H!Fits(b + 2, n, live)
    BY <1>4, Handed
  <2>2. kheap' = r.h /\ live' = Holding(live, b + 2, n) /\ asked' = align /\ refused' = 0
    BY <1>2, <1>4, <2>1
  <2>3. IInv'
    BY <2>1, <2>2 DEF IInv
  <2>4. H!Alloc
    <3>1. live' = H!With(live, b + 2, n)
      BY <2>2 DEF Holding, H!With
    <3>2. (b + 2) % asked' = 0 /\ asked' \in {1} \cup Aligns
      BY <1>4, <2>2
    <3> QED BY <2>1, <3>1, <3>2 DEF H!Alloc
  <2> QED BY <2>3, <2>4 DEF H!Next
<1> QED BY <1>1, <1>3, <1>4

(* kfree gives one block back.                                             *)
LEMMA FreeStep ==
  ASSUME IInv, NEW p \in DOMAIN live, kfree(p)
  PROVE  IInv' /\ H!Next
<1> DEFINE g == tlsf_free(kheap, p)
           U == Used(kheap)
<1>1. PICK b \in U : p = b + 2
  BY DEF IInv, Owns
<1>2. Frees(g, kheap, b)
  <2>1. HeapOK(kheap, {})
    BY DEF IInv
  <2> QED BY <1>1, <2>1, FreeOK
<1>3. HeapOK(g, {}) /\ Used(g) = U \ {b} /\ \A c \in U \ {b} : g.blk[c].size = kheap.blk[c].size
  BY <1>2 DEF Frees
<1>4. kheap' = g /\ live' = Dropping(p) /\ asked' = 1 /\ refused' = 0
  BY DEF kfree
<1> HIDE DEF g
<1>5. Owns(U \ {b}, kheap, Dropping(p))
  <2>1. U \in SUBSET Int
    BY UsedFacts DEF IInv
  <2>2. Owns(U, kheap, live)
    BY DEF IInv
  <2> HIDE DEF U
  <2> QED BY <1>1, <2>1, <2>2, Drops DEF Dropping
<1>6. Owns(U \ {b}, g, Dropping(p))
  BY <1>3, <1>5, Keeps
<1>7. IInv'
  <2>1. Owns(Used(kheap'), kheap', live')
    BY <1>3, <1>4, <1>6
  <2> QED BY <1>3, <1>4, <2>1 DEF IInv
<1>8. H!Free
  BY <1>4 DEF Dropping, H!Free, H!Without
<1> QED BY <1>4, <1>7, <1>8 DEF H!Next

(* krealloc resizes a block where it is or moves it, or refuses.           *)
LEMMA ReallocStep ==
  ASSUME IInv, NEW p \in DOMAIN live, NEW n \in Sizes, krealloc(p, n)
  PROVE  IInv' /\ H!Next
<1> DEFINE r == tlsf_realloc(kheap, p, n)
           U == Used(kheap)
<1>1. PICK b \in U : p = b + 2
  BY DEF IInv, Owns
<1>2. \/ r.p = Null /\ r.h = kheap
      \/ \E q : r.p = q + 2 /\ Moves(r.h, kheap, b, q, n)
  <2>1. HeapOK(kheap, {})
    BY DEF IInv
  <2> QED BY <1>1, <2>1, ReallocOK
<1>3. /\ kheap' = r.h
      /\ live' = IF r.p = Null THEN live ELSE Holding(Dropping(p), r.p, n)
      /\ asked' = 1
      /\ refused' = 0
  BY DEF krealloc
<1> HIDE DEF r
<1>4. CASE r.p = Null /\ r.h = kheap
  <2>1. kheap' = kheap /\ live' = live /\ asked' = 1 /\ refused' = 0
    BY <1>3, <1>4
  <2>2. IInv'
    BY <2>1 DEF IInv
  <2>3. H!Refuse
    BY <2>1 DEF H!Refuse
  <2> QED BY <2>2, <2>3 DEF H!Next
<1>5. ASSUME NEW q, r.p = q + 2, Moves(r.h, kheap, b, q, n) PROVE IInv' /\ H!Next
  <2> DEFINE g == r.h
             V == U \ {b}
             f == Dropping(p)
  <2>1. /\ HeapOK(g, {}) /\ q \notin V /\ q \in Used(g) /\ Used(g) = V \cup {q} /\ g.blk[q].size >= n
        /\ \A c \in V : g.blk[c].size = kheap.blk[c].size
    BY <1>5 DEF Moves
  <2>2. U \in SUBSET Int /\ V \in SUBSET Int
    BY UsedFacts DEF IInv
  <2>3. q \in Int /\ -1 <= q /\ n <= g.blk[q].size
    <3>1. q \in Int /\ -1 <= q /\ g.blk[q].size \in Nat
      BY <2>1, UsedFacts
    <3>2. n \in Nat
      BY Request
    <3> QED BY <2>1, <3>1, <3>2
  <2>4. Owns(V, kheap, f)
    <3>1. Owns(U, kheap, live)
      BY DEF IInv
    <3> HIDE DEF U
    <3> QED BY <1>1, <2>2, <3>1, Drops DEF Dropping
  <2>5. DOMAIN live = {c + 2 : c \in U}
    BY DEF IInv, Owns
  <2> HIDE DEF V, f, g
  <2>6. Owns(V, g, f)
    BY ONLY <2>1, <2>4, Keeps
  <2>7. q + 2 \notin DOMAIN f /\ Owns(V \cup {q}, g, Holding(f, q + 2, n))
    BY <2>1, <2>2, <2>3, <2>6, Takes
  <2>8. H!Fits(q + 2, n, f) /\ q + 2 \in 0 .. PoolWords - 1
    <3>1. V \subseteq Used(g) \ {q}
      BY <2>1
    <3> QED BY <2>1, <2>3, <2>6, <3>1, OwnedFits
  <2>9. kheap' = g /\ live' = Holding(f, q + 2, n) /\ asked' = 1 /\ refused' = 0
    <3>1. r.p # Null
      BY <1>5, <2>3 DEF Null
    <3> QED BY <1>3, <1>5, <3>1 DEF f, g
  <2>10. IInv'
    <3>1. Owns(Used(kheap'), kheap', live')
      BY <2>1, <2>7, <2>9
    <3> QED BY <2>1, <2>9, <3>1 DEF IInv
  <2>11. H!Resize
    <3>1. f = H!Without(p)
      BY DEF f, Dropping, H!Without
    <3>2. live' = H!With(H!Without(p), q + 2, n)
      BY <2>9, <3>1 DEF Holding, H!With
    <3>3. q + 2 = p \/ q + 2 \notin DOMAIN live
      <4>1. ASSUME q + 2 \in DOMAIN live PROVE q = b
        <5>1. PICK c \in U : q + 2 = c + 2
          BY <2>5, <4>1
        <5>2. q = c
          BY <2>2, <2>3, <5>1
        <5> QED BY <2>1, <5>1, <5>2 DEF V
      <4> QED BY <1>1, <4>1
    <3> QED BY <2>8, <3>1, <3>2, <3>3 DEF H!Resize
  <2> QED BY <2>9, <2>10, <2>11 DEF H!Next
<1> QED BY <1>2, <1>4, <1>5

--------------------------------------------------------------------------------
(* The heap that init_kmalloc makes is whole, and nobody holds anything.   *)
LEMMA Initially == Init => IInv /\ H!Init
<1> SUFFICES ASSUME Init PROVE IInv /\ H!Init
  OBVIOUS
<1>1. kheap = tlsf_add_pool(control_construct) /\ live = [p \in {} |-> 0] /\ asked = 1 /\ refused = 0
  BY DEF Init
<1>2. HeapOK(kheap, {}) /\ Used(kheap) = {}
  BY <1>1, PoolOK
<1>3. Owns({}, kheap, live)
  BY <1>1 DEF Owns
<1> QED BY <1>1, <1>2, <1>3 DEF IInv, H!Init

(* Every step keeps the invariant and is a step of Heap or changes         *)
(* nothing.                                                                *)
LEMMA Steps == IInv /\ [Next]_vars => IInv' /\ [H!Next]_<<live, asked>>
<1> SUFFICES ASSUME IInv, [Next]_vars PROVE IInv' /\ [H!Next]_<<live, asked>>
  OBVIOUS
<1>1. ASSUME NEW n \in Sizes, kmalloc(n) PROVE IInv' /\ H!Next
  BY <1>1, MallocStep
<1>2. ASSUME NEW align \in Aligns, NEW n \in Sizes, kmemalign(align, n) PROVE IInv' /\ H!Next
  BY <1>2, MemalignStep
<1>3. ASSUME NEW p \in DOMAIN live, NEW n \in Sizes, krealloc(p, n) PROVE IInv' /\ H!Next
  BY <1>3, ReallocStep
<1>4. ASSUME NEW p \in DOMAIN live, kfree(p) PROVE IInv' /\ H!Next
  BY <1>4, FreeStep
<1>5. CASE UNCHANGED vars
  BY <1>5 DEF IInv, vars
<1> QED BY <1>1, <1>2, <1>3, <1>4, <1>5 DEF Next

(* The heap is whole between any two calls of kmalloc, kmemalign, krealloc *)
(* and kfree: the blocks tile the pool, the flags and lists are right, and *)
(* the callers hold the blocks in use.                                     *)
THEOREM HeapInvariant == Spec => []IInv
<1>1. Init => IInv
  BY Initially
<1>2. IInv /\ [Next]_vars => IInv'
  BY Steps
<1> QED BY <1>1, <1>2, PTL DEF Spec

(* tlsf_check and tlsf_check_pool find nothing wrong whatever the calls    *)
(* were: bitmaps, lists and flags agree, and free neighbours are merged.   *)
THEOREM ChecksAlwaysPass == Spec => []CheckPasses
<1>1. IInv => CheckPasses
  <2> SUFFICES ASSUME IInv PROVE CheckPasses
    OBVIOUS
  <2> DEFINE h == kheap
  <2>1. HeapOK(h, {})
    BY DEF IInv
  <2> HIDE DEF h
  <2>2. Tiles(h) /\ Flags(h) /\ Apart(h, {}) /\ Listed(h, FreeBlocks(h))
    BY <2>1 DEF HeapOK
  <2>3. ASSUME NEW i \in FlIndex, NEW j \in SlIndex
        PROVE  /\ i \notin h.fl_bitmap => j \notin h.sl_bitmap[i]
               /\ j \in h.sl_bitmap[i] <=> h.blocks[<<i, j>>] # <<>>
    BY <2>2 DEF Listed
  <2>4. ASSUME NEW i \in FlIndex, NEW j \in SlIndex, NEW k \in DOMAIN h.blocks[<<i, j>>]
        PROVE  LET b == h.blocks[<<i, j>>][k]  next == h.blk[block_next(h, b)]
               IN  /\ h.blk[b].free /\ ~h.blk[b].prevfree
                   /\ ~next.free /\ next.prevfree
                   /\ h.blk[b].size >= MIN_SIZE /\ mapping_insert(h.blk[b].size) = <<i, j>>
    <3> DEFINE b == h.blocks[<<i, j>>][k]
               n == block_next(h, b)
    <3>1. b \in FreeBlocks(h) /\ ListOf(h, b) = <<i, j>>
      <4>1. <<i, j>> \in Lists
        BY DEF Lists
      <4>2. b \in Range(h.blocks[<<i, j>>])
        BY DEF Range
      <4> QED BY <2>2, <4>1, <4>2 DEF Listed
    <3> HIDE DEF b
    <3>2. b \in DOMAIN h.blk \ {LAST} /\ h.blk[b].free /\ n \in DOMAIN h.blk
      BY <2>1, <3>1, InHand DEF FreeBlocks
    <3>3. h.blk[b].size >= MIN_SIZE /\ h.blk[n].prevfree
      BY <2>2, <3>2 DEF Tiles, Flags
    <3>4. ~h.blk[n].free
      BY <2>2, <3>1, <3>2 DEF Apart, FreeBlocks
    <3>5. ~h.blk[b].prevfree
      <4>1. CASE b = FirstBlock
        BY <2>2, <4>1 DEF Flags
      <4>2. CASE b # FirstBlock
        <5>1. PICK a \in DOMAIN h.blk \ {LAST} : block_next(h, a) = b
          BY <2>2, <3>2, <4>2 DEF Tiles
        <5>2. ~h.blk[a].free
          BY <2>2, <3>1, <5>1 DEF Apart, FreeBlocks
        <5>3. h.blk[b].prevfree = h.blk[a].free
          BY <2>2, <5>1 DEF Flags
        <5> QED BY <5>2, <5>3
      <4> QED BY <4>1, <4>2
    <3> QED BY <3>1, <3>2, <3>3, <3>4, <3>5 DEF b, ListOf
  <2>5. ListsAccurate(h)
    BY <2>3, <2>4, Zenon DEF ListsAccurate
  <2>6. PoolCorrect(h)
    <3> SUFFICES ASSUME NEW b \in DOMAIN h.blk, h.blk[b].size > 0
                 PROVE  /\ block_next(h, b) \in DOMAIN h.blk
                        /\ h.blk[block_next(h, b)].prevfree = h.blk[b].free
      BY DEF PoolCorrect
    <3>1. b # LAST
      BY <2>2 DEF Tiles
    <3> QED BY <2>2, <3>1 DEF Tiles, Flags
  <2> QED BY <2>5, <2>6 DEF CheckPasses, h
<1> QED BY <1>1, HeapInvariant, PTL

(* No order of calls loses a word of the pool, cuts a held block short or  *)
(* leaves a free block out of the lists.                                   *)
THEOREM NothingLeaks == Spec => []NoLeak
<1>1. IInv => NoLeak
  <2> SUFFICES ASSUME IInv PROVE NoLeak
    OBVIOUS
  <2> DEFINE h == kheap
  <2>1. HeapOK(h, {}) /\ Owns(Used(h), h, live)
    BY DEF IInv
  <2> HIDE DEF h
  <2>2. Tiles(h) /\ Flags(h) /\ Listed(h, FreeBlocks(h))
    BY <2>1 DEF HeapOK
  <2>3. \A b \in DOMAIN h.blk : h.blk[b].size \in Nat /\ (h.blk[b].size = 0 <=> b = LAST) /\ b \in Int
    BY <2>2, TilesFacts
  <2>4. \E last \in DOMAIN h.blk : h.blk[last].size = 0 /\ last = PoolWords - START
    BY <2>2 DEF Tiles, LAST
  <2>5. \A b \in DOMAIN h.blk : b = FirstBlock \/ \E a \in DOMAIN h.blk : h.blk[a].size > 0 /\ block_next(h, a) = b
    <3> SUFFICES ASSUME NEW b \in DOMAIN h.blk, b # FirstBlock
                 PROVE  \E a \in DOMAIN h.blk : h.blk[a].size > 0 /\ block_next(h, a) = b
      OBVIOUS
    <3>1. PICK a \in DOMAIN h.blk \ {LAST} : block_next(h, a) = b
      BY <2>2 DEF Tiles
    <3> QED BY <2>3, <3>1
  <2>6. {x \in DOMAIN h.blk : ~h.blk[x].free /\ h.blk[x].size > 0} = Used(h)
    BY <2>3 DEF Used
  <2>7. {ToPtr(b) : b \in {x \in DOMAIN h.blk : ~h.blk[x].free /\ h.blk[x].size > 0}} = DOMAIN live
    BY <2>1, <2>6 DEF Owns, ToPtr, START
  <2>8. \A p \in DOMAIN live : h.blk[FromPtr(p)].size >= live[p]
    <3> SUFFICES ASSUME NEW p \in DOMAIN live PROVE h.blk[FromPtr(p)].size >= live[p]
      OBVIOUS
    <3>1. PICK b \in Used(h) : p = b + 2
      BY <2>1 DEF Owns
    <3>2. b \in Int /\ h.blk[b].size \in Nat
      BY <2>3 DEF Used
    <3>3. FromPtr(p) = b
      BY <3>1, <3>2 DEF FromPtr, START
    <3>4. live[p] \in Nat /\ live[p] <= h.blk[b].size
      <4>1. live[b + 2] \in Sizes /\ live[b + 2] <= h.blk[b].size
        BY <2>1 DEF Owns
      <4> QED BY <3>1, <4>1, Request
    <3> QED BY <3>2, <3>3, <3>4
  <2>9. FreeBlocks(h) = UNION {ToSet(h.blocks[at]) : at \in FlIndex \X SlIndex}
    <3>1. \A at \in Lists : ToSet(h.blocks[at]) = {b \in FreeBlocks(h) : ListOf(h, b) = at}
      BY <2>2 DEF Listed, ToSet, Range
    <3>2. \A b \in FreeBlocks(h) : ListOf(h, b) \in Lists
      <4> SUFFICES ASSUME NEW b \in FreeBlocks(h) PROVE ListOf(h, b) \in Lists
        OBVIOUS
      <4>1. b \in DOMAIN h.blk /\ b # LAST
        BY <2>1, InHand
      <4> QED BY <2>2, <4>1, TilesFacts
    <3>3. FreeBlocks(h) = UNION {ToSet(h.blocks[at]) : at \in Lists}
      BY <3>1, <3>2
    <3> QED BY <3>3 DEF Lists
  <2> QED BY <2>4, <2>5, <2>7, <2>8, <2>9, Zenon DEF NoLeak, FreeBlocks, h
<1> QED BY <1>1, HeapInvariant, PTL

(* kmalloc never gives up while a free block is as large as the request    *)
(* rounded up to the next list: the two-level search misses none.          *)
THEOREM RefusesOnlyWhenShort == Spec => []RefusedOnlyWhenShort
<1>1. IInv => RefusedOnlyWhenShort
  <2> SUFFICES ASSUME IInv, refused > 0 PROVE RefusedOnlyWhenShort
    BY DEF RefusedOnlyWhenShort
  <2> DEFINE n == adjust_request_size(refused, 1)
             u == Pow2(tlsf_fls(n) - SlLog2)
  <2>1. n \in Nat /\ 3 <= n /\ Findable(n)
    <3>1. refused \in Sizes
      BY DEF IInv
    <3> QED BY <3>1, Request
  <2>2. NoneFor(kheap, n)
    BY DEF IInv
  <2> HIDE DEF n
  <2>3. n >= SlCount => u \in Nat \ {0}
    BY <2>1, RoundedUp DEF Findable
  <2>4. SlCount \in Nat
    BY SizeConstants
  <2> HIDE DEF u
  <2>5. Rounded(n) = n + (IF n < SlCount THEN 0 ELSE u - 1)
    BY <2>1, <2>3, <2>4 DEF Rounded, u
  <2>6. \A b \in DOMAIN kheap.blk :
          kheap.blk[b].free => kheap.blk[b].size < n + (IF n < SlCount THEN 0 ELSE u - 1)
    BY <2>2, <2>5 DEF NoneFor, FreeBlocks
  <2> QED BY <2>6 DEF RefusedOnlyWhenShort, n, u
<1> QED BY <1>1, HeapInvariant, PTL

(* The kernel heap is an allocator: what it hands out lies in the pool, on *)
(* the boundary asked for and apart from all that is held, and stays there *)
(* until its holder frees or resizes it.                                   *)
THEOREM HeapImplemented == Spec => ImplementsHeap
<1>1. Init => IInv /\ H!Init
  BY Initially
<1>2. IInv /\ [Next]_vars => IInv' /\ [H!Next]_<<live, asked>>
  BY Steps
<1> QED BY <1>1, <1>2, PTL DEF Spec, ImplementsHeap, H!Spec
================================================================================
