--------------------------- MODULE VirtualMemory_proofs ---------------------------
(***************************************************************************)
(* Proofs about module VirtualMemory, for any number of threads and pages  *)
(* and any zones of RAM: the zones stay apart, nothing stays mapped        *)
(* outside them, and a legal access stops the machine only when no frame   *)
(* is left; and, for a program that keeps its calls of mmap and munmap     *)
(* apart, no frame is given to two pages, none is lost, and the pages keep *)
(* what is stored in them.  All of this holds of the steps of the model,   *)
(* the page faults of the kernel included, which end where a page table in *)
(* use is replaced or the kernel heap is damaged (torn).                   *)
(***************************************************************************)
EXTENDS VirtualMemory, SequenceTheorems, WellFoundedInduction, TLAPS

--------------------------------------------------------------------------------
(* What the operators of PageZone and Frame do to a list of zones and to   *)
(* the bitmaps, for lists and bitmaps of any size.                         *)

(* The searches of page.c and frame.c find the first of what they look     *)
(* for: numbers have a least element.  (Stated without an operator for a   *)
(* parameter, unlike the library's induction theorems.)                    *)
LEMMA Least ==
  ASSUME NEW T \in SUBSET Nat, T # {}
  PROVE  Min(T) \in T /\ \A y \in T : Min(T) <= y
<1> DEFINE R == {ss \in Nat \X Nat : ss[1] < ss[2]}
<1>1. IsWellFoundedOn(R, Nat)
  BY NatLessThanWellFounded, Zenon DEF OpToRel
<1>2. \A x, y \in Nat : <<x, y>> \in R <=> x < y
  OBVIOUS
<1> HIDE DEF R
<1>3. PICK x \in T : \A y \in T : ~(<<y, x>> \in R)
  BY <1>1, WFMin
<1>4. \A y \in T : ~(y < x)
  BY <1>2, <1>3
<1>5. \A y \in T : x <= y
  BY <1>4
<1> QED BY <1>5 DEF Min

--------------------------------------------------------------------------------
(* The list of zones as page.c keeps it: in the user address space, in the *)
(* order of addresses, apart, and none of them empty.                      *)
ZoneRecord == [base : Nat, limit : Nat \ {0}]
Inside(zone) == UserMin <= zone.base /\ End(zone) <= UserMax
ZoneList(zones) ==
  /\ zones \in Seq(ZoneRecord)
  /\ \A i \in DOMAIN zones : Inside(zones[i])
  /\ \A i, j \in DOMAIN zones : i < j => End(zones[i]) <= zones[j].base

LEMMA ZoneBounds ==
  ASSUME NEW zone \in ZoneRecord
  PROVE  /\ zone.base \in Nat /\ zone.limit \in Nat /\ zone.limit > 0
         /\ End(zone) \in Nat /\ zone.base < End(zone)
         /\ zone.base \in Pages(zone)
         /\ \A p : p \in Pages(zone) <=> p \in Int /\ zone.base <= p /\ p < End(zone)
BY DEF ZoneRecord, End, Pages

(* Linking a zone in front of the k-th: the list stays in order if the     *)
(* place is right.                                                         *)
LEMMA InsertZone ==
  ASSUME NEW zones, ZoneList(zones), NEW e \in ZoneRecord, Inside(e),
         NEW k \in 1 .. Len(zones) + 1,
         \A i \in DOMAIN zones : i < k => End(zones[i]) <= e.base,
         \A i \in DOMAIN zones : k <= i => End(e) <= zones[i].base
  PROVE  /\ ZoneList(InsertAt(zones, k, e))
         /\ Mapped(InsertAt(zones, k, e)) = Mapped(zones) \cup Pages(e)
         /\ Pages(e) \cap Mapped(zones) = {}
<1> DEFINE n == Len(zones)
           q == InsertAt(zones, k, e)
<1>1. /\ zones \in Seq(ZoneRecord) /\ n \in Nat /\ DOMAIN zones = 1 .. n
      /\ k \in Nat /\ 1 <= k /\ k <= n + 1
  BY DEF ZoneList
<1>2. /\ q \in Seq(ZoneRecord) /\ Len(q) = n + 1 /\ DOMAIN q = 1 .. n + 1
      /\ q[k] = e
      /\ \A i \in 1 .. n + 1 : /\ i < k => i \in 1 .. n /\ q[i] = zones[i]
                               /\ k < i => i - 1 \in 1 .. n /\ q[i] = zones[i - 1]
  <2> DEFINE a == SubSeq(zones, 1, k - 1)
             b == SubSeq(zones, k, n)
             ae == a \o <<e>>
  <2>1. a \in Seq(ZoneRecord) /\ Len(a) = k - 1 /\ \A i \in 1 .. k - 1 : a[i] = zones[i]
    BY <1>1
  <2>2. /\ b \in Seq(ZoneRecord) /\ Len(b) = n - k + 1
        /\ \A i \in 1 .. n - k + 1 : b[i] = zones[k + i - 1]
    BY <1>1
  <2> HIDE DEF a, b
  <2>3. /\ ae \in Seq(ZoneRecord) /\ Len(ae) = k /\ ae[k] = e
        /\ \A i \in 1 .. k - 1 : ae[i] = a[i]
    <3>1. ae = Append(a, e)
      BY <2>1, AppendIsConcat
    <3> HIDE DEF ae
    <3> QED BY <3>1, <2>1, <1>1, AppendProperties
  <2> HIDE DEF ae
  <2>4. q = ae \o b
    BY DEF q, InsertAt, ae, a, b
  <2>5. /\ q \in Seq(ZoneRecord) /\ Len(q) = n + 1
        /\ \A i \in 1 .. n + 1 : q[i] = IF i <= k THEN ae[i] ELSE b[i - k]
    BY <1>1, <2>2, <2>3, <2>4
  <2> HIDE DEF q
  <2>6. ASSUME NEW i \in 1 .. n + 1, i < k PROVE i \in 1 .. n /\ q[i] = zones[i]
    <3>1. i \in 1 .. k - 1 /\ i <= k /\ i \in 1 .. n
      BY <2>6, <1>1
    <3>2. q[i] = ae[i] /\ ae[i] = a[i] /\ a[i] = zones[i]
      BY <3>1, <2>1, <2>3, <2>5
    <3> QED BY <3>1, <3>2
  <2>7. ASSUME NEW i \in 1 .. n + 1, k < i PROVE i - 1 \in 1 .. n /\ q[i] = zones[i - 1]
    <3>1. i - k \in 1 .. n - k + 1 /\ k + (i - k) - 1 = i - 1 /\ i - 1 \in 1 .. n /\ ~(i <= k)
      BY <2>7, <1>1
    <3>2. q[i] = b[i - k]
      BY <3>1, <2>5
    <3>3. b[i - k] = zones[k + (i - k) - 1]
      BY <3>1, <2>2
    <3> QED BY <3>1, <3>2, <3>3
  <2>8. DOMAIN q = 1 .. n + 1
    BY <2>5
  <2>9. k \in 1 .. n + 1 /\ k <= k
    BY <1>1
  <2>10. q[k] = e
    BY <2>3, <2>5, <2>9
  <2> QED BY <2>5, <2>6, <2>7, <2>8, <2>10
<1> HIDE DEF q
<1>3. \A i \in 1 .. n + 1 : i = k \/ i < k \/ k < i
  BY <1>1
<1>4. \A i \in 1 .. n : /\ i < k => i \in 1 .. n + 1 /\ q[i] = zones[i]
                        /\ k <= i => i + 1 \in 1 .. n + 1 /\ q[i + 1] = zones[i]
  <2> SUFFICES ASSUME NEW i \in 1 .. n
               PROVE  /\ i < k => i \in 1 .. n + 1 /\ q[i] = zones[i]
                      /\ k <= i => i + 1 \in 1 .. n + 1 /\ q[i + 1] = zones[i]
    OBVIOUS
  <2>1. CASE i < k
    BY <2>1, <1>1, <1>2
  <2>2. CASE k <= i
    <3>1. i + 1 \in 1 .. n + 1 /\ k < i + 1 /\ (i + 1) - 1 = i
      BY <2>2, <1>1
    <3>2. q[i + 1] = zones[(i + 1) - 1]
      BY <3>1, <1>2
    <3> QED BY <3>1, <3>2, <2>2
  <2> QED BY <2>1, <2>2, <1>1
<1>5. \A i \in 1 .. n : zones[i] \in ZoneRecord /\ Inside(zones[i])
  BY <1>1 DEF ZoneList
<1>6. \A i \in 1 .. n + 1 : Inside(q[i])
  <2> SUFFICES ASSUME NEW i \in 1 .. n + 1 PROVE Inside(q[i])
    OBVIOUS
  <2>1. CASE i = k
    BY <2>1, <1>2
  <2>2. CASE i < k
    BY <2>2, <1>2, <1>5
  <2>3. CASE k < i
    BY <2>3, <1>2, <1>5
  <2> QED BY <2>1, <2>2, <2>3, <1>3
<1>7. \A i, j \in 1 .. n : i < j => End(zones[i]) <= zones[j].base
  BY <1>1 DEF ZoneList
<1>8. \A i, j \in 1 .. n + 1 : i < j => End(q[i]) <= q[j].base
  <2> SUFFICES ASSUME NEW i \in 1 .. n + 1, NEW j \in 1 .. n + 1, i < j
               PROVE  End(q[i]) <= q[j].base
    OBVIOUS
  <2>1. CASE j = k
    <3>1. i < k /\ i \in 1 .. n /\ q[i] = zones[i] /\ q[j] = e
      BY <2>1, <1>2
    <3> QED BY <3>1, <1>1
  <2>2. CASE i = k
    <3>1. j - 1 \in 1 .. n /\ q[j] = zones[j - 1] /\ q[i] = e /\ k <= j - 1
      BY <2>2, <1>2, <1>1
    <3> QED BY <3>1, <1>1
  <2>3. CASE i < k /\ j < k
    BY <2>3, <1>2, <1>7
  <2>4. CASE k < i /\ k < j
    <3>1. i - 1 < j - 1
      BY <1>1
    <3> QED BY <2>4, <3>1, <1>2, <1>7
  <2>5. CASE i < k /\ k < j
    <3>1. i < j - 1 /\ j - 1 \in 1 .. n /\ q[j] = zones[j - 1] /\ q[i] = zones[i] /\ i \in 1 .. n
      BY <2>5, <1>1, <1>2
    <3> QED BY <3>1, <1>7
  <2> QED BY <2>1, <2>2, <2>3, <2>4, <2>5, <1>3
<1>9. ZoneList(q)
  BY <1>2, <1>6, <1>8 DEF ZoneList
<1>10. \A p : p \in Mapped(q) <=> p \in Mapped(zones) \/ p \in Pages(e)
  <2> SUFFICES ASSUME NEW p PROVE p \in Mapped(q) <=> p \in Mapped(zones) \/ p \in Pages(e)
    OBVIOUS
  <2>1. p \in Mapped(q) <=> \E i \in 1 .. n + 1 : p \in Pages(q[i])
    BY <1>2 DEF Mapped
  <2>2. p \in Mapped(zones) <=> \E i \in 1 .. n : p \in Pages(zones[i])
    BY <1>1 DEF Mapped
  <2>3. ASSUME NEW i \in 1 .. n + 1, p \in Pages(q[i]) PROVE p \in Mapped(zones) \/ p \in Pages(e)
    BY <2>2, <2>3, <1>2, <1>3
  <2>4. ASSUME NEW i \in 1 .. n, p \in Pages(zones[i]) PROVE p \in Mapped(q)
    <3>1. i < k \/ k <= i
      BY <1>1
    <3> QED BY <3>1, <2>1, <2>4, <1>4
  <2>5. p \in Pages(e) => p \in Mapped(q)
    BY <2>1, <1>1, <1>2
  <2> QED BY <2>1, <2>2, <2>3, <2>4, <2>5
<1>11. Pages(e) \cap Mapped(zones) = {}
  <2> SUFFICES ASSUME NEW p \in Pages(e), NEW i \in 1 .. n, p \in Pages(zones[i]) PROVE FALSE
    BY <1>1 DEF Mapped
  <2>1. p \in Int /\ e.base <= p /\ p < End(e) /\ zones[i].base <= p /\ p < End(zones[i])
    BY <1>5, ZoneBounds
  <2>2. e.base \in Nat /\ End(e) \in Nat /\ zones[i].base \in Nat /\ End(zones[i]) \in Nat
    BY <1>5, ZoneBounds
  <2>3. i < k \/ k <= i
    BY <1>1
  <2>4. End(zones[i]) <= e.base \/ End(e) <= zones[i].base
    BY <2>3, <1>1
  <2> QED BY <2>1, <2>2, <2>4
<1> QED BY <1>9, <1>10, <1>11 DEF q

(* Unlinking the k-th zone.                                                *)
LEMMA RemoveZone ==
  ASSUME NEW zones, ZoneList(zones), NEW k \in DOMAIN zones
  PROVE  /\ ZoneList(RemoveAt(zones, k))
         /\ Mapped(RemoveAt(zones, k)) = Mapped(zones) \ Pages(zones[k])
         /\ Pages(zones[k]) \subseteq Mapped(zones)
<1> DEFINE n == Len(zones)
           q == RemoveAt(zones, k)
<1>1. /\ zones \in Seq(ZoneRecord) /\ n \in Nat /\ DOMAIN zones = 1 .. n
      /\ k \in 1 .. n /\ n - 1 \in Nat
  BY DEF ZoneList
<1>2. /\ q \in Seq(ZoneRecord) /\ Len(q) = n - 1 /\ DOMAIN q = 1 .. n - 1
      /\ \A i \in 1 .. n - 1 : /\ i < k => i \in 1 .. n /\ q[i] = zones[i]
                               /\ k <= i => i + 1 \in 1 .. n /\ q[i] = zones[i + 1]
  <2> DEFINE a == SubSeq(zones, 1, k - 1)
             b == SubSeq(zones, k + 1, n)
  <2>1. a \in Seq(ZoneRecord) /\ Len(a) = k - 1 /\ \A i \in 1 .. k - 1 : a[i] = zones[i]
    BY <1>1
  <2>2. /\ b \in Seq(ZoneRecord) /\ Len(b) = n - k
        /\ \A i \in 1 .. n - k : b[i] = zones[k + i]
    BY <1>1
  <2> HIDE DEF a, b
  <2>3. q = a \o b
    BY DEF q, RemoveAt, a, b
  <2> HIDE DEF q
  <2>4. /\ q \in Seq(ZoneRecord) /\ Len(q) = n - 1
        /\ \A i \in 1 .. n - 1 : q[i] = IF i <= k - 1 THEN a[i] ELSE b[i - (k - 1)]
    <3>1. /\ q \in Seq(ZoneRecord) /\ Len(q) = Len(a) + Len(b)
          /\ \A i \in 1 .. Len(a) + Len(b) : q[i] = IF i <= Len(a) THEN a[i] ELSE b[i - Len(a)]
      BY <2>1, <2>2, <2>3, ConcatProperties
    <3>2. Len(a) + Len(b) = n - 1
      BY <1>1, <2>1, <2>2
    <3> QED BY <3>1, <3>2, <2>1
  <2>5. ASSUME NEW i \in 1 .. n - 1, i < k PROVE i \in 1 .. n /\ q[i] = zones[i]
    BY <2>5, <1>1, <2>1, <2>4
  <2>6. ASSUME NEW i \in 1 .. n - 1, k <= i PROVE i + 1 \in 1 .. n /\ q[i] = zones[i + 1]
    <3>1. i - (k - 1) \in 1 .. n - k /\ k + (i - (k - 1)) = i + 1 /\ i + 1 \in 1 .. n /\ ~(i <= k - 1)
      BY <2>6, <1>1
    <3>2. q[i] = b[i - (k - 1)]
      BY <3>1, <2>4
    <3>3. b[i - (k - 1)] = zones[k + (i - (k - 1))]
      BY <3>1, <2>2
    <3> QED BY <3>1, <3>2, <3>3
  <2>7. q \in Seq(ZoneRecord) /\ Len(q) = n - 1
    BY <2>4
  <2>8. DOMAIN q = 1 .. n - 1
    BY <2>7, LenProperties
  <2> QED BY <2>5, <2>6, <2>7, <2>8
<1> HIDE DEF q
<1>3. \A i \in 1 .. n - 1 : i < k \/ k <= i
  BY <1>1
<1>4. \A i \in 1 .. n : zones[i] \in ZoneRecord /\ Inside(zones[i])
  BY <1>1 DEF ZoneList
<1>5. \A i, j \in 1 .. n : i < j => End(zones[i]) <= zones[j].base
  BY <1>1 DEF ZoneList
<1>6. \A i \in 1 .. n - 1 : Inside(q[i])
  BY <1>2, <1>3, <1>4
<1>7. \A i, j \in 1 .. n - 1 : i < j => End(q[i]) <= q[j].base
  <2> SUFFICES ASSUME NEW i \in 1 .. n - 1, NEW j \in 1 .. n - 1, i < j
               PROVE  End(q[i]) <= q[j].base
    OBVIOUS
  <2>1. CASE j < k
    <3>1. i \in 1 .. n /\ j \in 1 .. n /\ q[i] = zones[i] /\ q[j] = zones[j]
      BY <2>1, <1>1, <1>2
    <3> QED BY <3>1, <1>5
  <2>2. CASE i < k /\ k <= j
    <3>1. /\ i < j + 1 /\ i \in 1 .. n /\ j + 1 \in 1 .. n
          /\ q[i] = zones[i] /\ q[j] = zones[j + 1]
      BY <2>2, <1>1, <1>2
    <3> QED BY <3>1, <1>5
  <2>3. CASE k <= i
    <3>1. i + 1 < j + 1 /\ k <= j
      BY <2>3, <1>1
    <3>2. /\ i + 1 \in 1 .. n /\ j + 1 \in 1 .. n
          /\ q[i] = zones[i + 1] /\ q[j] = zones[j + 1]
      BY <2>3, <3>1, <1>2
    <3> QED BY <3>1, <3>2, <1>5
  <2> QED BY <2>1, <2>2, <2>3, <1>1
<1>8. ZoneList(q)
  BY <1>2, <1>6, <1>7 DEF ZoneList
<1>9. \A i \in 1 .. n : i # k => Pages(zones[i]) \cap Pages(zones[k]) = {}
  <2> SUFFICES ASSUME NEW i \in 1 .. n, i # k,
                      NEW p \in Pages(zones[i]), p \in Pages(zones[k])
               PROVE  FALSE
    OBVIOUS
  <2>1. /\ p \in Int /\ zones[i].base <= p /\ p < End(zones[i])
        /\ zones[k].base <= p /\ p < End(zones[k])
        /\ zones[i].base \in Nat /\ zones[k].base \in Nat
        /\ End(zones[i]) \in Nat /\ End(zones[k]) \in Nat
    BY <1>1, <1>4, ZoneBounds
  <2>2. i < k \/ k < i
    BY <1>1
  <2>3. End(zones[i]) <= zones[k].base \/ End(zones[k]) <= zones[i].base
    BY <2>2, <1>1, <1>5
  <2> QED BY <2>1, <2>3
<1>10. \A p : p \in Mapped(q) <=> p \in Mapped(zones) /\ p \notin Pages(zones[k])
  <2> SUFFICES ASSUME NEW p
               PROVE  p \in Mapped(q) <=> p \in Mapped(zones) /\ p \notin Pages(zones[k])
    OBVIOUS
  <2>1. p \in Mapped(q) <=> \E i \in 1 .. n - 1 : p \in Pages(q[i])
    BY <1>2 DEF Mapped
  <2>2. p \in Mapped(zones) <=> \E i \in 1 .. n : p \in Pages(zones[i])
    BY <1>1 DEF Mapped
  <2>3. ASSUME NEW i \in 1 .. n - 1, p \in Pages(q[i])
        PROVE  p \in Mapped(zones) /\ p \notin Pages(zones[k])
    <3>1. CASE i < k
      BY <3>1, <2>2, <2>3, <1>1, <1>2, <1>9
    <3>2. CASE k <= i
      <4>1. i + 1 # k
        BY <3>2, <1>1
      <4> QED BY <3>2, <4>1, <2>2, <2>3, <1>2, <1>9
    <3> QED BY <3>1, <3>2, <1>3
  <2>4. ASSUME NEW i \in 1 .. n, p \in Pages(zones[i]), p \notin Pages(zones[k])
        PROVE  p \in Mapped(q)
    <3>1. i # k
      BY <2>4
    <3>2. CASE i < k
      BY <3>2, <2>1, <2>4, <1>1, <1>2
    <3>3. CASE k < i
      <4>1. i - 1 \in 1 .. n - 1 /\ k <= i - 1 /\ (i - 1) + 1 = i
        BY <3>3, <1>1
      <4>2. q[i - 1] = zones[i]
        BY <4>1, <1>2
      <4> QED BY <4>1, <4>2, <2>1, <2>4
    <3> QED BY <3>1, <3>2, <3>3, <1>1
  <2> QED BY <2>1, <2>2, <2>3, <2>4
<1>11. Pages(zones[k]) \subseteq Mapped(zones)
  BY DEF Mapped
<1> QED BY <1>8, <1>10, <1>11 DEF q

(* What a successful allocation of npages pages at va does.                *)
Adds(zones, zs, va, npages) ==
  /\ ZoneList(zs)
  /\ va \in UserPage /\ va + npages <= UserMax
  /\ Mapped(zs) = Mapped(zones) \cup (va .. va + npages - 1)
  /\ (va .. va + npages - 1) \cap Mapped(zones) = {}

(* page_alloc_in_addr() links the zone at the right place although it      *)
(* compares it with one zone only.                                         *)
LEMMA AllocInAddr ==
  ASSUME NEW zones, ZoneList(zones), NEW va \in Nat, NEW npages \in Nat,
         CanAllocInAddr(zones, va, npages)
  PROVE  Adds(zones, PageAllocInAddr(zones, va, npages), va, npages)
<1> DEFINE n == Len(zones)
           T == {i \in DOMAIN zones : va < End(zones[i])} \cup {n + 1}
           e == Zone(va, npages)
<1> USE PageZoneAssumption
<1>1. /\ zones \in Seq(ZoneRecord) /\ n \in Nat /\ DOMAIN zones = 1 .. n
  BY DEF ZoneList
<1>2. T \in SUBSET Nat /\ T # {}
  BY <1>1
<1>3. PICK k : k = Min(T)
  OBVIOUS
<1>4. k \in T /\ \A y \in T : k <= y
  BY <1>2, <1>3, Least
<1>5. StopsAt(zones, va) = k
  BY <1>3 DEF StopsAt
<1>6. /\ npages > 0 /\ UserMin <= va /\ va + npages <= UserMax
      /\ k <= n => va + npages <= zones[k].base
  BY <1>5 DEF CanAllocInAddr
<1>7. /\ e \in ZoneRecord /\ e.base = va /\ End(e) = va + npages /\ Inside(e)
      /\ Pages(e) = va .. va + npages - 1
  BY <1>6 DEF Zone, ZoneRecord, End, Inside, Pages
<1>8. \A i \in 1 .. n : zones[i] \in ZoneRecord /\ zones[i].base \in Nat /\ End(zones[i]) \in Nat
                        /\ zones[i].base < End(zones[i])
  BY <1>1, ZoneBounds
<1>9. ASSUME NEW i \in 1 .. n, i < k PROVE End(zones[i]) <= e.base
  <2>1. i \notin T
    BY <1>4, <1>9
  <2>2. ~(va < End(zones[i]))
    BY <2>1, <1>1
  <2> QED BY <2>2, <1>7, <1>8
<1>10. ASSUME NEW i \in 1 .. n, k <= i PROVE End(e) <= zones[i].base
  <2>1. k \in 1 .. n
    BY <1>1, <1>4, <1>10
  <2>2. End(e) <= zones[k].base
    BY <2>1, <1>6, <1>7
  <2>3. zones[k].base <= zones[i].base
    <3>1. CASE i = k
      BY <3>1, <1>8
    <3>2. CASE k < i
      <4>1. End(zones[k]) <= zones[i].base
        BY <3>2, <2>1, <1>1 DEF ZoneList
      <4> QED BY <4>1, <2>1, <1>8
    <3> QED BY <3>1, <3>2, <2>1, <1>10
  <2>4. zones[k].base \in Nat /\ zones[i].base \in Nat
    BY <2>1, <1>8
  <2>5. End(e) \in Nat
    BY <1>7, ZoneBounds
  <2> QED BY <2>2, <2>3, <2>4, <2>5
<1>11. k \in 1 .. n + 1
  BY <1>1, <1>4
<1> HIDE DEF e, T
<1>12. /\ ZoneList(InsertAt(zones, k, e))
       /\ Mapped(InsertAt(zones, k, e)) = Mapped(zones) \cup Pages(e)
       /\ Pages(e) \cap Mapped(zones) = {}
  BY <1>1, <1>7, <1>9, <1>10, <1>11, InsertZone
<1>13. PageAllocInAddr(zones, va, npages) = InsertAt(zones, k, e)
  BY <1>5 DEF PageAllocInAddr, e
<1>14. va \in UserPage /\ va + npages <= UserMax
  BY <1>6 DEF UserPage
<1> QED BY <1>7, <1>12, <1>13, <1>14 DEF Adds

(* page_alloc() finds a place of its own.                                  *)
LEMMA AllocPages ==
  ASSUME NEW zones, ZoneList(zones), NEW npages \in Nat, CanAllocPages(zones, npages)
  PROVE  Adds(zones, PageAlloc(zones, npages), Address(zones, npages), npages)
<1> DEFINE n == Len(zones)
           va == Address(zones, npages)
           e == Zone(va, npages)
<1> USE PageZoneAssumption
<1>1. /\ zones \in Seq(ZoneRecord) /\ n \in Nat /\ DOMAIN zones = 1 .. n
  BY DEF ZoneList
<1>2. npages > 0 /\ va + npages <= UserMax
  BY DEF CanAllocPages
<1>3. CASE zones = <<>>
  <2>1. va = UserMin /\ PageAlloc(zones, npages) = <<e>>
    BY <1>3 DEF Address, PageAlloc
  <2>2. Zone(UserMin, npages) = e /\ e \in ZoneRecord /\ Inside(e) /\ Pages(e) = va .. va + npages - 1
    BY <2>1, <1>2 DEF Zone, ZoneRecord, End, Inside, Pages
  <2>3. ZoneList(<<e>>)
    BY <2>2 DEF ZoneList
  <2>4. Mapped(<<e>>) = Pages(e) /\ Mapped(zones) = {}
    BY <1>3, <2>2 DEF Mapped
  <2>5. va \in UserPage
    BY <2>1 DEF UserPage
  <2> QED BY <2>1, <2>2, <2>3, <2>4, <2>5, <1>2 DEF Adds
<1>4. CASE zones # <<>>
  <2> DEFINE T == {i \in DOMAIN zones : i < n => End(zones[i]) + npages <= zones[i + 1].base}
  <2>1. n \in T /\ T \in SUBSET Nat
    BY <1>1, <1>4
  <2>2. PICK g : g = Min(T)
    OBVIOUS
  <2>3. g \in T
    BY <2>1, <2>2, Least
  <2>4. GapAfter(zones, npages) = g
    BY <2>2 DEF GapAfter
  <2>5. /\ va = End(zones[g])
        /\ PageAlloc(zones, npages) = InsertAt(zones, g + 1, e)
    BY <2>4, <1>4 DEF Address, PageAlloc
  <2>6. g \in 1 .. n /\ (g < n => End(zones[g]) + npages <= zones[g + 1].base)
    BY <2>3, <1>1
  <2>7. \A i \in 1 .. n : /\ zones[i] \in ZoneRecord /\ zones[i].base \in Nat /\ End(zones[i]) \in Nat
                          /\ zones[i].base < End(zones[i]) /\ Inside(zones[i])
    BY <1>1, ZoneBounds DEF ZoneList
  <2>8. va \in Nat /\ UserMin <= va
    BY <2>5, <2>6, <2>7 DEF Inside
  <2> HIDE DEF va, T
  <2>9. /\ e \in ZoneRecord /\ e.base = va /\ End(e) = va + npages /\ Inside(e)
        /\ Pages(e) = va .. va + npages - 1
    BY <2>8, <1>2 DEF Zone, ZoneRecord, End, Inside, Pages
  <2>10. \A i, j \in 1 .. n : i < j => End(zones[i]) <= zones[j].base
    BY <1>1 DEF ZoneList
  <2>11. ASSUME NEW i \in 1 .. n, i < g + 1 PROVE End(zones[i]) <= e.base
    <3>1. CASE i = g
      BY <3>1, <2>5, <2>7, <2>9
    <3>2. CASE i < g
      <4>1. End(zones[i]) <= zones[g].base
        BY <3>2, <2>6, <2>10
      <4> QED BY <4>1, <2>5, <2>6, <2>7, <2>9
    <3> QED BY <3>1, <3>2, <2>6, <2>11
  <2>12. ASSUME NEW i \in 1 .. n, g + 1 <= i PROVE End(e) <= zones[i].base
    <3>1. g < n /\ g + 1 \in 1 .. n
      BY <2>6, <2>12, <1>1
    <3>2. End(e) <= zones[g + 1].base
      BY <3>1, <2>5, <2>6, <2>9
    <3>3. zones[g + 1].base <= zones[i].base
      <4>1. CASE i = g + 1
        BY <4>1, <2>7
      <4>2. CASE g + 1 < i
        <5>1. End(zones[g + 1]) <= zones[i].base
          BY <4>2, <3>1, <2>10
        <5> QED BY <5>1, <3>1, <2>7
      <4> QED BY <4>1, <4>2, <3>1, <2>12
    <3>4. End(e) \in Nat /\ zones[g + 1].base \in Nat /\ zones[i].base \in Nat
      BY <3>1, <2>7, <2>8, <2>9
    <3> QED BY <3>2, <3>3, <3>4
  <2>13. g + 1 \in 1 .. n + 1
    BY <2>6, <1>1
  <2> HIDE DEF e
  <2>14. /\ ZoneList(InsertAt(zones, g + 1, e))
         /\ Mapped(InsertAt(zones, g + 1, e)) = Mapped(zones) \cup Pages(e)
         /\ Pages(e) \cap Mapped(zones) = {}
    BY <1>1, <2>9, <2>11, <2>12, <2>13, InsertZone
  <2>15. va \in UserPage
    BY <2>8, <1>2 DEF UserPage
  <2>16. /\ va \in UserPage /\ va + npages <= UserMax
         /\ PageAlloc(zones, npages) = InsertAt(zones, g + 1, e)
         /\ Pages(e) = va .. va + npages - 1
    BY <2>5, <2>9, <2>15, <1>2
  <2> QED BY <2>14, <2>16 DEF Adds, va
<1> QED BY <1>3, <1>4

(* page_free() removes the zone it is given, and its pages only.           *)
LEMMA FreePages ==
  ASSUME NEW zones, ZoneList(zones), NEW i \in DOMAIN zones
  PROVE  LET zs == PageFree(zones, zones[i].base, zones[i].limit)
         IN  /\ ZoneList(zs)
             /\ Mapped(zs) = Mapped(zones) \ Pages(zones[i])
             /\ Pages(zones[i]) \subseteq Mapped(zones)
<1> DEFINE T == {j \in DOMAIN zones : zones[j] = Zone(zones[i].base, zones[i].limit)}
<1>1. zones \in Seq(ZoneRecord) /\ zones[i] \in ZoneRecord
  BY DEF ZoneList
<1>2. zones[i] = Zone(zones[i].base, zones[i].limit)
  BY <1>1 DEF ZoneRecord, Zone
<1>3. i \in T /\ T \in SUBSET Nat
  BY <1>1, <1>2
<1>4. PICK k : k = Min(T)
  OBVIOUS
<1>5. k \in T
  BY <1>3, <1>4, Least
<1>6. k \in DOMAIN zones /\ zones[k] = zones[i]
  BY <1>2, <1>5
<1>7. PageFree(zones, zones[i].base, zones[i].limit) = RemoveAt(zones, k)
  BY <1>4 DEF PageFree
<1> HIDE DEF T
<1> QED BY <1>6, <1>7, RemoveZone

--------------------------------------------------------------------------------
(* The bitmaps as init_frame makes them and frame.c keeps them.            *)
IsBitmap(bm) ==
  /\ bm = [z \in DOMAIN pmzone |-> bm[z]]
  /\ \A z \in DOMAIN pmzone : bm[z] \subseteq 0 .. pmzone[z].bit_cnt - 1

(* The bits of two zones stand for different frames.  init_frame does not  *)
(* see to it: a bitmap has a bit more for each frame it occupies itself,   *)
(* so a zone reaches that much further than its RAM.                       *)
BitsApart ==
  \A y, z \in DOMAIN pmzone :
    y < z => \/ pmzone[y].base + pmzone[y].bit_cnt <= pmzone[z].base
             \/ pmzone[z].base + pmzone[z].bit_cnt <= pmzone[y].base

LEMMA BitmapPagesType ==
  ASSUME NEW cnt \in Nat
  PROVE  BitmapPages(cnt) \in Nat
<1>1. DivRoundUp(cnt, 32) \in Nat
  BY DEF DivRoundUp
<1>2. \A x \in Nat : DivRoundUp(8 + 4 * x, 4096) \in Nat
  BY DEF DivRoundUp
<1>3. ELEM_BITS \div 8 = 4
  BY DEF ELEM_BITS
<1> QED BY <1>1, <1>2, <1>3 DEF BitmapPages, ELEM_BITS, PAGE_SIZE

LEMMA ZoneOfRam ==
  ASSUME NEW z \in DOMAIN pmzone
  PROVE  /\ z \in Nat
         /\ pmzone[z].base \in Nat /\ pmzone[z].bit_cnt \in Nat
         /\ pmzone[z].limit \in Int /\ pmzone[z].limit <= pmzone[z].bit_cnt
<1>1. /\ z \in DOMAIN RamZone /\ pmzone[z] = WithBitmap(RamZone[z])
  BY DEF pmzone
<1>2. /\ z \in Nat /\ RamZone[z].first \in Nat /\ RamZone[z].end \in Nat
      /\ RamZone[z].first < RamZone[z].end
  <2>1. RamZone \in Seq([first : Nat, end : Nat])
    BY FrameAssumption
  <2>2. z \in 1 .. Len(RamZone) /\ Len(RamZone) \in Nat
    BY <1>1, <2>1, LenProperties
  <2>3. RamZone[z] \in [first : Nat, end : Nat]
    BY <2>1, <2>2, ElementOfSeq
  <2> QED BY <1>1, <2>2, <2>3, FrameAssumption
<1>3. PICK cnt \in Nat : cnt = RamZone[z].end - RamZone[z].first
  BY <1>2
<1>4. BitmapPages(cnt) \in Nat
  BY BitmapPagesType
<1>5. /\ pmzone[z].base = RamZone[z].first + BitmapPages(cnt)
      /\ pmzone[z].limit = cnt - BitmapPages(cnt)
      /\ pmzone[z].bit_cnt = cnt
  BY <1>1, <1>3 DEF WithBitmap
<1> QED BY <1>2, <1>4, <1>5

LEMMA RamHasBits == RamFrame \subseteq BitFrame /\ BitFrame \subseteq Nat
<1>1. ASSUME NEW z \in DOMAIN pmzone
      PROVE  /\ pmzone[z].base .. pmzone[z].base + pmzone[z].limit - 1
                  \subseteq pmzone[z].base .. pmzone[z].base + pmzone[z].bit_cnt - 1
             /\ pmzone[z].base .. pmzone[z].base + pmzone[z].bit_cnt - 1 \subseteq Nat
  BY ZoneOfRam
<1> QED BY <1>1 DEF RamFrame, BitFrame

LEMMA UsedHasBits ==
  ASSUME NEW bm, IsBitmap(bm)
  PROVE  Used(bm) \subseteq BitFrame
<1> SUFFICES ASSUME NEW z \in DOMAIN pmzone, NEW idx \in bm[z]
             PROVE  pmzone[z].base + idx \in BitFrame
  BY DEF Used
<1>1. idx \in 0 .. pmzone[z].bit_cnt - 1
  BY DEF IsBitmap
<1>2. pmzone[z].base + idx \in pmzone[z].base .. pmzone[z].base + pmzone[z].bit_cnt - 1
  BY <1>1, ZoneOfRam
<1> QED BY <1>2 DEF BitFrame

(* A frame has one bit.                                                    *)
LEMMA OneBit ==
  ASSUME BitsApart, NEW y \in DOMAIN pmzone, NEW z \in DOMAIN pmzone,
         NEW i \in 0 .. pmzone[y].bit_cnt - 1, NEW j \in 0 .. pmzone[z].bit_cnt - 1,
         pmzone[y].base + i = pmzone[z].base + j
  PROVE  y = z /\ i = j
<1>1. /\ y \in Nat /\ pmzone[y].base \in Nat /\ pmzone[y].bit_cnt \in Nat
      /\ z \in Nat /\ pmzone[z].base \in Nat /\ pmzone[z].bit_cnt \in Nat
  BY ZoneOfRam
<1>2. y # z => \/ pmzone[y].base + pmzone[y].bit_cnt <= pmzone[z].base
               \/ pmzone[z].base + pmzone[z].bit_cnt <= pmzone[y].base
  BY <1>1 DEF BitsApart
<1>3. y = z
  BY <1>1, <1>2
<1> QED BY <1>1, <1>3

LEMMA UsedBit ==
  ASSUME BitsApart, NEW bm, IsBitmap(bm), NEW z \in DOMAIN pmzone,
         NEW i \in 0 .. pmzone[z].bit_cnt - 1
  PROVE  pmzone[z].base + i \in Used(bm) <=> i \in bm[z]
<1>1. ASSUME NEW y \in DOMAIN pmzone, NEW j \in bm[y], pmzone[z].base + i = pmzone[y].base + j
      PROVE  i \in bm[z]
  <2>1. j \in 0 .. pmzone[y].bit_cnt - 1
    BY DEF IsBitmap
  <2> QED BY <1>1, <2>1, OneBit
<1> QED BY <1>1 DEF Used

(* The step from the bits of one zone to the frames in use.                *)
LEMMA UsedExcept ==
  ASSUME NEW bm, IsBitmap(bm), NEW z \in DOMAIN pmzone,
         NEW bits \in SUBSET (0 .. pmzone[z].bit_cnt - 1)
  PROVE  /\ IsBitmap([bm EXCEPT ![z] = bits])
         /\ \A y \in DOMAIN pmzone : [bm EXCEPT ![z] = bits][y] = IF y = z THEN bits ELSE bm[y]
<1> DEFINE new == [bm EXCEPT ![z] = bits]
<1>1. DOMAIN bm = DOMAIN pmzone /\ bm = [y \in DOMAIN pmzone |-> bm[y]]
  BY DEF IsBitmap
<1>2. \A y \in DOMAIN pmzone : new[y] = IF y = z THEN bits ELSE bm[y]
  BY <1>1
<1>3. new = [y \in DOMAIN pmzone |-> new[y]]
  BY <1>1
<1>4. \A y \in DOMAIN pmzone : new[y] \subseteq 0 .. pmzone[y].bit_cnt - 1
  BY <1>2 DEF IsBitmap
<1> HIDE DEF new
<1>5. IsBitmap(new)
  BY <1>3, <1>4 DEF IsBitmap
<1> QED BY <1>2, <1>5 DEF new

(* A single bit.                                                           *)
LEMMA OneFrame ==
  ASSUME NEW i \in Int
  PROVE  Bits(i, 1) = {i}
BY DEF Bits

(* frame_alloc(1) finds a frame whenever a bit is clear.                   *)
LEMMA FailsOnlyWhenFull ==
  ASSUME NEW bm, ~CanAlloc(bm, 1)
  PROVE  BitFrame \subseteq Used(bm)
<1> SUFFICES ASSUME NEW z \in DOMAIN pmzone,
                    NEW f \in pmzone[z].base .. pmzone[z].base + pmzone[z].bit_cnt - 1
             PROVE  f \in Used(bm)
  BY DEF BitFrame
<1>1. pmzone[z].base \in Nat /\ pmzone[z].bit_cnt \in Nat
  BY ZoneOfRam
<1>2. PICK i \in 0 .. pmzone[z].bit_cnt - 1 : f = pmzone[z].base + i
  <2>1. f - pmzone[z].base \in 0 .. pmzone[z].bit_cnt - 1 /\ f = pmzone[z].base + (f - pmzone[z].base)
    BY <1>1
  <2> QED BY <2>1
<1>3. BitmapGroups(bm[z], pmzone[z].bit_cnt, 1) = {}
  BY DEF CanAlloc, Fits
<1>4. ~BitmapNone(bm[z], i, 1)
  BY <1>1, <1>3 DEF BitmapGroups
<1>5. i \in bm[z]
  BY <1>4, OneFrame DEF BitmapNone
<1> QED BY <1>2, <1>5 DEF Used

(* frame_alloc(1) marks one frame that was not in use, and only that.      *)
LEMMA AllocFrame ==
  ASSUME NEW bm, IsBitmap(bm), CanAlloc(bm, 1)
  PROVE  LET new == FrameAlloc(bm, 1)
         IN  /\ IsBitmap(new.bitmap)
             /\ new.pa \in BitFrame
             /\ BitsApart => new.pa \notin Used(bm)
             /\ Used(new.bitmap) = Used(bm) \cup {new.pa}
<1>1. PICK z : z = Min(Fits(bm, 1))
  OBVIOUS
<1>2. Fits(bm, 1) # {} /\ Fits(bm, 1) \in SUBSET Nat
  BY ZoneOfRam DEF CanAlloc, Fits
<1>3. z \in Fits(bm, 1)
  BY <1>1, <1>2, Least
<1>4. z \in DOMAIN pmzone /\ BitmapGroups(bm[z], pmzone[z].bit_cnt, 1) # {}
  BY <1>3 DEF Fits
<1>5. PICK idx : idx = BitmapScan(bm[z], pmzone[z].bit_cnt, 1)
  OBVIOUS
<1>6. BitmapGroups(bm[z], pmzone[z].bit_cnt, 1) \in SUBSET Nat
  BY <1>4, ZoneOfRam DEF BitmapGroups
<1>7. idx \in BitmapGroups(bm[z], pmzone[z].bit_cnt, 1)
  BY <1>4, <1>5, <1>6, Least DEF BitmapScan
<1>8. idx \in 0 .. pmzone[z].bit_cnt - 1 /\ BitmapNone(bm[z], idx, 1)
  BY <1>7 DEF BitmapGroups
<1>9. Bits(idx, 1) = {idx}
  BY <1>8, <1>4, ZoneOfRam, OneFrame
<1>10. idx \notin bm[z]
  BY <1>8, <1>9 DEF BitmapNone
<1> DEFINE pa == pmzone[z].base + idx
<1> DEFINE bits == bm[z] \cup {idx}
<1> DEFINE new == [bm EXCEPT ![z] = bits]
<1>11. FrameAlloc(bm, 1) = [pa |-> pa, bitmap |-> new]
  <2>1. BitmapSetMultiple(bm[z], idx, 1, TRUE) = bits
    BY <1>9 DEF BitmapSetMultiple
  <2> QED BY <1>1, <1>5, <2>1 DEF FrameAlloc
<1>12. bits \in SUBSET (0 .. pmzone[z].bit_cnt - 1)
  BY <1>4, <1>8 DEF IsBitmap
<1>13. /\ IsBitmap(new)
       /\ \A y \in DOMAIN pmzone : new[y] = IF y = z THEN bits ELSE bm[y]
  <2> HIDE DEF bits
  <2>1. z \in DOMAIN pmzone /\ bits \in SUBSET (0 .. pmzone[z].bit_cnt - 1)
    BY <1>4, <1>12
  <2> QED BY <2>1, UsedExcept
<1>14. pa \in BitFrame
  <2>1. pa \in pmzone[z].base .. pmzone[z].base + pmzone[z].bit_cnt - 1
    BY <1>4, <1>8, ZoneOfRam
  <2> QED BY <1>4, <2>1 DEF BitFrame
<1>15. BitsApart => pa \notin Used(bm)
  BY <1>4, <1>8, <1>10, UsedBit
<1>16. Used(new) = Used(bm) \cup {pa}
  <2> HIDE DEF new
  <2>1. ASSUME NEW y \in DOMAIN pmzone, NEW j \in new[y]
        PROVE  pmzone[y].base + j \in Used(bm) \cup {pa}
    <3>1. j \in bm[y] \/ (y = z /\ j = idx)
      BY <1>13, <2>1
    <3> QED BY <3>1 DEF Used
  <2>2. ASSUME NEW y \in DOMAIN pmzone, NEW j \in bm[y]
        PROVE  pmzone[y].base + j \in Used(new)
    <3>1. j \in new[y]
      BY <1>13, <2>2
    <3> QED BY <3>1 DEF Used
  <2>3. pa \in Used(new)
    <3>1. idx \in new[z]
      BY <1>4, <1>13
    <3> QED BY <3>1, <1>4 DEF Used
  <2> HIDE DEF pa
  <2> QED BY <2>1, <2>2, <2>3 DEF Used
<1> HIDE DEF new, pa
<1> QED BY <1>11, <1>13, <1>14, <1>15, <1>16

(* frame_free(pa, 1) clears the bit of a frame of RAM, and no other bit:   *)
(* a frame beyond the RAM of its zone stays in use.                        *)
LEMMA FreeFrame ==
  ASSUME NEW bm, IsBitmap(bm), NEW pa \in Nat
  PROVE  /\ IsBitmap(FrameFree(bm, pa, 1))
         /\ BitsApart => Used(FrameFree(bm, pa, 1)) = Used(bm) \ ({pa} \cap RamFrame)
<1> DEFINE T == {y \in DOMAIN pmzone : InZone(y, pa)}
<1>1. CASE T = {}
  <2>1. FrameFree(bm, pa, 1) = bm
    BY <1>1 DEF FrameFree
  <2>2. pa \notin RamFrame
    <3>1. ASSUME NEW y \in DOMAIN pmzone, pa \in pmzone[y].base .. pmzone[y].base + pmzone[y].limit - 1
          PROVE  InZone(y, pa)
      BY <3>1, ZoneOfRam DEF InZone
    <3> QED BY <1>1, <3>1 DEF RamFrame
  <2> QED BY <2>1, <2>2
<1>2. CASE T # {}
  <2>1. T \in SUBSET Nat
    BY ZoneOfRam
  <2>2. PICK z : z = Min(T)
    OBVIOUS
  <2>3. z \in DOMAIN pmzone /\ InZone(z, pa)
    BY <1>2, <2>1, <2>2, Least
  <2>4. /\ pmzone[z].base \in Nat /\ pmzone[z].bit_cnt \in Nat /\ pmzone[z].limit \in Int
        /\ pmzone[z].limit <= pmzone[z].bit_cnt
        /\ pmzone[z].base <= pa /\ pa < pmzone[z].base + pmzone[z].limit
    BY <2>3, ZoneOfRam DEF InZone
  <2>5. PICK i \in 0 .. pmzone[z].bit_cnt - 1 : i = pa - pmzone[z].base
    BY <2>4
  <2>6. pa = pmzone[z].base + i /\ pa \in RamFrame
    <3>1. pa \in pmzone[z].base .. pmzone[z].base + pmzone[z].limit - 1
      BY <2>4
    <3> QED BY <2>3, <2>4, <2>5, <3>1 DEF RamFrame
  <2> DEFINE bits == bm[z] \ {i}
  <2> DEFINE new == [bm EXCEPT ![z] = bits]
  <2>7. FrameFree(bm, pa, 1) = new
    <3>1. BitmapSetMultiple(bm[z], pa - pmzone[z].base, 1, FALSE) = bits
      BY <2>5, OneFrame DEF BitmapSetMultiple
    <3>2. FrameFree(bm, pa, 1) =
            [bm EXCEPT ![z] = BitmapSetMultiple(bm[z], pa - pmzone[z].base, 1, FALSE)]
      BY <2>2, <2>3 DEF FrameFree
    <3> QED BY <3>1, <3>2
  <2>8. bits \in SUBSET (0 .. pmzone[z].bit_cnt - 1)
    BY <2>3 DEF IsBitmap
  <2>9. /\ IsBitmap(new)
        /\ \A y \in DOMAIN pmzone : new[y] = IF y = z THEN bits ELSE bm[y]
    <3> HIDE DEF bits
    <3> QED BY <2>3, <2>8, UsedExcept
  <2> HIDE DEF new
  <2>10. ASSUME BitsApart, NEW y \in DOMAIN pmzone, NEW j \in new[y]
         PROVE  pmzone[y].base + j \in Used(bm) /\ pmzone[y].base + j # pa
    <3>1. j \in bm[y] /\ ~(y = z /\ j = i)
      BY <2>9, <2>10
    <3>2. j \in 0 .. pmzone[y].bit_cnt - 1
      BY <3>1 DEF IsBitmap
    <3>3. pmzone[y].base + j # pmzone[z].base + i
      BY <3>1, <3>2, <2>3, <2>10, OneBit
    <3> QED BY <3>1, <3>3, <2>6 DEF Used
  <2>11. ASSUME NEW y \in DOMAIN pmzone, NEW j \in bm[y], pmzone[y].base + j # pa
         PROVE  pmzone[y].base + j \in Used(new)
    <3>1. j \in new[y]
      BY <2>6, <2>9, <2>11
    <3> QED BY <3>1 DEF Used
  <2>12. BitsApart => Used(new) = Used(bm) \ {pa}
    BY <2>10, <2>11 DEF Used
  <2> QED BY <2>6, <2>7, <2>9, <2>12
<1> QED BY <1>1, <1>2

--------------------------------------------------------------------------------
(* The zones and the calls in progress.                                    *)
AnyFrame == BitFrame \cup Device \cup {None}
LocalTypes ==
  /\ pc \in [Context -> PC]
  /\ at \in [Context -> Page]
  /\ end \in [Context -> UserMin .. UserMax]
  /\ frame \in [Context -> AnyFrame]
PageTypes ==
  /\ pt \in [Page -> AnyFrame]
  /\ content \in [RamFrame -> Value]
  /\ last \in [UserPage -> Value]
  /\ halted \in BOOLEAN
Types == ZoneList(uvmzone) /\ IsBitmap(bitmap) /\ LocalTypes /\ PageTypes

(* The pages the loop of mmap or munmap has not passed.                    *)
ToDo(u) == at[u] .. end[u] - 1

(* A page that is being faulted in stays mapped, and so do the pages of a  *)
(* device that mmap has not entered yet: no thread unmaps them.            *)
Enterable(frm, n) == frm \in Nat /\ Bits(frm, n) \subseteq Device
CallOK(u) ==
  /\ InCall(u) => at[u] \in UserPage /\ at[u] < end[u]
  /\ pc[u] \in FaultSteps /\ at[u] \in UserPage => at[u] \in Mapped(uvmzone)
  /\ pc[u] = "insert" /\ frame[u] # None => Enterable(frame[u], end[u] - at[u])
  /\ pc[u] = "device" =>
       ToDo(u) \subseteq Mapped(uvmzone) /\ Enterable(frame[u], end[u] - at[u])
  /\ pc[u] \in {"clear", "free"} => frame[u] # None
CallsInv == \A u \in Context : CallOK(u)

(* NothingLeftMapped, strengthened: the munmap that a page outside the     *)
(* zones waits for has not cleared its entry yet.                          *)
Unmaps(u, p) == pc[u] \in UnmapSteps /\ p \in ToDo(u) /\ (pc[u] = "free" => p # at[u])
StillToUnmap(p) == \E u \in Context : Unmaps(u, p)
LeftInv == \A p \in UserPage : pt[p] # None => p \in Mapped(uvmzone) \/ StillToUnmap(p)

ZonesInv == Types /\ CallsInv /\ LeftInv /\ HaltsOnlyWhenFull

--------------------------------------------------------------------------------
(* What a step of t does to where the threads are.                         *)
Stays(u) == pc'[u] = pc[u] /\ at'[u] = at[u] /\ end'[u] = end[u] /\ frame'[u] = frame[u]
OthersStay(t) == \A u \in Context \ {t} : Stays(u)
Now(t, step, page, stop, frm) ==
  /\ pc'[t] = step /\ at'[t] = page /\ end'[t] = stop /\ frame'[t] = frm
  /\ OthersStay(t)

LEMMA Moved ==
  ASSUME LocalTypes, NEW t \in Context, NEW step \in PC, NEW page \in Page,
         NEW frm \in AnyFrame, NEW stop \in UserMin .. UserMax,
         ToStep(t, step, page, frm), end' = [end EXCEPT ![t] = stop]
  PROVE  LocalTypes' /\ Now(t, step, page, stop, frm)
BY DEF LocalTypes, ToStep, Now, OthersStay, Stays

LEMMA MovedOn ==
  ASSUME LocalTypes, NEW t \in Context, NEW step \in PC, NEW page \in Page,
         NEW frm \in AnyFrame, ToStep(t, step, page, frm), UNCHANGED end
  PROVE  LocalTypes' /\ Now(t, step, page, end[t], frm)
BY DEF LocalTypes, ToStep, Now, OthersStay, Stays

LEMMA Stayed ==
  ASSUME LocalTypes, UNCHANGED locals
  PROVE  LocalTypes' /\ \A u \in Context : Stays(u)
BY DEF LocalTypes, locals, Stays

LEMMA UserMinPage ==
  UserMin \in UserPage /\ UserMin \in Page /\ UserMin \in UserMin .. UserMax /\ None \in AnyFrame
BY PageZoneAssumption DEF UserPage, Page, AnyFrame

(* The pages of the kernel are none of the program's.                      *)
LEMMA KernelPages ==
  /\ UserPage \subseteq Page /\ HeapPage \subseteq Page
  /\ \A p \in UserPage : p \in Page /\ p \in Nat /\ UserMin <= p
  /\ \A p \in UserPage : TableOf(p) \in Page /\ TableOf(p) \notin UserPage
  /\ \A p \in HeapPage : p \notin UserPage
BY PageZoneAssumption, VirtualMemoryAssumption DEF Page, UserPage, TablePage

LEMMA Returned ==
  ASSUME LocalTypes, NEW t \in Context, Return(t)
  PROVE  LocalTypes' /\ Now(t, "user", UserMin, UserMin, None)
BY UserMinPage, Moved DEF Return, PC

(* The end of an iteration: the loop is over, or goes on with the next.    *)
LEMMA PassedPage ==
  ASSUME LocalTypes, NEW t \in Context, NEW step \in PC, NEW frm,
         at[t] \in UserPage, at[t] < end[t], at[t] + 1 # end[t] => frm \in AnyFrame,
         NextPage(t, step, frm)
  PROVE  /\ LocalTypes'
         /\ OthersStay(t)
         /\ \/ at[t] + 1 = end[t] /\ Now(t, "user", UserMin, UserMin, None)
            \/ /\ at[t] + 1 < end[t] /\ at[t] + 1 \in UserPage
               /\ Now(t, step, at[t] + 1, end[t], frm)
<1>1. at[t] \in Nat /\ end[t] \in Nat /\ UserMin <= at[t] /\ end[t] <= UserMax
  BY PageZoneAssumption DEF LocalTypes, UserPage
<1>2. CASE at[t] + 1 = end[t]
  BY <1>2, Returned DEF NextPage, Now
<1>3. CASE at[t] + 1 # end[t]
  <2>1. at[t] + 1 < end[t] /\ at[t] + 1 \in UserPage
    BY <1>1, <1>3, PageZoneAssumption DEF UserPage
  <2>2. ToStep(t, step, at[t] + 1, frm) /\ UNCHANGED end
    BY <1>3 DEF NextPage
  <2>3. LocalTypes' /\ Now(t, step, at[t] + 1, end[t], frm)
    BY <1>3, <2>1, <2>2, KernelPages, MovedOn
  <2> QED BY <2>1, <2>3 DEF Now
<1> QED BY <1>2, <1>3

(* The zones lie in the user address space.                                *)
LEMMA MappedPages ==
  ASSUME NEW zones, ZoneList(zones)
  PROVE  Mapped(zones) \subseteq UserPage
<1> SUFFICES ASSUME NEW i \in DOMAIN zones, NEW p \in Pages(zones[i])
             PROVE  p \in UserPage
  BY DEF Mapped
<1>1. zones[i] \in ZoneRecord /\ Inside(zones[i])
  BY DEF ZoneList
<1>2. /\ p \in Int /\ zones[i].base <= p /\ p < End(zones[i])
      /\ zones[i].base \in Nat /\ End(zones[i]) \in Nat
  BY <1>1, ZoneBounds
<1> QED BY <1>1, <1>2, PageZoneAssumption DEF Inside, UserPage

(* Both ways to allocate.                                                  *)
LEMMA Allocated ==
  ASSUME ZoneList(uvmzone), NEW va \in UserPage, NEW npages \in Nat \ {0},
         Allocate(va, npages)
  PROVE  /\ Adds(uvmzone, uvmzone', va, npages)
         /\ va \in Nat /\ npages \in Nat /\ npages > 0 /\ va + npages \in UserMin .. UserMax
<1>1. va \in Nat /\ UserMin <= va /\ npages \in Nat /\ npages > 0
  BY PageZoneAssumption DEF UserPage
<1>2. Adds(uvmzone, uvmzone', va, npages)
  <2>1. CASE /\ CanAllocInAddr(uvmzone, va, npages)
             /\ uvmzone' = PageAllocInAddr(uvmzone, va, npages)
    BY <2>1, <1>1, AllocInAddr
  <2>2. CASE /\ va = Address(uvmzone, npages) /\ CanAllocPages(uvmzone, npages)
             /\ uvmzone' = PageAlloc(uvmzone, npages)
    BY <2>2, <1>1, AllocPages
  <2> QED BY <2>1, <2>2 DEF Allocate
<1> QED BY <1>1, <1>2, PageZoneAssumption DEF Adds

(* Where a thread is that does not move.                                   *)
LEMMA StaysOK ==
  ASSUME NEW u \in Context, CallOK(u), Stays(u),
         pc[u] \in FaultSteps /\ at[u] \in UserPage => at[u] \in Mapped(uvmzone'),
         pc[u] = "device" => ToDo(u) \subseteq Mapped(uvmzone')
  PROVE  CallOK(u)'
BY DEF CallOK, Stays, InCall, ToDo

LEMMA StaysUnmapping ==
  ASSUME NEW u \in Context, NEW p, Stays(u)
  PROVE  Unmaps(u, p)' <=> Unmaps(u, p)
BY DEF Unmaps, Stays, ToDo

(* A step of a thread that unmaps nothing, in which no page leaves the     *)
(* zones.                                                                  *)
LEMMA OthersKeep ==
  ASSUME CallsInv, NEW t \in Context, OthersStay(t), Mapped(uvmzone) \subseteq Mapped(uvmzone')
  PROVE  /\ \A u \in Context \ {t} : CallOK(u)'
         /\ \A p : pc[t] \notin UnmapSteps /\ StillToUnmap(p) => StillToUnmap(p)'
<1>1. ASSUME NEW u \in Context \ {t} PROVE CallOK(u)'
  BY <1>1, StaysOK DEF CallsInv, OthersStay, CallOK
<1>2. ASSUME NEW p, pc[t] \notin UnmapSteps, NEW u \in Context, Unmaps(u, p) PROVE Unmaps(u, p)'
  <2>1. u # t
    BY <1>2 DEF Unmaps
  <2> QED BY <1>2, <2>1, StaysUnmapping DEF OthersStay
<1> QED BY <1>1, <1>2 DEF StillToUnmap

--------------------------------------------------------------------------------
LEMMA ZonesInit == Init => ZonesInv
<1> SUFFICES ASSUME Init PROVE ZonesInv
  OBVIOUS
<1> USE UserMinPage, VirtualMemoryAssumption
<1>1. ZoneList(uvmzone)
  BY DEF Init, ZoneList
<1>2. IsBitmap(bitmap)
  BY DEF Init, IsBitmap, NoBitSet
<1>3. LocalTypes /\ PageTypes
  BY KernelPages DEF Init, LocalTypes, PageTypes, PC, AnyFrame
<1>4. CallsInv
  BY DEF Init, CallsInv, CallOK, InCall, FaultSteps, UnmapSteps
<1>5. LeftInv /\ HaltsOnlyWhenFull
  BY KernelPages DEF Init, LeftInv, HaltsOnlyWhenFull
<1> QED BY <1>1, <1>2, <1>3, <1>4, <1>5 DEF ZonesInv, Types

LEMMA PageMapZones ==
  ASSUME ZonesInv, ~halted, NEW t \in Context, PageMap(t)
  PROVE  ZonesInv'
<1> USE DEF PageMap, ZonesInv, Types
<1>1. /\ at[t] \in UserPage /\ at[t] < end[t] /\ ToDo(t) \subseteq Mapped(uvmzone)
      /\ frame[t] \in Nat /\ Bits(frame[t], end[t] - at[t]) \subseteq Device
  BY DEF CallsInv, CallOK, InCall, Enterable
<1>2. at[t] \in Nat /\ end[t] \in Nat /\ at[t] \in UserPage /\ at[t] \in Page
  BY <1>1, KernelPages, PageZoneAssumption DEF LocalTypes
<1>3. at[t] \in Mapped(uvmzone) /\ frame[t] \in Device
  BY <1>1, <1>2 DEF ToDo, Bits
<1>4. at[t] + 1 # end[t] => frame[t] + 1 \in Device
  <2>1. at[t] + 1 # end[t] => frame[t] + 1 \in Bits(frame[t], end[t] - at[t])
    BY <1>1, <1>2 DEF Bits
  <2> QED BY <2>1, <1>1
<1>5. /\ LocalTypes' /\ OthersStay(t)
      /\ \/ at[t] + 1 = end[t] /\ Now(t, "user", UserMin, UserMin, None)
         \/ /\ at[t] + 1 < end[t] /\ at[t] + 1 \in UserPage
            /\ Now(t, "device", at[t] + 1, end[t], frame[t] + 1)
  BY <1>1, <1>4, PassedPage DEF AnyFrame, PC
<1>6. PageTypes'
  BY <1>3 DEF PageTypes, history, AnyFrame
<1>7. CallOK(t)'
  <2>1. CASE Now(t, "user", UserMin, UserMin, None)
    BY <2>1 DEF CallOK, InCall, Now, FaultSteps, UnmapSteps
  <2>2. CASE /\ at[t] + 1 < end[t] /\ at[t] + 1 \in UserPage
             /\ Now(t, "device", at[t] + 1, end[t], frame[t] + 1)
    <3>1. /\ pc'[t] = "device" /\ at'[t] = at[t] + 1 /\ end'[t] = end[t] /\ frame'[t] = frame[t] + 1
          /\ ToDo(t)' = at[t] + 1 .. end[t] - 1
      BY <2>2 DEF Now, ToDo
    <3>2. ToDo(t)' \subseteq ToDo(t) /\ frame[t] + 1 \in Nat
      BY <3>1, <1>1, <1>2 DEF ToDo
    <3>3. Bits(frame[t] + 1, end[t] - (at[t] + 1)) \subseteq Bits(frame[t], end[t] - at[t])
      BY <1>1, <1>2 DEF Bits
    <3> QED BY <2>2, <3>1, <3>2, <3>3, <1>1 DEF CallOK, FaultSteps, Enterable
  <2> QED BY <2>1, <2>2, <1>5
<1>8. CallsInv'
  BY <1>5, <1>7, OthersKeep DEF CallsInv
<1>9. LeftInv'
  <2> SUFFICES ASSUME NEW p \in UserPage, pt'[p] # None
               PROVE  p \in Mapped(uvmzone') \/ StillToUnmap(p)'
    BY DEF LeftInv
  <2>1. pc[t] \notin UnmapSteps
    BY DEF UnmapSteps
  <2>2. CASE p = at[t]
    BY <2>2, <1>3
  <2>3. CASE p # at[t]
    <3>1. pt[p] # None
      BY <2>3, KernelPages DEF PageTypes
    <3> QED BY <3>1, <2>1, <1>5, OthersKeep DEF LeftInv
  <2> QED BY <2>2, <2>3
<1> QED BY <1>5, <1>6, <1>8, <1>9 DEF HaltsOnlyWhenFull

(* munmap(): the pages of the zone are still to be unmapped afterwards.    *)
LEMMA MunmapZones ==
  ASSUME ZonesInv, ~halted, NEW t \in Context, NEW i \in DOMAIN uvmzone, Munmap(t, uvmzone[i])
  PROVE  ZonesInv'
<1> DEFINE zone == uvmzone[i]
<1> USE DEF ZonesInv, Types
<1>1. /\ zone \in ZoneRecord /\ Inside(zone)
      /\ zone.base \in Nat /\ End(zone) \in Nat /\ zone.base < End(zone)
      /\ Pages(zone) = zone.base .. End(zone) - 1
  BY ZoneBounds DEF ZoneList, Pages
<1>2. /\ zone.base \in UserPage /\ End(zone) \in UserMin .. UserMax
      /\ zone.base \in Page
  BY <1>1, PageZoneAssumption DEF Inside, UserPage, Page
<1>3. /\ ZoneList(uvmzone')
      /\ Mapped(uvmzone') = Mapped(uvmzone) \ Pages(zone)
  BY FreePages DEF Munmap
<1>4. LocalTypes' /\ Now(t, "read", zone.base, End(zone), None)
  <2>1. ToStep(t, "read", zone.base, None) /\ end' = [end EXCEPT ![t] = End(zone)]
    BY DEF Munmap
  <2> HIDE DEF zone
  <2> QED BY <2>1, <1>2, UserMinPage, Moved DEF PC, UnmapSteps
<1>5. /\ MayCall(t) /\ Pages(zone) \cap Unfinished = {}
      /\ \A p \in Pages(zone) : Faulting(p) = {}
      /\ Forget(Pages(zone))
      /\ UNCHANGED <<bitmap, pt, content, halted, dropped>>
  BY DEF Munmap
<1> HIDE DEF zone
<1>6. PageTypes'
  BY <1>5, VirtualMemoryAssumption DEF PageTypes, Forget
<1>7. ASSUME NEW u \in Context \ {t} PROVE CallOK(u)'
  <2>1. CallOK(u) /\ Stays(u)
    BY <1>4 DEF CallsInv, Now, OthersStay
  <2>2. pc[u] \in FaultSteps => at[u] \notin Pages(zone)
    BY <1>5 DEF Faulting
  <2>3. pc[u] = "device" => ToDo(u) \cap Pages(zone) = {}
    <3>1. pc[u] = "device" => ToDo(u) \subseteq Unfinished
      BY DEF Unfinished, ToDo
    <3> QED BY <3>1, <1>5
  <2> QED BY <2>1, <2>2, <2>3, <1>3, StaysOK DEF CallOK
<1>8. CallOK(t)'
  BY <1>1, <1>2, <1>4 DEF CallOK, Now, FaultSteps
<1>9. LeftInv'
  <2> SUFFICES ASSUME NEW p \in UserPage, pt[p] # None
               PROVE  p \in Mapped(uvmzone') \/ StillToUnmap(p)'
    BY <1>5 DEF LeftInv
  <2>1. CASE p \in Pages(zone)
    <3>1. pc'[t] = "read" /\ p \in ToDo(t)'
      BY <2>1, <1>1, <1>4 DEF Now, ToDo
    <3> QED BY <3>1 DEF StillToUnmap, Unmaps, UnmapSteps
  <2>2. CASE \E u \in Context : Unmaps(u, p)
    <3>1. PICK u \in Context : Unmaps(u, p)
      BY <2>2
    <3>2. u # t
      BY <3>1, <1>5 DEF Unmaps, MayCall, UnmapSteps
    <3>3. Unmaps(u, p)'
      BY <3>1, <3>2, <1>4, StaysUnmapping DEF Now, OthersStay
    <3> QED BY <3>3 DEF StillToUnmap
  <2> QED BY <2>1, <2>2, <1>3 DEF LeftInv, StillToUnmap
<1> QED BY <1>3, <1>4, <1>5, <1>6, <1>7, <1>8, <1>9 DEF CallsInv, HaltsOnlyWhenFull

(* The steps that leave the zones alone: what remains to show of each.     *)
LEMMA WithinZones ==
  ASSUME ZonesInv, NEW t \in Context, UNCHANGED uvmzone,
         IsBitmap(bitmap'), LocalTypes', PageTypes',
         OthersStay(t), CallOK(t)',
         \A p \in UserPage : pt'[p] # None =>
           p \in Mapped(uvmzone) \/ (pt[p] # None /\ (Unmaps(t, p) => Unmaps(t, p)')),
         HaltsOnlyWhenFull'
  PROVE  ZonesInv'
<1>1. Types' /\ Mapped(uvmzone') = Mapped(uvmzone)
  BY DEF ZonesInv, Types
<1>2. CallsInv'
  BY <1>1, OthersKeep DEF ZonesInv, CallsInv
<1>3. ASSUME NEW p \in UserPage, pt'[p] # None, p \notin Mapped(uvmzone) PROVE StillToUnmap(p)'
  <2>1. PICK u \in Context : Unmaps(u, p)
    BY <1>3 DEF ZonesInv, LeftInv, StillToUnmap
  <2>2. CASE u = t
    BY <1>3, <2>1, <2>2 DEF StillToUnmap
  <2>3. CASE u # t
    BY <2>1, <2>3, StaysUnmapping DEF StillToUnmap, OthersStay
  <2> QED BY <2>2, <2>3
<1>4. LeftInv'
  BY <1>1, <1>3 DEF LeftInv
<1> QED BY <1>1, <1>2, <1>4 DEF ZonesInv

LEMMA NowUser ==
  ASSUME NEW t \in Context, NEW page, NEW stop, NEW frm, Now(t, "user", page, stop, frm)
  PROVE  CallOK(t)'
BY DEF Now, CallOK, InCall, FaultSteps, UnmapSteps

LEMMA NowFaulting ==
  ASSUME NEW t \in Context, NEW step \in FaultSteps, NEW page, NEW stop, NEW frm,
         Now(t, step, page, stop, frm), page \in UserPage => page \in Mapped(uvmzone')
  PROVE  CallOK(t)'
BY DEF Now, CallOK, InCall, FaultSteps, UnmapSteps

(* mmap() has found a place for its pages; kmalloc is called.              *)
LEMMA Placed ==
  ASSUME NEW va \in UserPage, NEW npages \in 1 .. MaxLength, Allocatable(va, npages)
  PROVE  npages \in Nat \ {0} /\ va + npages \in UserMin .. UserMax
<1>1. va \in Nat /\ UserMin <= va /\ npages \in Nat \ {0}
  BY PageZoneAssumption, VirtualMemoryAssumption DEF UserPage
<1>2. va + npages <= UserMax
  BY <1>1, PageZoneAssumption DEF Allocatable, CanAllocInAddr, CanAllocPages
<1> QED BY <1>1, <1>2, PageZoneAssumption

LEMMA MmapZones ==
  ASSUME ZonesInv, ~halted, NEW t \in Context, NEW va \in UserPage, NEW npages \in 1 .. MaxLength,
         NEW offset \in Device \cup {None}, Mmap(t, va, npages, offset)
  PROVE  ZonesInv'
<1>1. /\ UNCHANGED <<uvmzone, bitmap, pt, content, halted>> /\ UNCHANGED history
      /\ UNCHANGED uvmzone /\ LocalTypes /\ PageTypes /\ pc[t] = "user"
      /\ ToStep(t, "insert", va, offset) /\ end' = [end EXCEPT ![t] = va + npages]
      /\ Allocatable(va, npages)
      /\ offset # None => Bits(offset, npages) \subseteq Device
  BY DEF Mmap, MayCall, ZonesInv, Types
<1>2. npages \in Nat \ {0} /\ va + npages \in UserMin .. UserMax /\ va \in Nat /\ va \in Page
  BY <1>1, Placed, KernelPages
<1>3. PICK stop \in UserMin .. UserMax : stop = va + npages
  BY <1>2
<1>4. LocalTypes' /\ Now(t, "insert", va, stop, offset)
  BY <1>1, <1>2, <1>3, Moved DEF PC, AnyFrame
<1>5. PageTypes' /\ IsBitmap(bitmap') /\ HaltsOnlyWhenFull'
  BY <1>1 DEF PageTypes, history, ZonesInv, Types, HaltsOnlyWhenFull
<1>6. CallOK(t)'
  <2>1. pc'[t] = "insert" /\ at'[t] = va /\ end'[t] = stop /\ frame'[t] = offset
    BY <1>4 DEF Now
  <2>2. va < stop /\ stop - va = npages
    BY <1>2, <1>3, PageZoneAssumption
  <2>3. offset # None => Enterable(offset, stop - va)
    BY <1>1, <2>2, VirtualMemoryAssumption DEF Enterable
  <2> QED BY <2>1, <2>2, <2>3 DEF CallOK, FaultSteps
<1>7. \A q : ~Unmaps(t, q)
  BY <1>1 DEF Unmaps, UnmapSteps
<1> QED BY <1>1, <1>4, <1>5, <1>6, <1>7, WithinZones DEF Now

(* The zone is inserted, for this and the invariant of the data.           *)
LEMMA InsertNow ==
  ASSUME ZonesInv, NEW t \in Context, Insert(t)
  PROVE  /\ pc[t] = "insert" /\ LocalTypes' /\ OthersStay(t)
         /\ ZoneList(uvmzone')
         /\ Mapped(uvmzone') = Mapped(uvmzone) \cup ToDo(t)
         /\ ToDo(t) \cap Mapped(uvmzone) = {} /\ ToDo(t) \subseteq UserPage
         /\ at[t] \in UserPage /\ at[t] < end[t]
         /\ \/ frame[t] = None /\ Now(t, "user", UserMin, UserMin, None)
            \/ /\ frame[t] # None /\ Enterable(frame[t], end[t] - at[t])
               /\ Now(t, "device", at[t], end[t], frame[t])
<1>1. /\ pc[t] = "insert" /\ Allocate(at[t], end[t] - at[t])
      /\ ZoneList(uvmzone) /\ LocalTypes
      /\ frame[t] = None => Return(t)
      /\ frame[t] # None => ToStep(t, "device", at[t], frame[t]) /\ UNCHANGED end
  BY DEF Insert, ZonesInv, Types
<1>2. /\ at[t] \in UserPage /\ at[t] < end[t]
      /\ frame[t] # None => Enterable(frame[t], end[t] - at[t])
  BY <1>1 DEF ZonesInv, CallsInv, CallOK, InCall
<1>3. at[t] \in Nat /\ end[t] \in Nat /\ end[t] - at[t] \in Nat \ {0} /\ at[t] \in Page
  BY <1>1, <1>2, KernelPages, PageZoneAssumption DEF LocalTypes
<1>4. Adds(uvmzone, uvmzone', at[t], end[t] - at[t])
  BY <1>1, <1>2, <1>3, Allocated
<1>5. at[t] .. at[t] + (end[t] - at[t]) - 1 = ToDo(t)
  BY <1>3 DEF ToDo
<1>6. /\ ZoneList(uvmzone') /\ Mapped(uvmzone') = Mapped(uvmzone) \cup ToDo(t)
      /\ ToDo(t) \cap Mapped(uvmzone) = {}
  BY <1>4, <1>5 DEF Adds
<1>7. ToDo(t) \subseteq UserPage
  BY <1>6, MappedPages
<1>8. CASE frame[t] = None
  <2>1. LocalTypes' /\ Now(t, "user", UserMin, UserMin, None)
    BY <1>1, <1>8, Returned
  <2> QED BY <1>1, <1>2, <1>6, <1>7, <1>8, <2>1 DEF Now
<1>9. CASE frame[t] # None
  <2>1. LocalTypes' /\ Now(t, "device", at[t], end[t], frame[t])
    BY <1>1, <1>3, <1>9, MovedOn DEF PC, LocalTypes
  <2> QED BY <1>1, <1>2, <1>6, <1>7, <1>9, <2>1 DEF Now
<1> QED BY <1>8, <1>9

LEMMA InsertZones ==
  ASSUME ZonesInv, ~halted, NEW t \in Context, Insert(t)
  PROVE  ZonesInv'
<1>1. /\ pc[t] = "insert" /\ LocalTypes' /\ OthersStay(t)
      /\ ZoneList(uvmzone')
      /\ Mapped(uvmzone') = Mapped(uvmzone) \cup ToDo(t)
      /\ at[t] \in UserPage /\ at[t] < end[t]
      /\ \/ frame[t] = None /\ Now(t, "user", UserMin, UserMin, None)
         \/ /\ frame[t] # None /\ Enterable(frame[t], end[t] - at[t])
            /\ Now(t, "device", at[t], end[t], frame[t])
  BY InsertNow
<1>2. UNCHANGED <<bitmap, pt, content, halted>> /\ UNCHANGED history /\ PageTypes
  BY DEF Insert, ZonesInv, Types
<1>3. PageTypes' /\ IsBitmap(bitmap') /\ HaltsOnlyWhenFull'
  BY <1>2 DEF PageTypes, history, ZonesInv, Types, HaltsOnlyWhenFull
<1>4. CallOK(t)'
  <2>1. CASE Now(t, "user", UserMin, UserMin, None)
    BY <2>1, NowUser
  <2>2. CASE Enterable(frame[t], end[t] - at[t]) /\ Now(t, "device", at[t], end[t], frame[t])
    <3>1. /\ pc'[t] = "device" /\ at'[t] = at[t] /\ end'[t] = end[t] /\ frame'[t] = frame[t]
          /\ ToDo(t)' = ToDo(t)
      BY <2>2 DEF Now, ToDo
    <3> QED BY <1>1, <2>2, <3>1 DEF CallOK, FaultSteps
  <2> QED BY <1>1, <2>1, <2>2
<1>5. CallsInv'
  BY <1>1, <1>4, OthersKeep DEF CallsInv, ZonesInv
<1>6. LeftInv'
  <2>1. pc[t] \notin UnmapSteps
    BY <1>1 DEF UnmapSteps
  <2>2. \A p : StillToUnmap(p) => StillToUnmap(p)'
    BY <1>1, <2>1, OthersKeep DEF ZonesInv
  <2> QED BY <1>1, <1>2, <2>2 DEF LeftInv, ZonesInv
<1> QED BY <1>1, <1>3, <1>5, <1>6 DEF ZonesInv, Types

LEMMA UnmapReadZones ==
  ASSUME ZonesInv, ~halted, NEW t \in Context, UnmapRead(t)
  PROVE  ZonesInv'
<1>1. /\ pc[t] = "read" /\ UNCHANGED <<uvmzone, bitmap, pt, content, halted>>
      /\ UNCHANGED history /\ LocalTypes /\ PageTypes
      /\ at[t] \in Page /\ pt[at[t]] \in AnyFrame
  BY DEF UnmapRead, ZonesInv, Types, LocalTypes, PageTypes
<1>2. at[t] \in UserPage /\ at[t] < end[t] /\ at[t] \in Nat /\ end[t] \in Nat
  BY <1>1, PageZoneAssumption DEF ZonesInv, CallsInv, CallOK, InCall, UnmapSteps, LocalTypes, UserPage
<1>3. PageTypes' /\ IsBitmap(bitmap') /\ HaltsOnlyWhenFull'
  BY <1>1 DEF PageTypes, history, ZonesInv, Types, HaltsOnlyWhenFull
<1>4. CASE pt[at[t]] = None
  <2>1. /\ LocalTypes' /\ OthersStay(t)
        /\ \/ at[t] + 1 = end[t] /\ Now(t, "user", UserMin, UserMin, None)
           \/ /\ at[t] + 1 < end[t] /\ at[t] + 1 \in UserPage
              /\ Now(t, "read", at[t] + 1, end[t], None)
    <3>1. NextPage(t, "read", None)
      BY <1>4 DEF UnmapRead
    <3> QED BY <1>1, <1>2, <3>1, UserMinPage, PassedPage DEF PC, UnmapSteps
  <2>2. CallOK(t)'
    <3>1. CASE at[t] + 1 \in UserPage /\ at[t] + 1 < end[t] /\ Now(t, "read", at[t] + 1, end[t], None)
      BY <3>1 DEF Now, CallOK, FaultSteps
    <3> QED BY <2>1, <3>1, NowUser
  <2>3. ASSUME NEW p \in UserPage, pt'[p] # None, Unmaps(t, p) PROVE Unmaps(t, p)'
    <3>1. p \in at[t] .. end[t] - 1 /\ p # at[t]
      BY <1>1, <1>4, <2>3 DEF Unmaps, ToDo
    <3>2. p \in at[t] + 1 .. end[t] - 1 /\ at[t] + 1 < end[t]
      BY <3>1, <1>2
    <3>3. pc'[t] = "read" /\ at'[t] = at[t] + 1 /\ end'[t] = end[t]
      BY <2>1, <3>2, <1>2 DEF Now
    <3> QED BY <3>2, <3>3 DEF Unmaps, ToDo, UnmapSteps
  <2> QED BY <1>1, <1>3, <2>1, <2>2, <2>3, WithinZones
<1>5. CASE pt[at[t]] # None
  <2>1. LocalTypes' /\ Now(t, "clear", at[t], end[t], pt[at[t]])
    <3>1. ToStep(t, "clear", at[t], pt[at[t]]) /\ UNCHANGED end
      BY <1>5 DEF UnmapRead
    <3> QED BY <1>1, <3>1, MovedOn DEF PC, UnmapSteps
  <2>2. CallOK(t)'
    BY <1>2, <1>5, <2>1 DEF Now, CallOK, FaultSteps
  <2>3. \A p : Unmaps(t, p) => Unmaps(t, p)'
    BY <2>1 DEF Now, Unmaps, UnmapSteps, ToDo
  <2> QED BY <1>1, <1>3, <2>1, <2>2, <2>3, WithinZones DEF Now
<1> QED BY <1>4, <1>5

LEMMA UnmapClearZones ==
  ASSUME ZonesInv, ~halted, NEW t \in Context, UnmapClear(t)
  PROVE  ZonesInv'
<1>1. /\ pc[t] = "clear" /\ UNCHANGED <<uvmzone, bitmap, content, halted>>
      /\ UNCHANGED history /\ LocalTypes /\ PageTypes
      /\ at[t] \in Page /\ frame[t] \in AnyFrame
      /\ pt' = [pt EXCEPT ![at[t]] = None]
  BY DEF UnmapClear, ZonesInv, Types, LocalTypes
<1>2. at[t] \in UserPage /\ at[t] < end[t] /\ frame[t] # None
  BY <1>1 DEF ZonesInv, CallsInv, CallOK, InCall, UnmapSteps
<1>3. PageTypes' /\ IsBitmap(bitmap') /\ HaltsOnlyWhenFull'
  BY <1>1, UserMinPage DEF PageTypes, history, ZonesInv, Types, HaltsOnlyWhenFull
<1>4. LocalTypes' /\ Now(t, "free", at[t], end[t], frame[t])
  <2>1. ToStep(t, "free", at[t], frame[t]) /\ UNCHANGED end
    BY DEF UnmapClear
  <2> QED BY <1>1, <2>1, MovedOn DEF PC, UnmapSteps
<1>5. CallOK(t)'
  BY <1>2, <1>4 DEF Now, CallOK, FaultSteps
<1>6. \A p \in UserPage : pt'[p] # None => pt[p] # None /\ (Unmaps(t, p) => Unmaps(t, p)')
  BY <1>1, <1>4, KernelPages DEF PageTypes, Now, Unmaps, UnmapSteps, ToDo
<1> QED BY <1>1, <1>3, <1>4, <1>5, <1>6, WithinZones DEF Now

LEMMA UnmapFreeZones ==
  ASSUME ZonesInv, ~halted, NEW t \in Context, UnmapFree(t)
  PROVE  ZonesInv'
<1>1. /\ pc[t] = "free" /\ UNCHANGED <<uvmzone, pt, content, halted>>
      /\ UNCHANGED history /\ LocalTypes /\ PageTypes
      /\ at[t] \in Page /\ frame[t] \in AnyFrame
      /\ bitmap' = FrameFree(bitmap, frame[t], 1) /\ NextPage(t, "read", None)
  BY DEF UnmapFree, ZonesInv, Types, LocalTypes
<1>2. at[t] \in UserPage /\ at[t] < end[t] /\ frame[t] # None /\ at[t] \in Nat /\ end[t] \in Nat
  BY <1>1, PageZoneAssumption DEF ZonesInv, CallsInv, CallOK, InCall, UnmapSteps, LocalTypes, UserPage
<1>3. PageTypes' /\ HaltsOnlyWhenFull'
  BY <1>1 DEF PageTypes, history, HaltsOnlyWhenFull
<1>4. IsBitmap(bitmap')
  <2>1. frame[t] \in Nat
    BY <1>1, <1>2, RamHasBits, VirtualMemoryAssumption DEF AnyFrame
  <2> QED BY <1>1, <2>1, FreeFrame DEF ZonesInv, Types
<1>5. /\ LocalTypes' /\ OthersStay(t)
      /\ \/ at[t] + 1 = end[t] /\ Now(t, "user", UserMin, UserMin, None)
         \/ /\ at[t] + 1 < end[t] /\ at[t] + 1 \in UserPage
            /\ Now(t, "read", at[t] + 1, end[t], None)
  BY <1>1, <1>2, UserMinPage, PassedPage DEF PC, UnmapSteps
<1>6. CallOK(t)'
  <2>1. CASE at[t] + 1 \in UserPage /\ at[t] + 1 < end[t] /\ Now(t, "read", at[t] + 1, end[t], None)
    BY <2>1 DEF Now, CallOK, FaultSteps
  <2> QED BY <1>5, <2>1, NowUser
<1>7. ASSUME NEW p \in UserPage, Unmaps(t, p) PROVE Unmaps(t, p)'
  <2>1. p \in at[t] .. end[t] - 1 /\ p # at[t]
    BY <1>1, <1>7 DEF Unmaps, ToDo
  <2>2. p \in at[t] + 1 .. end[t] - 1 /\ at[t] + 1 < end[t]
    BY <2>1, <1>2
  <2>3. pc'[t] = "read" /\ at'[t] = at[t] + 1 /\ end'[t] = end[t]
    BY <1>5, <2>2, <1>2 DEF Now
  <2> QED BY <2>2, <2>3 DEF Unmaps, ToDo, UnmapSteps
<1> QED BY <1>1, <1>3, <1>4, <1>5, <1>6, <1>7, WithinZones

LEMMA StoreZones ==
  ASSUME ZonesInv, ~halted, NEW t \in Context, NEW p \in UserPage, NEW v \in Value,
         Store(t, p, v)
  PROVE  ZonesInv'
<1>1. /\ pc[t] = "user" /\ UNCHANGED <<uvmzone, bitmap, pt, halted>>
      /\ content' = [content EXCEPT ![pt[p]] = v] /\ last' = [last EXCEPT ![p] = v]
      /\ UNCHANGED locals /\ LocalTypes /\ PageTypes
  BY DEF Store, ZonesInv, Types
<1>2. PageTypes' /\ IsBitmap(bitmap') /\ HaltsOnlyWhenFull'
  BY <1>1 DEF PageTypes, ZonesInv, Types, HaltsOnlyWhenFull
<1>3. LocalTypes' /\ \A u \in Context : Stays(u)
  BY <1>1, Stayed
<1>4. CallOK(t)' /\ OthersStay(t)
  BY <1>1, <1>3 DEF CallOK, Stays, OthersStay, InCall, FaultSteps, UnmapSteps
<1>5. \A q : ~Unmaps(t, q)
  BY <1>1 DEF Unmaps, UnmapSteps
<1> QED BY <1>1, <1>2, <1>3, <1>4, <1>5, WithinZones

LEMMA EntersFault ==
  ASSUME ZonesInv, NEW t \in Context, pc[t] = "user", NEW p \in Page,
         p \in UserPage => p \in Mapped(uvmzone),
         UNCHANGED <<uvmzone, bitmap, pt, content, end, halted, last>>,
         ToStep(t, "prot", p, None)
  PROVE  ZonesInv'
<1>1. /\ UNCHANGED uvmzone /\ UNCHANGED end /\ LocalTypes /\ PageTypes
      /\ UNCHANGED <<pt, content, halted, last>> /\ UNCHANGED bitmap
  BY DEF ZonesInv, Types
<1>2. PageTypes' /\ IsBitmap(bitmap') /\ HaltsOnlyWhenFull'
  BY <1>1 DEF PageTypes, ZonesInv, Types, HaltsOnlyWhenFull
<1>3. LocalTypes' /\ Now(t, "prot", p, end[t], None)
  BY <1>1, UserMinPage, MovedOn DEF PC, FaultSteps
<1>4. CallOK(t)'
  BY <1>1, <1>3, NowFaulting DEF FaultSteps
<1>5. \A q : ~Unmaps(t, q)
  BY DEF Unmaps, UnmapSteps
<1> QED BY <1>1, <1>2, <1>3, <1>4, <1>5, WithinZones DEF Now

LEMMA FaultZones ==
  ASSUME ZonesInv, ~halted, NEW t \in Context, NEW p \in Touchable, Fault(t, p)
  PROVE  ZonesInv'
<1>1. /\ pc[t] = "user" /\ UNCHANGED <<uvmzone, bitmap, pt, content, end, halted, last>>
      /\ ToStep(t, "prot", p, None) /\ ZoneList(uvmzone)
  BY DEF Fault, ZonesInv, Types
<1>2. p \in Mapped(uvmzone) /\ p \in Page
  BY <1>1, KernelPages, MappedPages DEF Touchable
<1> QED BY <1>1, <1>2, EntersFault

(* The page faults that a thread takes in the kernel.                      *)
LEMMA NestedFault ==
  ASSUME NEW t \in Thread
  PROVE  Own(t) \in Context /\ Nested(t) \in Context /\ Own(t) # Nested(t)
BY DEF Own, Nested, Context

LEMMA TableFaultNow ==
  ASSUME NEW t \in Thread, TableFault(t), LocalTypes
  PROVE  /\ TableOf(at[Own(t)]) \in Page /\ TableOf(at[Own(t)]) \notin UserPage
         /\ UNCHANGED <<uvmzone, bitmap, pt, content, end, halted, last, dropped>>
         /\ UNCHANGED contended
         /\ ToStep(Nested(t), "prot", TableOf(at[Own(t)]), None)
BY KernelPages DEF TableFault, Enters, Reached

LEMMA ClearFaultNow ==
  ASSUME NEW t \in Thread, ClearFault(t), ZonesInv
  PROVE  /\ at[Own(t)] \in Page
         /\ at[Own(t)] \in UserPage => at[Own(t)] \in Mapped(uvmzone)
         /\ pc[Own(t)] \in FaultSteps /\ pt[at[Own(t)]] = None /\ Contends(at[Own(t)])
         /\ UNCHANGED <<uvmzone, bitmap, pt, content, end, halted, last, dropped>>
         /\ ToStep(Nested(t), "prot", at[Own(t)], None)
BY NestedFault DEF ClearFault, Enters, ZonesInv, Types, LocalTypes, CallsInv, CallOK, FaultSteps

LEMMA HeapFaultNow ==
  ASSUME NEW t \in Thread, NEW p \in HeapPage, HeapFault(t, p)
  PROVE  /\ p \in Page /\ p \notin UserPage
         /\ UNCHANGED <<uvmzone, bitmap, pt, content, end, halted, last, dropped>>
         /\ UNCHANGED contended
         /\ ToStep(Nested(t), "prot", p, None)
BY KernelPages DEF HeapFault, Enters

LEMMA KernelFaultZones ==
  ASSUME ZonesInv, ~halted, NEW t \in Thread, pc[Nested(t)] = "user",
         TableFault(t) \/ ClearFault(t) \/ \E p \in HeapPage : HeapFault(t, p)
  PROVE  ZonesInv'
<1>1. LocalTypes /\ Nested(t) \in Context
  BY NestedFault DEF ZonesInv, Types
<1>2. CASE TableFault(t)
  <2>1. /\ TableOf(at[Own(t)]) \in Page /\ TableOf(at[Own(t)]) \notin UserPage
        /\ UNCHANGED <<uvmzone, bitmap, pt, content, end, halted, last>>
        /\ ToStep(Nested(t), "prot", TableOf(at[Own(t)]), None)
    BY <1>1, <1>2, TableFaultNow
  <2> QED BY <1>1, <2>1, EntersFault
<1>3. CASE ClearFault(t)
  <2>1. /\ at[Own(t)] \in Page
        /\ at[Own(t)] \in UserPage => at[Own(t)] \in Mapped(uvmzone)
        /\ UNCHANGED <<uvmzone, bitmap, pt, content, end, halted, last>>
        /\ ToStep(Nested(t), "prot", at[Own(t)], None)
    BY <1>3, ClearFaultNow
  <2> QED BY <1>1, <2>1, EntersFault
<1>4. CASE \E p \in HeapPage : HeapFault(t, p)
  <2>1. PICK p \in HeapPage : HeapFault(t, p)
    BY <1>4
  <2>2. /\ p \in Page /\ p \notin UserPage
        /\ UNCHANGED <<uvmzone, bitmap, pt, content, end, halted, last>>
        /\ ToStep(Nested(t), "prot", p, None)
    BY <2>1, HeapFaultNow
  <2> QED BY <1>1, <2>2, EntersFault
<1> QED BY <1>2, <1>3, <1>4

(* What the steps of do_page_fault() have in common.                       *)
LEMMA FaultingNow ==
  ASSUME ZonesInv, NEW t \in Context, pc[t] \in FaultSteps
  PROVE  /\ LocalTypes /\ PageTypes /\ at[t] \in Page /\ frame[t] \in AnyFrame
         /\ at[t] \in UserPage => at[t] \in Mapped(uvmzone)
         /\ \A p : ~Unmaps(t, p)
BY DEF ZonesInv, Types, CallsInv, CallOK, LocalTypes, Unmaps, FaultSteps, UnmapSteps

LEMMA FaultProtZones ==
  ASSUME ZonesInv, ~halted, NEW t \in Context, FaultProt(t)
  PROVE  ZonesInv'
<1>1. /\ pc[t] = "prot" /\ UNCHANGED <<uvmzone, pt, content>> /\ UNCHANGED history
      /\ pc[t] \in FaultSteps
  BY DEF FaultProt, FaultSteps
<1>2. /\ LocalTypes /\ PageTypes /\ at[t] \in Page /\ frame[t] \in AnyFrame
      /\ at[t] \in UserPage => at[t] \in Mapped(uvmzone)
      /\ \A p : ~Unmaps(t, p)
  BY <1>1, FaultingNow
<1>3. ToStep(t, "alloc", at[t], None) /\ UNCHANGED <<bitmap, end, halted>>
  BY <1>2 DEF FaultProt
<1>4. PageTypes' /\ IsBitmap(bitmap') /\ HaltsOnlyWhenFull'
  BY <1>1, <1>2, <1>3 DEF PageTypes, history, ZonesInv, Types, HaltsOnlyWhenFull
<1>5. LocalTypes' /\ Now(t, "alloc", at[t], end[t], None)
  BY <1>2, <1>3, UserMinPage, MovedOn DEF PC, FaultSteps
<1>6. CallOK(t)'
  BY <1>1, <1>2, <1>5, NowFaulting DEF FaultSteps
<1> QED BY <1>1, <1>2, <1>4, <1>5, <1>6, WithinZones DEF Now

LEMMA FaultAllocZones ==
  ASSUME ZonesInv, ~halted, NEW t \in Context, FaultAlloc(t)
  PROVE  ZonesInv'
<1>1. /\ pc[t] = "alloc" /\ UNCHANGED <<uvmzone, pt, content>> /\ UNCHANGED history
      /\ pc[t] \in FaultSteps
  BY DEF FaultAlloc, FaultSteps
<1>2. /\ LocalTypes /\ PageTypes /\ at[t] \in Page /\ frame[t] \in AnyFrame
      /\ at[t] \in UserPage => at[t] \in Mapped(uvmzone)
      /\ \A p : ~Unmaps(t, p)
  BY <1>1, FaultingNow
<1>3. CASE CanAlloc(bitmap, 1)
  <2>1. PICK pa : pa = FrameAlloc(bitmap, 1).pa
    OBVIOUS
  <2>2. /\ bitmap' = FrameAlloc(bitmap, 1).bitmap /\ ToStep(t, "map", at[t], pa)
        /\ UNCHANGED <<end, halted>>
    BY <1>3, <2>1 DEF FaultAlloc
  <2>3. IsBitmap(bitmap') /\ pa \in AnyFrame
    BY <1>3, <2>1, <2>2, AllocFrame DEF ZonesInv, Types, AnyFrame
  <2>4. PageTypes' /\ HaltsOnlyWhenFull'
    BY <1>1, <1>2, <2>2 DEF PageTypes, history, HaltsOnlyWhenFull
  <2>5. LocalTypes' /\ Now(t, "map", at[t], end[t], pa)
    BY <1>2, <2>2, <2>3, MovedOn DEF PC, FaultSteps
  <2>6. CallOK(t)'
    BY <1>1, <1>2, <2>5, NowFaulting DEF FaultSteps
  <2> QED BY <1>1, <1>2, <2>3, <2>4, <2>5, <2>6, WithinZones DEF Now
<1>4. CASE ~CanAlloc(bitmap, 1)
  <2>1. halted' = TRUE /\ Return(t) /\ UNCHANGED bitmap
    BY <1>4 DEF FaultAlloc, Halt
  <2>2. HaltsOnlyWhenFull'
    BY <1>4, <2>1, FailsOnlyWhenFull DEF HaltsOnlyWhenFull
  <2>3. PageTypes' /\ IsBitmap(bitmap')
    BY <1>1, <1>2, <2>1 DEF PageTypes, history, ZonesInv, Types
  <2>4. LocalTypes' /\ Now(t, "user", UserMin, UserMin, None)
    BY <1>2, <2>1, Returned
  <2>5. CallOK(t)'
    BY <2>4, NowUser
  <2> QED BY <1>1, <1>2, <2>2, <2>3, <2>4, <2>5, WithinZones DEF Now
<1> QED BY <1>3, <1>4

LEMMA FaultMapZones ==
  ASSUME ZonesInv, ~halted, NEW t \in Context, FaultMap(t)
  PROVE  ZonesInv'
<1>1. /\ pc[t] = "map" /\ UNCHANGED <<uvmzone, bitmap, content, halted, last>>
      /\ pt' = [pt EXCEPT ![at[t]] = frame[t]]
      /\ ToStep(t, "zero", at[t], None) /\ UNCHANGED end
      /\ pc[t] \in FaultSteps
  BY DEF FaultMap, FaultSteps
<1>2. /\ LocalTypes /\ PageTypes /\ at[t] \in Page /\ frame[t] \in AnyFrame
      /\ at[t] \in UserPage => at[t] \in Mapped(uvmzone)
      /\ \A p : ~Unmaps(t, p)
  BY <1>1, FaultingNow
<1>3. PageTypes' /\ IsBitmap(bitmap') /\ HaltsOnlyWhenFull'
  BY <1>1, <1>2 DEF PageTypes, ZonesInv, Types, HaltsOnlyWhenFull
<1>4. LocalTypes' /\ Now(t, "zero", at[t], end[t], None)
  BY <1>1, <1>2, UserMinPage, MovedOn DEF PC, FaultSteps
<1>5. CallOK(t)'
  BY <1>1, <1>2, <1>4, NowFaulting DEF FaultSteps
<1>6. \A p \in UserPage : pt'[p] # None => p \in Mapped(uvmzone) \/ pt[p] # None
  BY <1>1, <1>2, KernelPages DEF PageTypes
<1> QED BY <1>1, <1>2, <1>3, <1>4, <1>5, <1>6, WithinZones DEF Now

LEMMA FaultZeroZones ==
  ASSUME ZonesInv, ~halted, NEW t \in Context, FaultZero(t)
  PROVE  ZonesInv'
<1>1. /\ pc[t] = "zero" /\ UNCHANGED <<uvmzone, bitmap, pt, halted>> /\ UNCHANGED history
      /\ content' = [content EXCEPT ![pt[at[t]]] = Zero] /\ Return(t)
      /\ pc[t] \in FaultSteps
  BY DEF FaultZero, FaultSteps
<1>2. LocalTypes /\ PageTypes /\ \A p : ~Unmaps(t, p)
  BY <1>1, FaultingNow
<1>3. PageTypes' /\ IsBitmap(bitmap') /\ HaltsOnlyWhenFull'
  BY <1>1, <1>2, VirtualMemoryAssumption
  DEF PageTypes, history, ZonesInv, Types, HaltsOnlyWhenFull
<1>4. LocalTypes' /\ Now(t, "user", UserMin, UserMin, None)
  BY <1>1, <1>2, Returned
<1>5. CallOK(t)'
  BY <1>4, NowUser
<1> QED BY <1>1, <1>2, <1>3, <1>4, <1>5, WithinZones DEF Now

LEMMA TopContext ==
  ASSUME NEW t \in Thread
  PROVE  Top(t) \in Context /\ (Top(t) = Own(t) => pc[Nested(t)] = "user")
BY NestedFault DEF Top

LEMMA ZonesNext == ZonesInv /\ [Next]_vars => ZonesInv'
<1> SUFFICES ASSUME ZonesInv, [Next]_vars PROVE ZonesInv'
  OBVIOUS
<1>1. CASE UNCHANGED memory
  BY <1>1 DEF memory, ZonesInv, Types, LocalTypes, PageTypes, CallsInv, CallOK, InCall, ToDo,
              LeftInv, StillToUnmap, Unmaps, HaltsOnlyWhenFull
<1>2. CASE Next /\ ~UNCHANGED memory
  <2>1. ~halted
    BY <1>2 DEF Next
  <2>2. PICK s \in Thread : Works(s)
    BY <1>2 DEF Next
  <2>3. PICK t \in Context : t = Top(s)
    BY TopContext
  <2>4. CASE Call(t)
    BY <2>1, <2>4, MmapZones, MunmapZones DEF Call
  <2>5. CASE Step(t)
    BY <2>1, <2>5, InsertZones, PageMapZones, UnmapReadZones, UnmapClearZones, UnmapFreeZones,
       FaultProtZones, FaultAllocZones, FaultMapZones, FaultZeroZones DEF Step
  <2>6. CASE Touch(t)
    <3>1. PICK p \in Touchable : Fault(t, p) \/ \E v \in Value \ {Zero} : Store(t, p, v)
      BY <2>6 DEF Touch
    <3>2. p \in UserPage
      BY MappedPages DEF Touchable, ZonesInv, Types
    <3> QED BY <2>1, <3>1, <3>2, FaultZones, StoreZones
  <2>7. CASE /\ Top(s) = Own(s)
             /\ TableFault(s) \/ ClearFault(s) \/ \E p \in HeapPage : HeapFault(s, p)
    BY <2>1, <2>7, TopContext, KernelFaultZones
  <2> QED BY <2>2, <2>3, <2>4, <2>5, <2>6, <2>7 DEF Works
<1> QED BY <1>1, <1>2 DEF vars

(* The invariant of the zones and of the calls in progress, whatever the   *)
(* threads call and touch together: no call of mmap(), munmap() or         *)
(* do_page_fault() loses sight of its pages.                               *)
THEOREM ZonesSafe == Spec => []ZonesInv
BY ZonesInit, ZonesNext, PTL DEF Spec

(* The zones of the user address space stay inside it, sorted and apart:   *)
(* page_alloc_in_addr() compares a new zone with one other only, and       *)
(* page_free() removes one that begins where the address says.  Other      *)
(* threads run, and fault, between the search and the insertion; that they *)
(* do not enter the kernel heap meanwhile is what ~torn says.              *)
THEOREM ZonesStayApart == Spec => []ZonesApart
<1>1. ZonesInv => ZonesApart
  BY DEF ZonesInv, Types, ZoneList, Inside, ZonesInOrder, ZonesApart
<1> QED BY <1>1, ZonesSafe, PTL

(* No page stays mapped outside the zones, except where munmap() is still  *)
(* on its way, until a page table or the kernel heap is damaged.           *)
THEOREM UnmapsWholeZones == Spec => []NothingLeftMapped
<1>1. ZonesInv => NothingLeftMapped
  BY DEF ZonesInv, LeftInv, StillToUnmap, Unmaps, ToDo, OthersUnmapped, NothingLeftMapped
<1> QED BY <1>1, ZonesSafe, PTL

(* do_page_fault() stops the machine for a legal access only when          *)
(* frame_alloc() finds every bit set.                                      *)
THEOREM HaltsWhenFull == Spec => []HaltsOnlyWhenFull
<1>1. ZonesInv => HaltsOnlyWhenFull
  BY DEF ZonesInv
<1> QED BY <1>1, ZonesSafe, PTL

--------------------------------------------------------------------------------
(* A program that serializes mmap and munmap, on zones whose bits do not   *)
(* overlap.  One thread at a time is in mmap or munmap; what munmap has    *)
(* given up is not mapped, what mmap enters into the page table is not in  *)
(* it, and no thread faults there.                                         *)
OneCaller == \A u, v \in Context : InCall(u) /\ InCall(v) => u = v
GivenUp(u) == pc[u] \in UnmapSteps => ToDo(u) \cap Mapped(uvmzone) = {}
NotEntered(u) == pc[u] = "device" => \A p \in ToDo(u) : pt[p] = None
FaultsElsewhere(u) == pc[u] \in FaultSteps => at[u] \notin Unfinished
SerialInv ==
  OneCaller /\ \A u \in Context : GivenUp(u) /\ NotEntered(u) /\ FaultsElsewhere(u)

(* Where the frames on their way come from.                                *)
Taken(u) ==
  /\ pc[u] = "map" => frame[u] \in BitFrame
  /\ pc[u] = "clear" => pt[at[u]] = frame[u]
TakenInv == \A u \in Context : Taken(u)

FrameInv == SerialInv /\ TakenInv /\ UsedOnce /\ AllKnown

LEMMA UnfinishedPages ==
  \A p : p \in Unfinished <=> \E u \in Context : pc[u] = "device" /\ p \in ToDo(u)
BY DEF Unfinished, ToDo

(* The frames that frame_alloc() hands out are not those of a device.      *)
LEMMA FramesApart ==
  /\ \A f \in BitFrame : f \in AnyFrame /\ f \notin Device /\ f # None
  /\ \A f \in AnyFrame : f \notin Device \cup {None} => f \in BitFrame
  /\ Device \cap RamFrame = {} /\ None \notin Device /\ RamFrame \subseteq BitFrame
BY VirtualMemoryAssumption, RamHasBits DEF AnyFrame

(* A thread outside mmap and munmap moves, and touches no page that mmap   *)
(* has yet to enter.                                                       *)
LEMMA OutsideCalls ==
  ASSUME SerialInv, NEW t \in Context, OthersStay(t), UNCHANGED uvmzone,
         ~InCall(t), ~InCall(t)',
         \A p : p \notin Unfinished \/ pt'[p] = pt[p],
         pc'[t] \in FaultSteps => at'[t] \notin Unfinished
  PROVE  SerialInv'
<1>1. \A u \in Context : InCall(u)' => u # t /\ Stays(u)
  BY DEF OthersStay
<1>2. \A u \in Context : pc'[u] \in UnmapSteps \cup {"device"} => u # t /\ Stays(u)
  BY <1>1 DEF InCall
<1>3. \A p : p \in Unfinished' => p \in Unfinished
  BY <1>2 DEF Unfinished, Stays
<1>4. OneCaller'
  BY <1>1 DEF SerialInv, OneCaller, InCall, Stays
<1>5. ASSUME NEW u \in Context PROVE GivenUp(u)'
  BY <1>2 DEF SerialInv, GivenUp, Stays, ToDo
<1>6. ASSUME NEW u \in Context PROVE NotEntered(u)'
  <2> SUFFICES ASSUME pc'[u] = "device", NEW p \in ToDo(u)' PROVE pt'[p] = None
    BY DEF NotEntered
  <2>1. u # t /\ Stays(u) /\ pc[u] = "device" /\ p \in ToDo(u)
    BY <1>2 DEF Stays, ToDo
  <2>2. p \in Unfinished /\ pt[p] = None
    BY <2>1, UnfinishedPages DEF SerialInv, NotEntered
  <2> QED BY <2>2
<1>7. ASSUME NEW u \in Context PROVE FaultsElsewhere(u)'
  BY <1>3 DEF SerialInv, FaultsElsewhere, OthersStay, Stays
<1> QED BY <1>4, <1>5, <1>6, <1>7 DEF SerialInv

(* The thread in mmap or munmap goes on, or returns.                       *)
LEMMA InsideCall ==
  ASSUME SerialInv, NEW t \in Context, OthersStay(t), UNCHANGED uvmzone, InCall(t),
         pc'[t] \notin FaultSteps,
         pc'[t] \in UnmapSteps => pc[t] \in UnmapSteps /\ ToDo(t)' \subseteq ToDo(t),
         pc'[t] = "device" => pc[t] = "device" /\ ToDo(t)' \subseteq ToDo(t),
         \A p \in ToDo(t)' : pc'[t] = "device" => pt'[p] = None
  PROVE  SerialInv'
<1>1. \A u \in Context : InCall(u)' => u = t
  BY DEF OthersStay, Stays, SerialInv, OneCaller, InCall
<1>2. \A p : p \in Unfinished' => p \in Unfinished
  BY <1>1 DEF Unfinished, ToDo, InCall
<1>3. OneCaller'
  BY <1>1 DEF OneCaller
<1>4. ASSUME NEW u \in Context PROVE GivenUp(u)' /\ NotEntered(u)'
  BY <1>1 DEF SerialInv, GivenUp, NotEntered, InCall
<1>5. ASSUME NEW u \in Context PROVE FaultsElsewhere(u)'
  BY <1>2 DEF SerialInv, FaultsElsewhere, OthersStay, Stays
<1> QED BY <1>3, <1>4, <1>5 DEF SerialInv

(* mmap or munmap begins, or inserts its zone, and no other call is on its *)
(* way.                                                                    *)
LEMMA CallBegins ==
  ASSUME NEW t \in Context, OthersStay(t), \A u \in Context : InCall(u) => u = t,
         pc'[t] \notin FaultSteps,
         GivenUp(t)', NotEntered(t)',
         pc'[t] = "device" =>
           \A u \in Context : pc[u] \in FaultSteps => at[u] \notin ToDo(t)'
  PROVE  SerialInv'
<1>1. \A u \in Context : InCall(u)' => u = t
  BY DEF OthersStay, Stays, InCall
<1>2. \A p : p \in Unfinished' => pc'[t] = "device" /\ p \in ToDo(t)'
  BY <1>1 DEF Unfinished, ToDo, InCall
<1>3. OneCaller'
  BY <1>1 DEF OneCaller
<1>4. ASSUME NEW u \in Context PROVE GivenUp(u)' /\ NotEntered(u)'
  BY <1>1 DEF GivenUp, NotEntered, InCall
<1>5. ASSUME NEW u \in Context PROVE FaultsElsewhere(u)'
  BY <1>2 DEF FaultsElsewhere, OthersStay, Stays
<1> QED BY <1>3, <1>4, <1>5 DEF SerialInv

(* When a call may begin, or insert its zone: no other is on its way, and  *)
(* no page is in the page table but those of the zones.                    *)
LEMMA MayBegin ==
  ASSUME ZonesInv, NEW t \in Context, \A u \in Context : InCall(u) => u = t,
         pc[t] \in {"user", "insert"}
  PROVE  /\ \A p \in UserPage : pt[p] # None => p \in Mapped(uvmzone)
         /\ Unfinished = {}
<1>1. \A u \in Context : pc[u] \notin UnmapSteps \cup {"device"}
  BY DEF InCall, UnmapSteps
<1> QED BY <1>1 DEF ZonesInv, LeftInv, StillToUnmap, Unmaps, Unfinished

LEMMA MayCallAlone ==
  ASSUME Serial, NEW t \in Context, MayCall(t)
  PROVE  pc[t] = "user" /\ \A u \in Context : ~InCall(u)
BY DEF MayCall

(* Steps in which no frame changes hands.                                  *)
LEMMA NoFrameMoves ==
  ASSUME UsedOnce, AllKnown, NEW t \in Context, OthersStay(t),
         UNCHANGED <<pt, bitmap, dropped>>, ~Pending(t), ~Pending(t)'
  PROVE  UsedOnce' /\ AllKnown'
<1>1. pt' = pt /\ Used(bitmap') = Used(bitmap) /\ dropped' = dropped
  OBVIOUS
<1>2. \A u \in Context : Pending(u)' <=> Pending(u)
  BY DEF OthersStay, Stays, Pending
<1>3. \A u \in Context : Pending(u) => u # t /\ frame'[u] = frame[u]
  BY DEF OthersStay, Stays
<1>4. UsedOnce'
  <2>1. \A u \in Context : Pending(u)' =>
          /\ frame'[u] \in Used(bitmap)
          /\ \A p \in Page : pt[p] # frame'[u]
          /\ \A v \in Context \ {u} : Pending(v)' => frame'[v] # frame'[u]
    BY <1>2, <1>3 DEF UsedOnce
  <2> QED BY <1>1, <2>1 DEF UsedOnce
<1>5. AllKnown'
  <2> SUFFICES ASSUME NEW f \in Used(bitmap) \cap RamFrame
               PROVE  \/ \E p \in Page : pt[p] = f
                      \/ \E u \in Context : Pending(u)' /\ frame'[u] = f
                      \/ f \in dropped
    BY <1>1 DEF AllKnown
  <2> QED BY <1>2, <1>3 DEF AllKnown
<1> QED BY <1>4, <1>5

LEMMA OthersTake ==
  ASSUME TakenInv, NEW t \in Context, OthersStay(t),
         \A u \in Context : pc[u] = "clear" => u = t \/ pt'[at[u]] = pt[at[u]]
  PROVE  \A u \in Context \ {t} : Taken(u)'
BY DEF TakenInv, Taken, OthersStay, Stays

--------------------------------------------------------------------------------
LEMMA FrameInit == Init => FrameInv
<1> SUFFICES ASSUME Init PROVE FrameInv
  OBVIOUS
<1>1. SerialInv /\ TakenInv
  BY DEF Init, SerialInv, OneCaller, InCall, GivenUp, NotEntered, FaultsElsewhere, TakenInv, Taken,
         FaultSteps, UnmapSteps
<1>2. Used(bitmap) = {}
  BY DEF Init, NoBitSet, Used
<1>3. UsedOnce
  BY DEF Init, UsedOnce, Pending
<1>4. AllKnown
  BY <1>2 DEF AllKnown
<1> QED BY <1>1, <1>3, <1>4 DEF FrameInv

LEMMA MmapNow ==
  ASSUME ZonesInv, NEW t \in Context, NEW va \in UserPage, NEW npages \in 1 .. MaxLength,
         NEW offset \in Device \cup {None}, Mmap(t, va, npages, offset)
  PROVE  OthersStay(t) /\ pc[t] = "user" /\ pc'[t] = "insert"
<1>1. /\ LocalTypes /\ pc[t] = "user" /\ Allocatable(va, npages)
      /\ ToStep(t, "insert", va, offset) /\ end' = [end EXCEPT ![t] = va + npages]
  BY DEF Mmap, MayCall, ZonesInv, Types
<1>2. va + npages \in UserMin .. UserMax /\ va \in Page
  BY <1>1, Placed, KernelPages
<1>3. PICK stop \in UserMin .. UserMax : stop = va + npages
  BY <1>2
<1>4. Now(t, "insert", va, stop, offset)
  BY <1>1, <1>2, <1>3, Moved DEF PC, AnyFrame
<1> QED BY <1>1, <1>4 DEF Now

LEMMA MmapFrames ==
  ASSUME Serial, ZonesInv, FrameInv, NEW t \in Context, NEW va \in UserPage,
         NEW npages \in 1 .. MaxLength, NEW offset \in Device \cup {None},
         Mmap(t, va, npages, offset)
  PROVE  FrameInv'
<1>1. MayCall(t) /\ UNCHANGED <<pt, bitmap, dropped>>
  BY DEF Mmap, history
<1>2. OthersStay(t) /\ pc[t] = "user" /\ pc'[t] = "insert"
  BY MmapNow
<1>3. \A u \in Context : ~InCall(u)
  BY <1>1, MayCallAlone
<1>4. SerialInv'
  BY <1>2, <1>3, CallBegins DEF GivenUp, NotEntered, FaultSteps, UnmapSteps
<1>5. TakenInv'
  BY <1>1, <1>2, OthersTake DEF FrameInv, TakenInv, Taken
<1>6. UsedOnce' /\ AllKnown'
  BY <1>1, <1>2, NoFrameMoves DEF FrameInv, Pending
<1> QED BY <1>4, <1>5, <1>6 DEF FrameInv

LEMMA InsertFrames ==
  ASSUME ZonesInv, FrameInv, NEW t \in Context, Insert(t)
  PROVE  FrameInv'
<1>1. UNCHANGED <<pt, bitmap, dropped>>
  BY DEF Insert, history
<1>2. /\ OthersStay(t) /\ pc[t] = "insert" /\ pc'[t] \in {"user", "device"}
      /\ ToDo(t) \cap Mapped(uvmzone) = {} /\ ToDo(t) \subseteq UserPage
      /\ pc'[t] = "device" => ToDo(t)' = ToDo(t)
  <2>1. /\ OthersStay(t) /\ pc[t] = "insert"
        /\ ToDo(t) \cap Mapped(uvmzone) = {} /\ ToDo(t) \subseteq UserPage
        /\ \/ Now(t, "user", UserMin, UserMin, None)
           \/ Now(t, "device", at[t], end[t], frame[t])
    BY InsertNow
  <2> QED BY <2>1 DEF Now, ToDo
<1>3. \A u \in Context : InCall(u) => u = t
  BY <1>2 DEF FrameInv, SerialInv, OneCaller, InCall
<1>4. \A p \in UserPage : pt[p] # None => p \in Mapped(uvmzone)
  BY <1>2, <1>3, MayBegin
<1>5. NotEntered(t)' /\ GivenUp(t)'
  BY <1>1, <1>2, <1>4 DEF NotEntered, GivenUp, UnmapSteps
<1>6. \A u \in Context : pc[u] \in FaultSteps /\ at[u] \in UserPage => at[u] \in Mapped(uvmzone)
  BY DEF ZonesInv, CallsInv, CallOK
<1>7. SerialInv'
  BY <1>2, <1>3, <1>5, <1>6, CallBegins DEF FaultSteps
<1>8. TakenInv'
  BY <1>1, <1>2, OthersTake DEF FrameInv, TakenInv, Taken
<1>9. UsedOnce' /\ AllKnown'
  BY <1>1, <1>2, NoFrameMoves DEF FrameInv, Pending
<1> QED BY <1>7, <1>8, <1>9 DEF FrameInv

(* The step of PageMap: the page it enters is not in the page table yet.   *)
LEMMA PageMapNow ==
  ASSUME ZonesInv, SerialInv, NEW t \in Context, PageMap(t)
  PROVE  /\ OthersStay(t) /\ pc[t] = "device" /\ pc'[t] \in {"user", "device"}
         /\ at[t] \in UserPage /\ at[t] \in Mapped(uvmzone) /\ at[t] \in Unfinished
         /\ pt[at[t]] = None /\ frame[t] \in Device
         /\ pt' = [pt EXCEPT ![at[t]] = frame[t]]
         /\ pc'[t] = "device" => ToDo(t)' \subseteq ToDo(t) \ {at[t]}
         /\ \A p \in ToDo(t) : p = at[t] \/ (pc'[t] = "device" /\ p \in ToDo(t)')
<1>1. /\ pc[t] = "device" /\ pt' = [pt EXCEPT ![at[t]] = frame[t]]
      /\ NextPage(t, "device", frame[t] + 1) /\ LocalTypes
  BY DEF PageMap, ZonesInv, Types
<1>2. /\ at[t] \in UserPage /\ at[t] < end[t] /\ ToDo(t) \subseteq Mapped(uvmzone)
      /\ frame[t] \in Nat /\ Bits(frame[t], end[t] - at[t]) \subseteq Device
  BY <1>1 DEF ZonesInv, CallsInv, CallOK, InCall, Enterable
<1>3. at[t] \in Nat /\ end[t] \in Nat /\ at[t] \in UserPage
  BY <1>1, <1>2, PageZoneAssumption DEF LocalTypes, UserPage
<1>4. at[t] \in ToDo(t) /\ frame[t] \in Bits(frame[t], end[t] - at[t])
  BY <1>2, <1>3 DEF ToDo, Bits
<1>5. pt[at[t]] = None /\ at[t] \in Unfinished
  BY <1>1, <1>4, UnfinishedPages DEF SerialInv, NotEntered
<1>6. at[t] + 1 # end[t] => frame[t] + 1 \in AnyFrame
  <2>1. at[t] + 1 # end[t] => frame[t] + 1 \in Bits(frame[t], end[t] - at[t])
    BY <1>2, <1>3 DEF Bits
  <2> QED BY <2>1, <1>2 DEF AnyFrame
<1>7. /\ OthersStay(t)
      /\ \/ at[t] + 1 = end[t] /\ Now(t, "user", UserMin, UserMin, None)
         \/ at[t] + 1 < end[t] /\ Now(t, "device", at[t] + 1, end[t], frame[t] + 1)
  BY <1>1, <1>2, <1>6, PassedPage DEF PC
<1>8. /\ pc'[t] \in {"user", "device"}
      /\ pc'[t] = "device" => ToDo(t)' \subseteq ToDo(t) \ {at[t]}
      /\ \A p \in ToDo(t) : p = at[t] \/ (pc'[t] = "device" /\ p \in ToDo(t)')
  <2>1. CASE at[t] + 1 = end[t] /\ Now(t, "user", UserMin, UserMin, None)
    <3>1. pc'[t] = "user" /\ \A p \in ToDo(t) : p = at[t]
      BY <2>1, <1>3 DEF Now, ToDo
    <3> QED BY <3>1
  <2>2. CASE at[t] + 1 < end[t] /\ Now(t, "device", at[t] + 1, end[t], frame[t] + 1)
    <3>1. pc'[t] = "device" /\ ToDo(t)' = at[t] + 1 .. end[t] - 1
      BY <2>2 DEF Now, ToDo
    <3>2. /\ at[t] + 1 .. end[t] - 1 \subseteq ToDo(t) \ {at[t]}
          /\ \A p \in ToDo(t) : p = at[t] \/ p \in at[t] + 1 .. end[t] - 1
      BY <1>3 DEF ToDo
    <3> QED BY <3>1, <3>2
  <2> QED BY <2>1, <2>2, <1>7
<1> QED BY <1>1, <1>2, <1>3, <1>4, <1>5, <1>7, <1>8

LEMMA PageMapFrames ==
  ASSUME ZonesInv, FrameInv, NEW t \in Context, PageMap(t)
  PROVE  FrameInv'
<1>1. /\ OthersStay(t) /\ pc[t] = "device" /\ pc'[t] \in {"user", "device"}
      /\ at[t] \in UserPage /\ pt[at[t]] = None /\ frame[t] \in Device
      /\ pt' = [pt EXCEPT ![at[t]] = frame[t]]
      /\ pc'[t] = "device" => ToDo(t)' \subseteq ToDo(t) \ {at[t]}
  BY PageMapNow DEF FrameInv
<1>2. UNCHANGED <<uvmzone, bitmap, dropped>>
  BY DEF PageMap, history
<1>3. \A p \in Page : pt'[p] = IF p = at[t] THEN frame[t] ELSE pt[p]
  BY <1>1 DEF ZonesInv, Types, PageTypes
<1>4. InCall(t) /\ SerialInv
  BY <1>1 DEF InCall, FrameInv
<1>5. SerialInv'
  <2>1. ASSUME NEW p \in ToDo(t)', pc'[t] = "device" PROVE pt'[p] = None
    <3>1. p \in ToDo(t) /\ p # at[t]
      BY <1>1, <2>1
    <3>2. pt[p] = None /\ p \in UserPage
      BY <1>1, <1>4, <3>1, MappedPages
      DEF SerialInv, NotEntered, ZonesInv, Types, CallsInv, CallOK
    <3> QED BY <1>3, <3>1, <3>2, KernelPages
  <2> QED BY <1>1, <1>2, <1>4, <2>1, InsideCall DEF FaultSteps, UnmapSteps
<1>6. TakenInv'
  <2>1. \A u \in Context : pc[u] # "clear"
    BY <1>1, <1>4 DEF SerialInv, OneCaller, InCall, UnmapSteps
  <2> QED BY <1>1, <2>1, OthersTake DEF FrameInv, TakenInv, Taken
<1>7. \A u \in Context : Pending(u)' <=> Pending(u)
  <2>1. \A u \in Context \ {t} : Pending(u)' <=> Pending(u)
    BY <1>1 DEF OthersStay, Stays, Pending
  <2>2. ~Pending(t) /\ ~Pending(t)'
    BY <1>1 DEF Pending
  <2> QED BY <2>1, <2>2
<1>8. \A u \in Context : Pending(u) => frame'[u] = frame[u] /\ frame[u] \notin Device
  BY <1>1 DEF OthersStay, Stays, Pending
<1>9. Used(bitmap') = Used(bitmap) /\ dropped' = dropped
  BY <1>2
<1>10. UsedOnce /\ AllKnown
  BY DEF FrameInv
<1>11. UsedOnce'
  <2>1. \A p, q \in Page :
          pt'[p] = pt'[q] /\ pt'[p] \notin Device \cup {None} => p = q
    BY <1>1, <1>3, <1>10 DEF UsedOnce
  <2>2. \A p \in Page : pt'[p] \notin Device \cup {None} => pt'[p] \in Used(bitmap)
    BY <1>1, <1>3, <1>10 DEF UsedOnce
  <2>3. \A u \in Context : Pending(u) =>
          /\ frame'[u] \in Used(bitmap)
          /\ \A p \in Page : pt'[p] # frame'[u]
          /\ \A v \in Context \ {u} : Pending(v) => frame'[v] # frame'[u]
    BY <1>1, <1>3, <1>8, <1>10 DEF UsedOnce
  <2>4. \A u \in Context : Pending(u)' =>
          /\ frame'[u] \in Used(bitmap)
          /\ \A p \in Page : pt'[p] # frame'[u]
          /\ \A v \in Context \ {u} : Pending(v)' => frame'[v] # frame'[u]
    BY <1>7, <2>3
  <2> QED BY <1>9, <2>1, <2>2, <2>4 DEF UsedOnce
<1>12. AllKnown'
  <2> SUFFICES ASSUME NEW f \in Used(bitmap) \cap RamFrame
               PROVE  \/ \E p \in Page : pt'[p] = f
                      \/ \E u \in Context : Pending(u)' /\ frame'[u] = f
                      \/ f \in dropped
    BY <1>9 DEF AllKnown
  <2>1. f # None
    BY FramesApart
  <2>2. CASE \E p \in Page : pt[p] = f
    BY <2>1, <2>2, <1>1, <1>3
  <2>3. CASE \E u \in Context : Pending(u) /\ frame[u] = f
    BY <2>3, <1>7, <1>8
  <2> QED BY <2>2, <2>3, <1>10 DEF AllKnown
<1> QED BY <1>5, <1>6, <1>11, <1>12 DEF FrameInv

LEMMA MunmapNow ==
  ASSUME ZonesInv, NEW t \in Context, NEW i \in DOMAIN uvmzone, Munmap(t, uvmzone[i])
  PROVE  /\ OthersStay(t) /\ pc[t] = "user" /\ pc'[t] = "read"
         /\ ToDo(t)' = Pages(uvmzone[i])
         /\ Mapped(uvmzone') = Mapped(uvmzone) \ Pages(uvmzone[i])
<1> DEFINE zone == uvmzone[i]
<1>1. ZoneList(uvmzone) /\ LocalTypes
  BY DEF ZonesInv, Types
<1>2. /\ Inside(zone)
      /\ zone.base \in Nat /\ End(zone) \in Nat /\ zone.base < End(zone)
      /\ Pages(zone) = zone.base .. End(zone) - 1
  BY <1>1, ZoneBounds DEF ZoneList, Pages
<1>3. zone.base \in Page /\ End(zone) \in UserMin .. UserMax
  BY <1>2, PageZoneAssumption DEF Inside, UserPage, Page
<1>4. /\ uvmzone' = PageFree(uvmzone, zone.base, zone.limit) /\ pc[t] = "user"
      /\ ToStep(t, "read", zone.base, None) /\ end' = [end EXCEPT ![t] = End(zone)]
  BY DEF Munmap, MayCall
<1>5. Mapped(uvmzone') = Mapped(uvmzone) \ Pages(zone)
  BY <1>1, <1>4, FreePages
<1> HIDE DEF zone
<1>6. Now(t, "read", zone.base, End(zone), None)
  BY <1>1, <1>3, <1>4, UserMinPage, Moved DEF PC, UnmapSteps
<1> QED BY <1>2, <1>4, <1>5, <1>6 DEF Now, ToDo, zone

LEMMA MunmapFrames ==
  ASSUME Serial, ZonesInv, FrameInv, NEW t \in Context, NEW i \in DOMAIN uvmzone,
         Munmap(t, uvmzone[i])
  PROVE  FrameInv'
<1>1. MayCall(t) /\ UNCHANGED <<pt, bitmap, dropped>>
  BY DEF Munmap
<1>2. /\ OthersStay(t) /\ pc[t] = "user" /\ pc'[t] = "read"
      /\ ToDo(t)' = Pages(uvmzone[i])
      /\ Mapped(uvmzone') = Mapped(uvmzone) \ Pages(uvmzone[i])
  BY MunmapNow
<1>3. \A u \in Context : ~InCall(u)
  BY <1>1, MayCallAlone
<1>4. NotEntered(t)' /\ GivenUp(t)'
  BY <1>2 DEF NotEntered, GivenUp
<1>5. SerialInv'
  BY <1>2, <1>3, <1>4, CallBegins DEF FaultSteps
<1>6. TakenInv'
  BY <1>1, <1>2, OthersTake DEF FrameInv, TakenInv, Taken
<1>7. UsedOnce' /\ AllKnown'
  BY <1>1, <1>2, NoFrameMoves DEF FrameInv, Pending
<1> QED BY <1>5, <1>6, <1>7 DEF FrameInv

(* A step of the loop of munmap that goes on with the next page, or ends   *)
(* the call.                                                               *)
LEMMA UnmapNext ==
  ASSUME ZonesInv, NEW t \in Context, pc[t] \in UnmapSteps, NextPage(t, "read", None)
  PROVE  /\ OthersStay(t) /\ pc'[t] \in {"user", "read"}
         /\ pc'[t] = "read" => ToDo(t)' \subseteq ToDo(t)
<1>1. LocalTypes /\ at[t] \in UserPage /\ at[t] < end[t]
  BY DEF ZonesInv, Types, CallsInv, CallOK, InCall
<1>2. at[t] \in Nat /\ end[t] \in Nat
  BY <1>1, PageZoneAssumption DEF LocalTypes, UserPage
<1>3. /\ OthersStay(t)
      /\ \/ at[t] + 1 = end[t] /\ Now(t, "user", UserMin, UserMin, None)
         \/ at[t] + 1 < end[t] /\ Now(t, "read", at[t] + 1, end[t], None)
  BY <1>1, UserMinPage, PassedPage DEF PC, UnmapSteps
<1>4. CASE at[t] + 1 < end[t] /\ Now(t, "read", at[t] + 1, end[t], None)
  <2>1. pc'[t] = "read" /\ ToDo(t)' = at[t] + 1 .. end[t] - 1
    BY <1>4 DEF Now, ToDo
  <2>2. at[t] + 1 .. end[t] - 1 \subseteq ToDo(t)
    BY <1>2 DEF ToDo
  <2> QED BY <2>1, <2>2, <1>3
<1>5. CASE Now(t, "user", UserMin, UserMin, None)
  BY <1>3, <1>5 DEF Now
<1> QED BY <1>3, <1>4, <1>5

(* ... and with the invariant: what munmap has given up stays given up.    *)
LEMMA UnmapGoesOn ==
  ASSUME SerialInv, NEW t \in Context, OthersStay(t), UNCHANGED uvmzone,
         pc[t] \in UnmapSteps, pc'[t] \in {"user"} \cup UnmapSteps,
         pc'[t] \in UnmapSteps => ToDo(t)' \subseteq ToDo(t)
  PROVE  /\ SerialInv'
         /\ \A u \in Context : pc[u] = "clear" => u = t
<1>1. InCall(t) /\ pc'[t] \notin FaultSteps /\ pc'[t] # "device"
  BY DEF InCall, FaultSteps, UnmapSteps
<1>2. SerialInv'
  BY <1>1, InsideCall
<1> QED BY <1>1, <1>2 DEF SerialInv, OneCaller, InCall, UnmapSteps

LEMMA UnmapReadFrames ==
  ASSUME ZonesInv, FrameInv, NEW t \in Context, UnmapRead(t)
  PROVE  FrameInv'
<1>1. /\ pc[t] = "read" /\ UNCHANGED <<uvmzone, bitmap, pt, content, halted>>
      /\ UNCHANGED <<pt, bitmap, dropped>> /\ LocalTypes
      /\ at[t] \in Page /\ pt[at[t]] \in AnyFrame
  BY DEF UnmapRead, ZonesInv, Types, LocalTypes, PageTypes, history
<1>2. /\ OthersStay(t) /\ pc'[t] \in {"user", "read", "clear"}
      /\ pc'[t] \in UnmapSteps => ToDo(t)' \subseteq ToDo(t)
      /\ pc'[t] = "clear" => pt'[at'[t]] = frame'[t]
  <2>1. CASE pt[at[t]] = None
    <3>1. NextPage(t, "read", None)
      BY <2>1 DEF UnmapRead
    <3> QED BY <1>1, <3>1, UnmapNext DEF UnmapSteps
  <2>2. CASE pt[at[t]] # None
    <3>1. ToStep(t, "clear", at[t], pt[at[t]]) /\ UNCHANGED end
      BY <2>2 DEF UnmapRead
    <3>2. Now(t, "clear", at[t], end[t], pt[at[t]])
      BY <1>1, <3>1, MovedOn DEF PC, UnmapSteps
    <3> QED BY <1>1, <3>2 DEF Now, ToDo
  <2> QED BY <2>1, <2>2
<1>3. SerialInv' /\ \A u \in Context : pc[u] = "clear" => u = t
  BY <1>1, <1>2, UnmapGoesOn DEF FrameInv, UnmapSteps
<1>4. TakenInv'
  BY <1>2, <1>3, OthersTake DEF FrameInv, TakenInv, Taken
<1>5. UsedOnce' /\ AllKnown'
  BY <1>1, <1>2, NoFrameMoves DEF FrameInv, Pending
<1> QED BY <1>3, <1>4, <1>5 DEF FrameInv

LEMMA UnmapClearFrames ==
  ASSUME ZonesInv, FrameInv, NEW t \in Context, UnmapClear(t)
  PROVE  FrameInv'
<1>1. /\ pc[t] = "clear" /\ UNCHANGED <<uvmzone, bitmap, dropped>> /\ LocalTypes
      /\ at[t] \in Page /\ frame[t] \in AnyFrame /\ pt' = [pt EXCEPT ![at[t]] = None]
      /\ pt \in [Page -> AnyFrame]
  BY DEF UnmapClear, ZonesInv, Types, LocalTypes, PageTypes, history
<1>2. pt[at[t]] = frame[t] /\ frame[t] # None
  BY <1>1 DEF FrameInv, TakenInv, Taken, ZonesInv, CallsInv, CallOK
<1>3. Now(t, "free", at[t], end[t], frame[t])
  <2>1. ToStep(t, "free", at[t], frame[t]) /\ UNCHANGED end
    BY DEF UnmapClear
  <2> QED BY <1>1, <2>1, MovedOn DEF PC, UnmapSteps
<1>4. /\ OthersStay(t) /\ pc'[t] = "free" /\ frame'[t] = frame[t]
      /\ ToDo(t)' \subseteq ToDo(t)
  BY <1>3 DEF Now, ToDo
<1>5. SerialInv' /\ \A u \in Context : pc[u] = "clear" => u = t
  BY <1>1, <1>4, UnmapGoesOn DEF FrameInv, UnmapSteps
<1>6. TakenInv'
  BY <1>4, <1>5, OthersTake DEF FrameInv, TakenInv, Taken
<1>7. /\ Used(bitmap') = Used(bitmap) /\ dropped' = dropped
      /\ \A p \in Page : pt'[p] = IF p = at[t] THEN None ELSE pt[p]
      /\ \A u \in Context : frame'[u] = frame[u]
      /\ \A u \in Context \ {t} : Pending(u)' <=> Pending(u)
      /\ Pending(t)' <=> frame[t] \notin Device
      /\ ~Pending(t)
  BY <1>1, <1>4 DEF OthersStay, Stays, Pending
<1>8. UsedOnce'
  <2>1. \A p, q \in Page :
          pt'[p] = pt'[q] /\ pt'[p] \notin Device \cup {None} => p = q
    BY <1>7 DEF FrameInv, UsedOnce
  <2>2. \A p \in Page : pt'[p] \notin Device \cup {None} => pt'[p] \in Used(bitmap')
    BY <1>7 DEF FrameInv, UsedOnce
  <2>3. ASSUME NEW u \in Context \ {t}, Pending(u)'
        PROVE  /\ frame'[u] \in Used(bitmap')
               /\ \A p \in Page : pt'[p] # frame'[u]
               /\ \A v \in Context \ {u} : Pending(v)' => frame'[v] # frame'[u]
    <3>1. Pending(u) /\ pc[u] = "map"
      BY <1>7, <2>3, <1>1 DEF FrameInv, SerialInv, OneCaller, InCall, UnmapSteps, Pending
    <3>2. frame[u] \in BitFrame /\ frame[u] # None
      BY <3>1, FramesApart DEF FrameInv, TakenInv, Taken
    <3> QED BY <3>1, <3>2, <1>1, <1>2, <1>7 DEF FrameInv, UsedOnce
  <2>4. ASSUME Pending(t)'
        PROVE  /\ frame'[t] \in Used(bitmap')
               /\ \A p \in Page : pt'[p] # frame'[t]
               /\ \A v \in Context \ {t} : Pending(v)' => frame'[v] # frame'[t]
    <3>1. frame[t] \notin Device \cup {None} /\ pt[at[t]] = frame[t]
      BY <1>2, <1>7, <2>4
    <3> QED BY <3>1, <1>1, <1>7 DEF FrameInv, UsedOnce
  <2> QED BY <2>1, <2>2, <2>3, <2>4 DEF UsedOnce
<1>9. AllKnown'
  <2> SUFFICES ASSUME NEW f \in Used(bitmap) \cap RamFrame
               PROVE  \/ \E p \in Page : pt'[p] = f
                      \/ \E u \in Context : Pending(u)' /\ frame'[u] = f
                      \/ f \in dropped
    BY <1>7 DEF AllKnown
  <2>1. f # None /\ f \notin Device
    BY FramesApart
  <2>2. CASE f = frame[t]
    BY <2>1, <2>2, <1>7
  <2>3. CASE f # frame[t]
    BY <2>3, <1>2, <1>7 DEF FrameInv, AllKnown
  <2> QED BY <2>2, <2>3
<1> QED BY <1>5, <1>6, <1>8, <1>9 DEF FrameInv

(* munmap() gives back the frame it has taken out of the page table: no    *)
(* page and no thread has it.                                              *)
LEMMA UnmapFreeFrames ==
  ASSUME BitsApart, ZonesInv, FrameInv, NEW t \in Context, UnmapFree(t)
  PROVE  FrameInv'
<1>1. /\ pc[t] = "free" /\ UNCHANGED <<uvmzone, pt, dropped>>
      /\ bitmap' = FrameFree(bitmap, frame[t], 1) /\ NextPage(t, "read", None)
      /\ frame[t] \in AnyFrame /\ IsBitmap(bitmap) /\ pt \in [Page -> AnyFrame]
  BY DEF UnmapFree, ZonesInv, Types, LocalTypes, PageTypes, history
<1>2. frame[t] # None /\ frame[t] \in Nat
  <2>1. frame[t] # None
    BY <1>1 DEF ZonesInv, CallsInv, CallOK
  <2> QED BY <1>1, <2>1, RamHasBits, VirtualMemoryAssumption DEF AnyFrame
<1>3. /\ OthersStay(t) /\ pc'[t] \in {"user", "read"}
      /\ pc'[t] = "read" => ToDo(t)' \subseteq ToDo(t)
  BY <1>1, UnmapNext DEF UnmapSteps
<1>4. SerialInv' /\ \A u \in Context : pc[u] = "clear" => u = t
  BY <1>1, <1>3, UnmapGoesOn DEF FrameInv, UnmapSteps
<1>5. TakenInv'
  BY <1>3, <1>4, OthersTake DEF FrameInv, TakenInv, Taken
<1>6. Used(bitmap') = Used(bitmap) \ ({frame[t]} \cap RamFrame)
  BY <1>1, <1>2, FreeFrame
<1>7. frame[t] \notin RamFrame \/ Pending(t)
  BY <1>1, FramesApart DEF Pending
<1>8. \A u \in Context \ {t} : (Pending(u)' <=> Pending(u)) /\ frame'[u] = frame[u]
  BY <1>3 DEF OthersStay, Stays, Pending
<1>9. ~Pending(t)'
  BY <1>3 DEF Pending
<1>10. UsedOnce /\ AllKnown
  BY DEF FrameInv
<1>11. UsedOnce'
  <2>1. \A p \in Page : pt[p] \notin Device \cup {None} => pt[p] \in Used(bitmap')
    BY <1>6, <1>7, <1>10 DEF UsedOnce
  <2>2. \A u \in Context \ {t} : Pending(u) =>
          /\ frame[u] \in Used(bitmap')
          /\ \A p \in Page : pt[p] # frame[u]
          /\ \A v \in Context \ {t} : v # u /\ Pending(v) => frame[v] # frame[u]
    BY <1>6, <1>7, <1>10 DEF UsedOnce
  <2>3. \A u \in Context : Pending(u)' =>
          /\ frame'[u] \in Used(bitmap')
          /\ \A p \in Page : pt[p] # frame'[u]
          /\ \A v \in Context \ {u} : Pending(v)' => frame'[v] # frame'[u]
    BY <2>2, <1>8, <1>9
  <2>4. \A p, q \in Page : pt[p] = pt[q] /\ pt[p] \notin Device \cup {None} => p = q
    BY <1>10 DEF UsedOnce
  <2> QED BY <1>1, <2>1, <2>3, <2>4 DEF UsedOnce
<1>12. AllKnown'
  <2> SUFFICES ASSUME NEW f \in Used(bitmap') \cap RamFrame
               PROVE  \/ \E p \in Page : pt[p] = f
                      \/ \E u \in Context : Pending(u)' /\ frame'[u] = f
                      \/ f \in dropped
    BY <1>1 DEF AllKnown
  <2>1. f \in Used(bitmap) /\ f # frame[t]
    BY <1>6
  <2>2. \/ \E p \in Page : pt[p] = f
        \/ \E u \in Context : Pending(u) /\ frame[u] = f
        \/ f \in dropped
    BY <2>1, <1>10 DEF AllKnown
  <2>3. CASE \E u \in Context : Pending(u) /\ frame[u] = f
    BY <2>1, <2>3, <1>8
  <2> QED BY <2>2, <2>3
<1> QED BY <1>4, <1>5, <1>11, <1>12 DEF FrameInv

LEMMA StoreFrames ==
  ASSUME ZonesInv, FrameInv, NEW t \in Context, NEW p, NEW v, Store(t, p, v)
  PROVE  FrameInv'
<1>1. /\ pc[t] = "user" /\ UNCHANGED <<uvmzone, bitmap, pt, dropped>>
      /\ UNCHANGED <<pt, bitmap, dropped>> /\ \A u \in Context : Stays(u)
  BY Stayed DEF Store, ZonesInv, Types
<1>2. OthersStay(t) /\ pc'[t] = "user"
  BY <1>1 DEF OthersStay, Stays
<1>3. SerialInv'
  BY <1>1, <1>2, OutsideCalls DEF FrameInv, FaultSteps, UnmapSteps, InCall
<1>4. TakenInv'
  BY <1>1 DEF FrameInv, TakenInv, Taken, Stays
<1>5. UsedOnce' /\ AllKnown'
  BY <1>1, <1>2, NoFrameMoves DEF FrameInv, Pending
<1> QED BY <1>3, <1>4, <1>5 DEF FrameInv

(* The step of a fault that moves no frame.                                *)
LEMMA FaultGoesOn ==
  ASSUME FrameInv, NEW t \in Context, OthersStay(t), UNCHANGED <<uvmzone, pt, bitmap, dropped>>,
         pc[t] \in {"user", "prot", "alloc", "zero"},
         pc'[t] \in {"user", "prot", "alloc", "zero"},
         pc'[t] \in FaultSteps => at'[t] \notin Unfinished
  PROVE  FrameInv'
<1>1. UNCHANGED <<pt, bitmap, dropped>> /\ UNCHANGED uvmzone
  OBVIOUS
<1>2. SerialInv'
  BY <1>1, OutsideCalls DEF FrameInv, UnmapSteps, InCall
<1>3. TakenInv'
  BY <1>1, OthersTake DEF FrameInv, TakenInv, Taken
<1>4. UsedOnce' /\ AllKnown'
  BY <1>1, NoFrameMoves DEF FrameInv, Pending
<1> QED BY <1>2, <1>3, <1>4 DEF FrameInv

LEMMA EntersFrames ==
  ASSUME ZonesInv, FrameInv, NEW t \in Context, pc[t] = "user",
         NEW p \in Page, p \notin Unfinished,
         UNCHANGED <<uvmzone, bitmap, pt, content, end, halted, last, dropped>>,
         ToStep(t, "prot", p, None)
  PROVE  FrameInv'
<1>1. UNCHANGED <<uvmzone, pt, bitmap, dropped>> /\ UNCHANGED end /\ LocalTypes
  BY DEF ZonesInv, Types
<1>2. Now(t, "prot", p, end[t], None)
  BY <1>1, UserMinPage, MovedOn DEF PC, FaultSteps
<1> QED BY <1>1, <1>2, FaultGoesOn DEF Now

LEMMA FaultFrames ==
  ASSUME ZonesInv, FrameInv, NEW t \in Context, NEW p \in Touchable, Fault(t, p)
  PROVE  FrameInv'
<1>1. /\ pc[t] = "user" /\ ToStep(t, "prot", p, None) /\ ZoneList(uvmzone)
      /\ UNCHANGED <<uvmzone, bitmap, pt, content, end, halted, last, dropped>>
  BY DEF Fault, ZonesInv, Types
<1>2. p \notin Unfinished /\ p \in Page
  BY <1>1, KernelPages, MappedPages DEF Touchable
<1> QED BY <1>1, <1>2, EntersFrames

(* The pages of the kernel are not those mmap has yet to enter.            *)
LEMMA UnfinishedMapped ==
  ASSUME ZonesInv
  PROVE  Unfinished \subseteq UserPage
<1>1. \A p \in Unfinished : p \in Mapped(uvmzone)
  BY UnfinishedPages DEF ZonesInv, CallsInv, CallOK
<1> QED BY <1>1, MappedPages DEF ZonesInv, Types

LEMMA KernelFaultFrames ==
  ASSUME ZonesInv, FrameInv, NEW t \in Thread, pc[Nested(t)] = "user",
         TableFault(t) \/ ClearFault(t) \/ \E p \in HeapPage : HeapFault(t, p)
  PROVE  FrameInv'
<1>1. LocalTypes /\ Nested(t) \in Context /\ Own(t) \in Context
  BY NestedFault DEF ZonesInv, Types
<1>2. CASE TableFault(t)
  <2>1. /\ TableOf(at[Own(t)]) \in Page /\ TableOf(at[Own(t)]) \notin UserPage
        /\ UNCHANGED <<uvmzone, bitmap, pt, content, end, halted, last, dropped>>
        /\ ToStep(Nested(t), "prot", TableOf(at[Own(t)]), None)
    BY <1>1, <1>2, TableFaultNow
  <2> QED BY <1>1, <2>1, UnfinishedMapped, EntersFrames
<1>3. CASE ClearFault(t)
  <2>1. /\ at[Own(t)] \in Page /\ pc[Own(t)] \in FaultSteps
        /\ UNCHANGED <<uvmzone, bitmap, pt, content, end, halted, last, dropped>>
        /\ ToStep(Nested(t), "prot", at[Own(t)], None)
    BY <1>3, ClearFaultNow
  <2>2. at[Own(t)] \notin Unfinished
    BY <1>1, <2>1 DEF FrameInv, SerialInv, FaultsElsewhere
  <2> QED BY <1>1, <2>1, <2>2, EntersFrames
<1>4. CASE \E p \in HeapPage : HeapFault(t, p)
  <2>1. PICK p \in HeapPage : HeapFault(t, p)
    BY <1>4
  <2>2. /\ p \in Page /\ p \notin UserPage
        /\ UNCHANGED <<uvmzone, bitmap, pt, content, end, halted, last, dropped>>
        /\ ToStep(Nested(t), "prot", p, None)
    BY <2>1, HeapFaultNow
  <2> QED BY <1>1, <2>2, UnfinishedMapped, EntersFrames
<1> QED BY <1>2, <1>3, <1>4

LEMMA FaultProtFrames ==
  ASSUME ZonesInv, FrameInv, NEW t \in Context, FaultProt(t)
  PROVE  FrameInv'
<1>1. pc[t] = "prot" /\ pc[t] \in FaultSteps /\ UNCHANGED <<uvmzone, pt>> /\ UNCHANGED dropped
  BY DEF FaultProt, FaultSteps, history
<1>2. /\ LocalTypes /\ at[t] \in Page /\ at[t] \notin Unfinished
      /\ at[t] \in UserPage => at[t] \in Mapped(uvmzone)
  BY <1>1, FaultingNow DEF FrameInv, SerialInv, FaultsElsewhere
<1>3. ToStep(t, "alloc", at[t], None) /\ UNCHANGED <<bitmap, end>>
  BY <1>2 DEF FaultProt
<1>4. Now(t, "alloc", at[t], end[t], None)
  BY <1>2, <1>3, UserMinPage, MovedOn DEF PC, FaultSteps
<1> QED BY <1>1, <1>2, <1>3, <1>4, FaultGoesOn DEF Now

(* frame_alloc() hands out a frame that no page and no thread has.         *)
LEMMA FaultAllocFrames ==
  ASSUME BitsApart, ZonesInv, FrameInv, NEW t \in Context, FaultAlloc(t)
  PROVE  FrameInv'
<1>1. /\ pc[t] = "alloc" /\ pc[t] \in FaultSteps /\ UNCHANGED <<uvmzone, pt>>
      /\ UNCHANGED dropped
  BY DEF FaultAlloc, FaultSteps, history
<1>2. /\ LocalTypes /\ at[t] \in Page /\ at[t] \notin Unfinished /\ IsBitmap(bitmap)
  BY <1>1, FaultingNow DEF FrameInv, SerialInv, FaultsElsewhere, ZonesInv, Types
<1>3. CASE CanAlloc(bitmap, 1)
  <2>1. PICK pa : pa = FrameAlloc(bitmap, 1).pa
    OBVIOUS
  <2>2. /\ bitmap' = FrameAlloc(bitmap, 1).bitmap /\ ToStep(t, "map", at[t], pa)
        /\ UNCHANGED end
    BY <1>3, <2>1 DEF FaultAlloc
  <2>3. pa \in BitFrame /\ pa \notin Used(bitmap) /\ Used(bitmap') = Used(bitmap) \cup {pa}
    BY <1>2, <1>3, <2>1, <2>2, AllocFrame
  <2>4. pa \in AnyFrame /\ pa \notin Device /\ pa # None
    BY <2>3, FramesApart
  <2>5. Now(t, "map", at[t], end[t], pa)
    BY <1>2, <2>2, <2>4, MovedOn DEF PC, FaultSteps
  <2>6. OthersStay(t) /\ pc'[t] = "map" /\ at'[t] = at[t] /\ frame'[t] = pa
    BY <2>5 DEF Now
  <2>7. SerialInv'
    BY <1>1, <1>2, <2>6, OutsideCalls DEF FrameInv, UnmapSteps, InCall
  <2>8. TakenInv'
    BY <1>1, <2>3, <2>6, OthersTake DEF FrameInv, TakenInv, Taken
  <2>9. \A u \in Context \ {t} : (Pending(u)' <=> Pending(u)) /\ frame'[u] = frame[u]
    BY <2>6 DEF OthersStay, Stays, Pending
  <2>10. UsedOnce /\ AllKnown
    BY DEF FrameInv
  <2>11. Pending(t)' /\ ~Pending(t)
    BY <1>1, <2>4, <2>6 DEF Pending
  <2>12. UsedOnce'
    <3>1. \A p \in Page : pt[p] \notin Device \cup {None} => pt[p] \in Used(bitmap')
      BY <2>3, <2>10 DEF UsedOnce
    <3>2. \A p \in Page : pt[p] # pa
      BY <2>3, <2>4, <2>10 DEF UsedOnce
    <3>3. \A u \in Context \ {t} : Pending(u) =>
            /\ frame[u] \in Used(bitmap') /\ frame[u] # pa
            /\ \A p \in Page : pt[p] # frame[u]
            /\ \A v \in Context \ {t} : v # u /\ Pending(v) => frame[v] # frame[u]
      BY <2>3, <2>10 DEF UsedOnce
    <3>4. \A u \in Context : Pending(u)' =>
            /\ frame'[u] \in Used(bitmap')
            /\ \A p \in Page : pt[p] # frame'[u]
            /\ \A v \in Context \ {u} : Pending(v)' => frame'[v] # frame'[u]
      BY <2>3, <2>6, <2>9, <3>2, <3>3
    <3>5. \A p, q \in Page : pt[p] = pt[q] /\ pt[p] \notin Device \cup {None} => p = q
      BY <2>10 DEF UsedOnce
    <3> QED BY <1>1, <3>1, <3>4, <3>5 DEF UsedOnce
  <2>13. AllKnown'
    <3> SUFFICES ASSUME NEW f \in Used(bitmap') \cap RamFrame
                 PROVE  \/ \E p \in Page : pt[p] = f
                        \/ \E u \in Context : Pending(u)' /\ frame'[u] = f
                        \/ f \in dropped
      BY <1>1 DEF AllKnown
    <3>1. CASE f = pa
      BY <3>1, <2>6, <2>11
    <3>2. CASE f # pa
      <4>1. f \in Used(bitmap)
        BY <3>2, <2>3
      <4>2. \/ \E p \in Page : pt[p] = f
            \/ \E u \in Context \ {t} : Pending(u) /\ frame[u] = f
            \/ f \in dropped
        BY <4>1, <2>10, <2>11 DEF AllKnown
      <4>3. CASE \E u \in Context \ {t} : Pending(u) /\ frame[u] = f
        BY <4>3, <2>9
      <4> QED BY <4>2, <4>3
    <3> QED BY <3>1, <3>2
  <2> QED BY <2>7, <2>8, <2>12, <2>13 DEF FrameInv
<1>4. CASE ~CanAlloc(bitmap, 1)
  <2>1. Return(t) /\ UNCHANGED bitmap
    BY <1>4 DEF FaultAlloc, Halt
  <2>2. Now(t, "user", UserMin, UserMin, None)
    BY <1>2, <2>1, Returned
  <2> QED BY <1>1, <2>1, <2>2, FaultGoesOn DEF Now, FaultSteps
<1> QED BY <1>3, <1>4

(* do_page_fault() enters its frame: what the entry held before is lost.   *)
LEMMA FaultMapNow ==
  ASSUME ZonesInv, FrameInv, NEW t \in Context, FaultMap(t)
  PROVE  /\ OthersStay(t) /\ pc[t] = "map" /\ pc'[t] = "zero" /\ at'[t] = at[t]
         /\ at[t] \in Page /\ at[t] \notin Unfinished /\ frame[t] \in BitFrame
         /\ at[t] \in UserPage => at[t] \in Mapped(uvmzone)
         /\ \A p \in Page : pt'[p] = IF p = at[t] THEN frame[t] ELSE pt[p]
<1>1. /\ pc[t] = "map" /\ pc[t] \in FaultSteps
      /\ pt' = [pt EXCEPT ![at[t]] = frame[t]]
      /\ ToStep(t, "zero", at[t], None) /\ UNCHANGED end
  BY DEF FaultMap, FaultSteps
<1>2. /\ LocalTypes /\ PageTypes /\ at[t] \in Page /\ at[t] \notin Unfinished
      /\ at[t] \in UserPage => at[t] \in Mapped(uvmzone)
  BY <1>1, FaultingNow DEF FrameInv, SerialInv, FaultsElsewhere
<1>3. Now(t, "zero", at[t], end[t], None)
  BY <1>1, <1>2, UserMinPage, MovedOn DEF PC, FaultSteps
<1>4. frame[t] \in BitFrame
  BY <1>1 DEF FrameInv, TakenInv, Taken
<1>5. \A p \in Page : pt'[p] = IF p = at[t] THEN frame[t] ELSE pt[p]
  BY <1>1, <1>2 DEF PageTypes
<1> QED BY <1>1, <1>2, <1>3, <1>4, <1>5 DEF Now

LEMMA FaultMapFrames ==
  ASSUME ZonesInv, FrameInv, NEW t \in Context, FaultMap(t)
  PROVE  FrameInv'
<1>1. /\ OthersStay(t) /\ pc[t] = "map" /\ pc'[t] = "zero" /\ at'[t] = at[t]
      /\ at[t] \in Page /\ at[t] \notin Unfinished /\ frame[t] \in BitFrame
      /\ at[t] \in UserPage => at[t] \in Mapped(uvmzone)
      /\ \A p \in Page : pt'[p] = IF p = at[t] THEN frame[t] ELSE pt[p]
  BY FaultMapNow
<1>2. /\ UNCHANGED uvmzone /\ UNCHANGED bitmap
      /\ dropped' = dropped \cup ({pt[at[t]]} \ {None})
      /\ ZoneList(uvmzone) /\ LocalTypes
      /\ pt \in [Page -> AnyFrame] /\ pt' = [pt EXCEPT ![at[t]] = frame[t]]
  BY DEF FaultMap, ZonesInv, Types, PageTypes
<1>3. SerialInv'
  <2>1. \A p : p \notin Unfinished \/ pt'[p] = pt[p]
    BY <1>1, <1>2, UnfinishedMapped, KernelPages
  <2> QED BY <1>1, <1>2, <2>1, OutsideCalls DEF FrameInv, UnmapSteps, InCall
<1>4. TakenInv'
  <2>1. ASSUME NEW u \in Context, pc[u] = "clear" PROVE pt'[at[u]] = pt[at[u]]
    <3>1. at[u] \in ToDo(u) /\ at[u] \in UserPage
      BY <2>1, <1>2, PageZoneAssumption
      DEF ZonesInv, CallsInv, CallOK, InCall, UnmapSteps, ToDo, LocalTypes, UserPage
    <3>2. at[u] \notin Mapped(uvmzone)
      BY <2>1, <3>1 DEF FrameInv, SerialInv, GivenUp, UnmapSteps
    <3> QED BY <3>1, <3>2, <1>1, KernelPages
  <2> QED BY <1>1, <2>1, OthersTake DEF FrameInv, TakenInv, Taken
<1>5. \A u \in Context \ {t} : (Pending(u)' <=> Pending(u)) /\ frame'[u] = frame[u]
  BY <1>1 DEF OthersStay, Stays, Pending
<1>6. UsedOnce /\ AllKnown
  BY DEF FrameInv
<1>7. ~Pending(t)'
  BY <1>1 DEF Pending
<1>8. /\ Pending(t) /\ frame[t] \in Used(bitmap)
      /\ \A p \in Page : pt[p] # frame[t]
      /\ \A v \in Context \ {t} : Pending(v) => frame[v] # frame[t]
  <2>1. Pending(t)
    BY <1>1, FramesApart DEF Pending
  <2> QED BY <2>1, <1>6 DEF UsedOnce
<1>9. Used(bitmap') = Used(bitmap)
  BY <1>2
<1>10. UsedOnce'
  <2>1. \A p, q \in Page :
          pt'[p] = pt'[q] /\ pt'[p] \notin Device \cup {None} => p = q
    BY <1>1, <1>6, <1>8 DEF UsedOnce
  <2>2. \A p \in Page : pt'[p] \notin Device \cup {None} => pt'[p] \in Used(bitmap)
    BY <1>1, <1>6, <1>8 DEF UsedOnce
  <2>3. \A u \in Context \ {t} : Pending(u) =>
          /\ frame[u] \in Used(bitmap) /\ frame[u] # frame[t]
          /\ \A p \in Page : pt[p] # frame[u]
          /\ \A v \in Context \ {t} : v # u /\ Pending(v) => frame[v] # frame[u]
    BY <1>6, <1>8 DEF UsedOnce
  <2>4. \A u \in Context \ {t} : Pending(u) => \A p \in Page : pt'[p] # frame[u]
    BY <1>1, <2>3
  <2>5. \A u \in Context : Pending(u)' =>
          /\ frame'[u] \in Used(bitmap)
          /\ \A p \in Page : pt'[p] # frame'[u]
          /\ \A v \in Context \ {u} : Pending(v)' => frame'[v] # frame'[u]
    BY <1>5, <1>7, <2>3, <2>4
  <2> QED BY <1>9, <2>1, <2>2, <2>5 DEF UsedOnce
<1>11. AllKnown'
  <2> SUFFICES ASSUME NEW f \in Used(bitmap) \cap RamFrame
               PROVE  \/ \E p \in Page : pt'[p] = f
                      \/ \E u \in Context : Pending(u)' /\ frame'[u] = f
                      \/ f \in dropped'
    BY <1>9 DEF AllKnown
  <2>1. f # None
    BY FramesApart
  <2>2. \/ \E p \in Page : pt[p] = f
        \/ \E u \in Context : Pending(u) /\ frame[u] = f
        \/ f \in dropped
    BY <1>6 DEF AllKnown
  <2>3. CASE \E p \in Page : pt[p] = f
    BY <2>1, <2>3, <1>1, <1>2
  <2>4. CASE \E u \in Context : Pending(u) /\ frame[u] = f
    BY <2>4, <1>1, <1>5
  <2> QED BY <2>2, <2>3, <2>4, <1>2
<1> QED BY <1>3, <1>4, <1>10, <1>11 DEF FrameInv

LEMMA FaultZeroFrames ==
  ASSUME ZonesInv, FrameInv, NEW t \in Context, FaultZero(t)
  PROVE  FrameInv'
<1>1. /\ pc[t] = "zero" /\ UNCHANGED <<uvmzone, pt, bitmap, dropped>> /\ Return(t)
      /\ LocalTypes
  BY DEF FaultZero, ZonesInv, Types, history
<1>2. Now(t, "user", UserMin, UserMin, None)
  BY <1>1, Returned
<1> QED BY <1>1, <1>2, FaultGoesOn DEF Now, FaultSteps

LEMMA FrameNext ==
  ASSUME Serial, BitsApart
  PROVE  ZonesInv /\ FrameInv /\ [Next]_vars => FrameInv'
<1> SUFFICES ASSUME ZonesInv, FrameInv, [Next]_vars PROVE FrameInv'
  OBVIOUS
<1>1. CASE UNCHANGED memory
  BY <1>1 DEF memory, FrameInv, SerialInv, OneCaller, InCall, GivenUp, NotEntered, FaultsElsewhere,
              ToDo, Unfinished, TakenInv, Taken, UsedOnce, AllKnown, Pending
<1>2. CASE Next /\ ~UNCHANGED memory
  <2>1. PICK s \in Thread : Works(s)
    BY <1>2 DEF Next
  <2>2. PICK t \in Context : t = Top(s)
    BY TopContext
  <2>3. CASE Call(t)
    BY <2>3, MmapFrames, MunmapFrames DEF Call
  <2>4. CASE Step(t)
    BY <2>4, InsertFrames, PageMapFrames, UnmapReadFrames, UnmapClearFrames, UnmapFreeFrames,
       FaultProtFrames, FaultAllocFrames, FaultMapFrames, FaultZeroFrames DEF Step
  <2>5. CASE Touch(t)
    BY <2>5, FaultFrames, StoreFrames DEF Touch
  <2>6. CASE /\ Top(s) = Own(s)
             /\ TableFault(s) \/ ClearFault(s) \/ \E p \in HeapPage : HeapFault(s, p)
    BY <2>6, TopContext, KernelFaultFrames
  <2> QED BY <2>1, <2>2, <2>3, <2>4, <2>5, <2>6 DEF Works
<1> QED BY <1>1, <1>2 DEF vars

(* The invariant of the frames, for a program that keeps its mmap() and    *)
(* munmap() calls apart: the page table, the bitmaps and the calls in      *)
(* progress agree on who holds a frame.                                    *)
THEOREM FramesSafe == Serial /\ BitsApart => (Spec => []FrameInv)
<1>1. ASSUME Serial, BitsApart PROVE ZonesInv /\ FrameInv /\ [Next]_vars => FrameInv'
  BY <1>1, FrameNext
<1> SUFFICES ASSUME Serial, BitsApart PROVE Spec => []FrameInv
  OBVIOUS
<1>2. ZonesInv /\ FrameInv /\ [Next]_vars => FrameInv'
  BY <1>1
<1> QED BY <1>2, FrameInit, ZonesSafe, PTL DEF Spec

(* No frame in use is given to a second page, be it a page of the program, *)
(* a page table or a page of the kernel heap, whatever the threads do with *)
(* the pages, and munmap() gives back no frame that a page still has:      *)
(* until one page table has replaced another that is in use, or was read   *)
(* before it was cleared, or the kernel heap is damaged.                   *)
THEOREM FramesStayExclusive == Serial /\ BitsApart => (Spec => []FramesExclusive)
<1>1. FrameInv => FramesExclusive
  BY DEF FrameInv, FramesExclusive
<1> QED BY <1>1, FramesSafe, PTL

(* No frame is lost: one that is marked in the bitmaps is in the page      *)
(* table, is a page table itself, or is on its way there or back, or was   *)
(* overwritten by the fault of another thread at the same page.  The page  *)
(* tables replaced by others are excluded with everything that follows.    *)
THEOREM FramesStayAccounted == Serial /\ BitsApart => (Spec => []FramesAccounted)
<1>1. FrameInv => FramesAccounted
  BY DEF FrameInv, FramesAccounted
<1> QED BY <1>1, FramesSafe, PTL

(* munmap() frees only what is allocated (frame.c:112).  Without Serial it *)
(* does not: a run of module MCVirtualMemory finds two calls that free a   *)
(* frame twice.                                                            *)
THEOREM FreesOnlyAllocated == Serial /\ BitsApart => (Spec => []FreesAllocated)
<1>1. FrameInv => FreesAllocated
  BY FramesApart DEF FrameInv, UsedOnce, Pending, FreesAllocated
<1> QED BY <1>1, FramesSafe, PTL

--------------------------------------------------------------------------------
(* DataKept needs to know what a first touch finds: nothing was stored in  *)
(* a page before it was mapped; a page has one thread in do_page_fault     *)
(* unless it is contended; and until that thread has entered a frame, the  *)
(* entry is invalid.                                                       *)
Faults(u) == pc[u] \in FaultSteps /\ at[u] \in UserPage
Forgotten == \A p \in UserPage : p \notin Mapped(uvmzone) => last[p] = Zero
OneFault ==
  \A u, v \in Context : Faults(u) /\ Faults(v) /\ at[u] = at[v] => u = v \/ at[u] \in contended
FirstTouch(u) ==
  Faults(u) /\ at[u] \notin contended =>
    last[at[u]] = Zero /\ (pc[u] = "zero" <=> pt[at[u]] # None)
DataInv == Forgotten /\ OneFault /\ (\A u \in Context : FirstTouch(u)) /\ PagesKept

(* PagesKept, of one page.                                                  *)
ZeroAt(u, p) == pc[u] = "zero" /\ at[u] = p
Kept(p) ==
  \/ /\ pt[p] = None \/ \E u \in Context : ZeroAt(u, p)
     /\ last[p] = Zero
  \/ /\ pt[p] # None
     /\ \A u \in Context : ~ZeroAt(u, p)
     /\ pt[p] \in RamFrame => content[pt[p]] = last[p]
KeptInv == \A p \in Mapped(uvmzone) : p \in Unfinished \/ p \in contended \/ Kept(p)

LEMMA KeptPages == PagesKept <=> KeptInv
<1>1. \A p : (\E u \in Faulting(p) : pc[u] = "zero") <=> \E u \in Context : ZeroAt(u, p)
  BY DEF Faulting, ZeroAt, FaultSteps
<1>2. \A p : (IF pt[p] = None \/ (\E u \in Faulting(p) : pc[u] = "zero")
               THEN last[p] = Zero
               ELSE pt[p] \in RamFrame => content[pt[p]] = last[p]) <=> Kept(p)
  BY <1>1 DEF Kept
<1> QED BY <1>2 DEF PagesKept, KeptInv, Touchable

LEMMA DataNow ==
  ASSUME Forgotten', OneFault', \A u \in Context : FirstTouch(u)', KeptInv'
  PROVE  DataInv'
<1>1. PagesKept' <=> KeptInv'
  BY KeptPages, PTL
<1> QED BY <1>1 DEF DataInv

(* The threads that fault after a step are those that did before it, and   *)
(* fault at the same pages.                                                *)
LEMMA NoNewFault ==
  ASSUME DataInv, NEW t \in Context, OthersStay(t), UNCHANGED last, contended \subseteq contended',
         Mapped(uvmzone) \subseteq Mapped(uvmzone'),
         Faults(t)' => Faults(t) /\ at'[t] = at[t] /\ FirstTouch(t)',
         \A u \in Context : u # t /\ Faults(u) =>
           at[u] \in contended \/ pt'[at[u]] = pt[at[u]]
  PROVE  Forgotten' /\ OneFault' /\ \A u \in Context : FirstTouch(u)'
<1>1. Forgotten'
  BY DEF DataInv, Forgotten
<1>2. \A u \in Context : Faults(u)' => Faults(u) /\ at'[u] = at[u]
  BY DEF OthersStay, Stays, Faults
<1>3. OneFault'
  <2> SUFFICES ASSUME NEW u \in Context, NEW v \in Context, Faults(u)', Faults(v)',
                      at'[u] = at'[v], u # v
               PROVE  at'[u] \in contended'
    BY DEF OneFault
  <2>1. Faults(u) /\ Faults(v) /\ at'[u] = at[u] /\ at'[v] = at[v]
    BY <1>2 DEF Faults
  <2> QED BY <2>1 DEF DataInv, OneFault
<1>4. ASSUME NEW u \in Context \ {t} PROVE FirstTouch(u)'
  BY <1>4 DEF DataInv, FirstTouch, OthersStay, Stays, Faults
<1>5. FirstTouch(t)'
  BY DEF FirstTouch
<1> QED BY <1>1, <1>3, <1>4, <1>5

LEMMA DataInit == Init => DataInv
<1> SUFFICES ASSUME Init PROVE DataInv
  OBVIOUS
<1>1. Forgotten /\ OneFault /\ \A u \in Context : FirstTouch(u)
  BY DEF Init, Forgotten, OneFault, FirstTouch, Faults, FaultSteps
<1>2. Mapped(uvmzone) = {}
  BY DEF Init, Mapped
<1> QED BY <1>1, <1>2, KeptPages DEF DataInv, KeptInv

LEMMA SameUnfinished ==
  ASSUME NEW t \in Context, OthersStay(t), pc[t] # "device", pc'[t] # "device"
  PROVE  \A p : p \in Unfinished => p \in Unfinished'
<1> SUFFICES ASSUME NEW p, p \in Unfinished PROVE p \in Unfinished'
  OBVIOUS
<1>1. PICK u \in Context : pc[u] = "device" /\ p \in ToDo(u)
  BY UnfinishedPages
<1>2. pc'[u] = "device" /\ p \in ToDo(u)'
  BY <1>1 DEF OthersStay, Stays, ToDo
<1> QED BY <1>2 DEF Unfinished, ToDo

(* A page that a step does not concern.                                    *)
LEMMA KeptSame ==
  ASSUME NEW t \in Context, OthersStay(t), NEW p, Kept(p),
         pt'[p] = pt[p], last'[p] = last[p],
         pt[p] \in RamFrame => content'[pt[p]] = content[pt[p]],
         ~ZeroAt(t, p), ~ZeroAt(t, p)'
  PROVE  Kept(p)'
<1>1. \A u \in Context : ZeroAt(u, p)' <=> ZeroAt(u, p)
  BY DEF OthersStay, Stays, ZeroAt
<1> QED BY <1>1 DEF Kept

(* Steps that leave the zones and the contents alone, and change no entry  *)
(* of a page that is mapped.                                               *)
LEMMA NoPageMoves ==
  ASSUME KeptInv, NEW t \in Context, OthersStay(t),
         UNCHANGED <<uvmzone, content, last>>, contended \subseteq contended',
         pc[t] \notin {"device", "zero"}, pc'[t] \notin {"device", "zero"},
         \A p \in Mapped(uvmzone) : pt'[p] = pt[p]
  PROVE  KeptInv'
<1> SUFFICES ASSUME NEW p \in Mapped(uvmzone), p \notin Unfinished', p \notin contended'
             PROVE  Kept(p)'
  BY DEF KeptInv
<1>1. Kept(p)
  BY SameUnfinished DEF KeptInv
<1>2. ~ZeroAt(t, p) /\ ~ZeroAt(t, p)'
  BY DEF ZeroAt
<1> QED BY <1>1, <1>2, KeptSame

LEMMA MmapData ==
  ASSUME ZonesInv, DataInv, NEW t \in Context, NEW va \in UserPage,
         NEW npages \in 1 .. MaxLength, NEW offset \in Device \cup {None},
         Mmap(t, va, npages, offset)
  PROVE  DataInv'
<1>1. UNCHANGED <<uvmzone, pt, content, last, contended>>
  BY DEF Mmap, history
<1>2. OthersStay(t) /\ pc[t] = "user" /\ pc'[t] = "insert"
  BY MmapNow
<1>3. Forgotten' /\ OneFault' /\ \A u \in Context : FirstTouch(u)'
  BY <1>1, <1>2, NoNewFault DEF Faults, FaultSteps
<1>4. KeptInv'
  <2>1. KeptInv
    BY KeptPages DEF DataInv
  <2> QED BY <1>1, <1>2, <2>1, NoPageMoves
<1> QED BY <1>3, <1>4, DataNow

(* A zone is inserted: its pages are not in the page table, and hold what  *)
(* a page holds that was not stored to.                                    *)
LEMMA InsertData ==
  ASSUME ZonesInv, FrameInv, DataInv, NEW t \in Context, Insert(t)
  PROVE  DataInv'
<1>1. UNCHANGED <<pt, content, last, contended>>
  BY DEF Insert, history
<1>2. /\ OthersStay(t) /\ pc[t] = "insert" /\ pc'[t] \in {"user", "device"}
      /\ Mapped(uvmzone') = Mapped(uvmzone) \cup ToDo(t) /\ ToDo(t) \subseteq UserPage
  <2>1. /\ OthersStay(t) /\ pc[t] = "insert"
        /\ Mapped(uvmzone') = Mapped(uvmzone) \cup ToDo(t) /\ ToDo(t) \subseteq UserPage
        /\ \/ Now(t, "user", UserMin, UserMin, None)
           \/ Now(t, "device", at[t], end[t], frame[t])
    BY InsertNow
  <2> QED BY <2>1 DEF Now
<1>3. \A u \in Context : InCall(u) => u = t
  BY <1>2 DEF FrameInv, SerialInv, OneCaller, InCall
<1>4. Unfinished = {} /\ \A q \in UserPage : pt[q] # None => q \in Mapped(uvmzone)
  BY <1>2, <1>3, MayBegin
<1>5. Forgotten' /\ OneFault' /\ \A u \in Context : FirstTouch(u)'
  BY <1>1, <1>2, NoNewFault DEF Faults, FaultSteps
<1>6. KeptInv'
  <2> SUFFICES ASSUME NEW p \in Mapped(uvmzone'), p \notin contended PROVE Kept(p)'
    BY <1>1 DEF KeptInv
  <2>1. ASSUME p \in Mapped(uvmzone) PROVE Kept(p)
    BY <1>4, <2>1, KeptPages DEF DataInv, KeptInv
  <2>2. ASSUME p \notin Mapped(uvmzone) PROVE Kept(p)
    BY <1>2, <1>4, <2>2 DEF DataInv, Forgotten, Kept
  <2>3. ~ZeroAt(t, p) /\ ~ZeroAt(t, p)'
    BY <1>2 DEF ZeroAt
  <2>4. Kept(p)
    BY <2>1, <2>2
  <2> QED BY <1>1, <1>2, <2>3, <2>4, KeptSame
<1> QED BY <1>5, <1>6, DataNow

(* page_map() enters a device where no thread faults.                      *)
LEMMA PageMapData ==
  ASSUME ZonesInv, FrameInv, DataInv, NEW t \in Context, PageMap(t)
  PROVE  DataInv'
<1>1. /\ OthersStay(t) /\ pc[t] = "device" /\ pc'[t] \in {"user", "device"}
      /\ at[t] \in UserPage /\ at[t] \in Unfinished /\ frame[t] \in Device
      /\ pt' = [pt EXCEPT ![at[t]] = frame[t]]
      /\ \A p \in ToDo(t) : p = at[t] \/ (pc'[t] = "device" /\ p \in ToDo(t)')
  BY PageMapNow DEF FrameInv
<1>2. UNCHANGED <<uvmzone, content, last, contended>> /\ ZoneList(uvmzone)
  BY DEF PageMap, history, ZonesInv, Types
<1>3. \A p \in UserPage : pt'[p] = IF p = at[t] THEN frame[t] ELSE pt[p]
  BY <1>1, KernelPages DEF ZonesInv, Types, PageTypes
<1>4. \A u \in Context : Faults(u) => at[u] # at[t] /\ at[u] \in UserPage
  BY <1>1 DEF FrameInv, SerialInv, FaultsElsewhere, Faults, ZonesInv, Types, LocalTypes
<1>5. Forgotten' /\ OneFault' /\ \A u \in Context : FirstTouch(u)'
  BY <1>1, <1>2, <1>3, <1>4, NoNewFault DEF Faults, FaultSteps
<1>6. KeptInv'
  <2> SUFFICES ASSUME NEW p \in Mapped(uvmzone), p \notin contended, p \notin Unfinished'
               PROVE  Kept(p)'
    BY <1>2 DEF KeptInv
  <2>1. p \in UserPage
    BY <1>2, MappedPages
  <2>2. ~ZeroAt(t, p) /\ ~ZeroAt(t, p)'
    BY <1>1 DEF ZeroAt
  <2>3. CASE p = at[t]
    <3>1. \A u \in Context : ~ZeroAt(u, p)'
      BY <2>2, <2>3, <1>1, <1>4 DEF ZeroAt, OthersStay, Stays, Faults, FaultSteps
    <3>2. pt'[p] \notin RamFrame /\ pt'[p] # None
      BY <1>1, <1>3, <2>1, <2>3, FramesApart
    <3> QED BY <3>1, <3>2 DEF Kept
  <2>4. CASE p # at[t]
    <3>1. p \notin Unfinished
      <4> SUFFICES ASSUME NEW u \in Context, pc[u] = "device", p \in ToDo(u) PROVE FALSE
        BY UnfinishedPages
      <4>1. pc'[u] = "device" /\ p \in ToDo(u)'
        BY <2>4, <1>1 DEF OthersStay, Stays, ToDo
      <4> QED BY <4>1 DEF Unfinished, ToDo
    <3>2. Kept(p)
      BY <3>1, KeptPages DEF DataInv, KeptInv
    <3> QED BY <2>1, <2>2, <2>4, <3>2, <1>1, <1>2, <1>3, KeptSame
  <2> QED BY <2>3, <2>4
<1> QED BY <1>5, <1>6, DataNow

LEMMA MunmapData ==
  ASSUME Serial, ZonesInv, DataInv, NEW t \in Context, NEW i \in DOMAIN uvmzone,
         Munmap(t, uvmzone[i])
  PROVE  DataInv'
<1> DEFINE gone == Pages(uvmzone[i])
<1>1. /\ MayCall(t) /\ UNCHANGED <<pt, content>>
      /\ last' = [p \in UserPage |-> IF p \in gone THEN Zero ELSE last[p]]
      /\ contended' = contended \ gone
      /\ \A p \in gone : Faulting(p) = {}
      /\ ZoneList(uvmzone)
  BY DEF Munmap, Forget, ZonesInv, Types
<1>2. /\ OthersStay(t) /\ pc[t] = "user" /\ pc'[t] = "read"
      /\ Mapped(uvmzone') = Mapped(uvmzone) \ gone
  BY MunmapNow
<1> HIDE DEF gone
<1>3. \A u \in Context : Faults(u)' => /\ Faults(u) /\ at'[u] = at[u] /\ pc'[u] = pc[u]
                                    /\ at[u] \notin gone /\ at[u] \in UserPage
  BY <1>1, <1>2
  DEF Faults, Faulting, OthersStay, Stays, FaultSteps, ZonesInv, Types, LocalTypes
<1>4. Forgotten'
  BY <1>1, <1>2 DEF DataInv, Forgotten
<1>5. OneFault'
  <2> SUFFICES ASSUME NEW u \in Context, NEW v \in Context, Faults(u)', Faults(v)',
                      at'[u] = at'[v], u # v
               PROVE  at'[u] \in contended'
    BY DEF OneFault
  <2>1. Faults(u) /\ Faults(v) /\ at'[u] = at[u] /\ at'[v] = at[v] /\ at[u] \notin gone
    BY <1>3 DEF Faults
  <2> QED BY <2>1, <1>1 DEF DataInv, OneFault
<1>6. ASSUME NEW u \in Context PROVE FirstTouch(u)'
  <2> SUFFICES ASSUME Faults(u)', at'[u] \notin contended'
               PROVE  last'[at'[u]] = Zero /\ (pc'[u] = "zero" <=> pt'[at'[u]] # None)
    BY DEF FirstTouch
  <2>1. /\ Faults(u) /\ at'[u] = at[u] /\ pc'[u] = pc[u]
        /\ at[u] \notin gone /\ at[u] \in UserPage
    BY <1>3 DEF Faults
  <2> QED BY <2>1, <1>1 DEF DataInv, FirstTouch
<1>7. KeptInv'
  <2> SUFFICES ASSUME NEW p \in Mapped(uvmzone'), p \notin contended'
               PROVE  Kept(p)'
    BY DEF KeptInv
  <2>1. p \in Mapped(uvmzone) /\ p \notin gone /\ p \in UserPage /\ p \notin contended
    BY <1>1, <1>2, MappedPages
  <2>2. Unfinished = {}
    BY <1>1, <1>2, MayCallAlone, MayBegin
  <2>3. Kept(p)
    BY <2>1, <2>2, KeptPages DEF DataInv, KeptInv
  <2>4. ~ZeroAt(t, p) /\ ~ZeroAt(t, p)'
    BY <1>2 DEF ZeroAt
  <2>5. pt'[p] = pt[p] /\ last'[p] = last[p] /\ content' = content
    BY <1>1, <2>1
  <2> QED BY <1>2, <2>3, <2>4, <2>5, KeptSame
<1> QED BY <1>4, <1>5, <1>6, <1>7, DataNow

(* What the steps of munmap that go through the pages do to the data: they *)
(* change no entry of a page that is mapped.                               *)
LEMMA UnmapData ==
  ASSUME ZonesInv, DataInv, NEW t \in Context, OthersStay(t),
         UNCHANGED <<uvmzone, content, last, contended>>,
         pc[t] \in UnmapSteps, pc'[t] \in {"user"} \cup UnmapSteps,
         \A p \in Mapped(uvmzone) : pt'[p] = pt[p]
  PROVE  DataInv'
<1>1. \A u \in Context : Faults(u) => at[u] \in Mapped(uvmzone)
  BY DEF ZonesInv, CallsInv, CallOK, Faults
<1>2. ~Faults(t) /\ ~Faults(t)'
  BY DEF Faults, FaultSteps, UnmapSteps
<1>3. Forgotten' /\ OneFault' /\ \A u \in Context : FirstTouch(u)'
  BY <1>1, <1>2, NoNewFault
<1>4. KeptInv'
  <2>1. pc[t] \notin {"device", "zero"} /\ pc'[t] \notin {"device", "zero"} /\ KeptInv
    BY KeptPages DEF UnmapSteps, DataInv
  <2> QED BY <2>1, NoPageMoves
<1> QED BY <1>3, <1>4, DataNow

LEMMA UnmapReadData ==
  ASSUME ZonesInv, DataInv, NEW t \in Context, UnmapRead(t)
  PROVE  DataInv'
<1>1. /\ pc[t] = "read" /\ pc[t] \in UnmapSteps /\ UNCHANGED pt
      /\ UNCHANGED <<uvmzone, content, last, contended>> /\ LocalTypes
      /\ at[t] \in Page /\ pt[at[t]] \in AnyFrame
  BY DEF UnmapRead, UnmapSteps, ZonesInv, Types, LocalTypes, PageTypes, history
<1>2. OthersStay(t) /\ pc'[t] \in {"user", "read", "clear"}
  <2>1. CASE pt[at[t]] = None
    <3>1. NextPage(t, "read", None)
      BY <2>1 DEF UnmapRead
    <3> QED BY <1>1, <3>1, UnmapNext
  <2>2. CASE pt[at[t]] # None
    <3>1. ToStep(t, "clear", at[t], pt[at[t]]) /\ UNCHANGED end
      BY <2>2 DEF UnmapRead
    <3>2. Now(t, "clear", at[t], end[t], pt[at[t]])
      BY <1>1, <3>1, MovedOn DEF PC, UnmapSteps
    <3> QED BY <3>2 DEF Now
  <2> QED BY <2>1, <2>2
<1> QED BY <1>1, <1>2, UnmapData DEF UnmapSteps

LEMMA UnmapClearData ==
  ASSUME ZonesInv, FrameInv, DataInv, NEW t \in Context, UnmapClear(t)
  PROVE  DataInv'
<1>1. /\ pc[t] = "clear" /\ pc[t] \in UnmapSteps /\ pt' = [pt EXCEPT ![at[t]] = None]
      /\ UNCHANGED <<uvmzone, content, last, contended>> /\ LocalTypes /\ ZoneList(uvmzone)
      /\ ToStep(t, "free", at[t], frame[t]) /\ UNCHANGED end
      /\ at[t] \in Page /\ frame[t] \in AnyFrame /\ pt \in [Page -> AnyFrame]
  BY DEF UnmapClear, UnmapSteps, ZonesInv, Types, LocalTypes, PageTypes, history
<1>2. OthersStay(t) /\ pc'[t] = "free"
  <2>1. Now(t, "free", at[t], end[t], frame[t])
    BY <1>1, MovedOn DEF PC, UnmapSteps
  <2> QED BY <2>1 DEF Now
<1>3. at[t] \notin Mapped(uvmzone)
  <2>1. at[t] \in ToDo(t)
    BY <1>1, PageZoneAssumption DEF ZonesInv, CallsInv, CallOK, InCall, ToDo, LocalTypes, UserPage
  <2> QED BY <1>1, <2>1 DEF FrameInv, SerialInv, GivenUp
<1>4. \A p \in Mapped(uvmzone) : pt'[p] = pt[p]
  BY <1>1, <1>3, KernelPages, MappedPages
<1> QED BY <1>1, <1>2, <1>4, UnmapData DEF UnmapSteps

LEMMA UnmapFreeData ==
  ASSUME ZonesInv, DataInv, NEW t \in Context, UnmapFree(t)
  PROVE  DataInv'
<1>1. /\ pc[t] \in UnmapSteps /\ NextPage(t, "read", None) /\ UNCHANGED pt
      /\ UNCHANGED <<uvmzone, content, last, contended>>
  BY DEF UnmapFree, UnmapSteps, history
<1>2. OthersStay(t) /\ pc'[t] \in {"user", "read"}
  BY <1>1, UnmapNext
<1> QED BY <1>1, <1>2, UnmapData DEF UnmapSteps

(* A store goes to the frame of one page only.                             *)
LEMMA StoreData ==
  ASSUME ZonesInv, FrameInv, DataInv, NEW t \in Context, NEW p \in Touchable, NEW v \in Value,
         Store(t, p, v)
  PROVE  DataInv'
<1>1. /\ pc[t] = "user" /\ pt[p] # None /\ UNCHANGED <<uvmzone, pt>>
      /\ content' = [content EXCEPT ![pt[p]] = v] /\ last' = [last EXCEPT ![p] = v]
      /\ Contends(p) /\ \A u \in Context : Stays(u)
      /\ PageTypes /\ LocalTypes /\ ZoneList(uvmzone)
  BY Stayed DEF Store, ZonesInv, Types
<1>2. p \in Mapped(uvmzone) /\ p \in UserPage /\ p \in Page
  BY <1>1, KernelPages, MappedPages DEF Touchable
<1>3. /\ OthersStay(t) /\ pc'[t] = "user"
      /\ \A u \in Context : (Faults(u)' <=> Faults(u)) /\ at'[u] = at[u] /\ pc'[u] = pc[u]
  BY <1>1 DEF OthersStay, Stays, Faults
<1>4. /\ contended \subseteq contended'
      /\ \A u \in Context : Faults(u) /\ at[u] = p => p \in contended'
      /\ \A q \in UserPage : last'[q] = IF q = p THEN v ELSE last[q]
      /\ \A f \in RamFrame : content'[f] = IF f = pt[p] THEN v ELSE content[f]
  BY <1>1, <1>2 DEF Contends, Faulting, Faults, PageTypes
<1>5. Forgotten'
  BY <1>1, <1>2, <1>4 DEF DataInv, Forgotten
<1>6. OneFault'
  BY <1>3, <1>4 DEF DataInv, OneFault, Faults
<1>7. ASSUME NEW u \in Context PROVE FirstTouch(u)'
  <2> SUFFICES ASSUME Faults(u), at[u] \notin contended'
               PROVE  last'[at[u]] = Zero /\ (pc[u] = "zero" <=> pt[at[u]] # None)
    BY <1>1, <1>3 DEF FirstTouch
  <2>1. at[u] # p /\ at[u] \in UserPage /\ at[u] \notin contended
    BY <1>1, <1>4 DEF Faults
  <2> QED BY <2>1, <1>4 DEF DataInv, FirstTouch
<1>8. KeptInv'
  <2> SUFFICES ASSUME NEW q \in Mapped(uvmzone), q \notin contended', q \notin Unfinished'
               PROVE  Kept(q)'
    BY <1>1 DEF KeptInv
  <2>1. q \notin Unfinished /\ q \notin contended /\ q \in UserPage /\ q \in Page
    BY <1>1, <1>3, <1>4, SameUnfinished, KernelPages, MappedPages
  <2>2. Kept(q)
    BY <2>1, KeptPages DEF DataInv, KeptInv
  <2>3. ~ZeroAt(t, q) /\ ~ZeroAt(t, q)'
    BY <1>1, <1>3 DEF ZeroAt
  <2>4. CASE q = p
    <3>1. \A u \in Context : ~ZeroAt(u, q)'
      BY <2>1, <2>4, <1>3, <1>4 DEF ZeroAt, Faults, FaultSteps
    <3>2. pt'[q] # None /\ last'[q] = v /\ (pt'[q] \in RamFrame => content'[pt'[q]] = v)
      BY <2>4, <1>1, <1>2, <1>4
    <3> QED BY <3>1, <3>2 DEF Kept
  <2>5. CASE q # p
    <3>1. pt[q] \in RamFrame => pt[q] # pt[p]
      BY <2>1, <2>5, <1>2, FramesApart DEF FrameInv, UsedOnce
    <3>2. last'[q] = last[q] /\ (pt[q] \in RamFrame => content'[pt[q]] = content[pt[q]])
      BY <2>1, <2>5, <3>1, <1>4
    <3> QED BY <1>1, <1>3, <2>2, <2>3, <3>2, KeptSame
  <2> QED BY <2>4, <2>5
<1> QED BY <1>5, <1>6, <1>7, <1>8, DataNow

(* A page fault begins, at a page of the program ...                       *)
LEMMA EntersUserData ==
  ASSUME ZonesInv, DataInv, NEW t \in Context, pc[t] = "user",
         NEW p \in UserPage, p \in Mapped(uvmzone), p \notin Unfinished, pt[p] = None,
         UNCHANGED <<uvmzone, bitmap, pt, content, end, halted, last, dropped>>,
         Contends(p), ToStep(t, "prot", p, None)
  PROVE  DataInv'
<1>1. /\ pc[t] = "user" /\ pt[p] = None /\ UNCHANGED <<uvmzone, pt, content, last>>
      /\ UNCHANGED end /\ LocalTypes /\ ZoneList(uvmzone)
  BY DEF ZonesInv, Types
<1>2. p \in Mapped(uvmzone) /\ p \notin Unfinished /\ p \in UserPage /\ p \in Page
  BY KernelPages
<1>3. OthersStay(t) /\ pc'[t] = "prot" /\ at'[t] = p
  <2>1. Now(t, "prot", p, end[t], None)
    BY <1>1, <1>2, UserMinPage, MovedOn DEF PC, FaultSteps
  <2> QED BY <2>1 DEF Now
<1>4. /\ contended \subseteq contended'
      /\ \A u \in Context : Faults(u) /\ at[u] = p => p \in contended'
  BY <1>1 DEF Contends, Faulting, Faults
<1>5. /\ ~Faults(t)
      /\ \A u \in Context \ {t} : (Faults(u)' <=> Faults(u)) /\ at'[u] = at[u] /\ pc'[u] = pc[u]
  BY <1>1, <1>3 DEF Faults, FaultSteps, OthersStay, Stays
<1>6. Forgotten'
  BY <1>1 DEF DataInv, Forgotten
<1>7. OneFault'
  <2> SUFFICES ASSUME NEW u \in Context, NEW v \in Context, Faults(u)', Faults(v)',
                      at'[u] = at'[v], u # v
               PROVE  at'[u] \in contended'
    BY DEF OneFault
  <2>1. CASE u = t
    <3>1. v # t /\ Faults(v) /\ at[v] = p /\ at'[u] = p
      BY <2>1, <1>3, <1>5 DEF Faults
    <3> QED BY <3>1, <1>4
  <2>2. CASE v = t
    <3>1. u # t /\ Faults(u) /\ at[u] = p /\ at'[u] = p
      BY <2>2, <1>3, <1>5 DEF Faults
    <3> QED BY <3>1, <1>4
  <2>3. CASE u # t /\ v # t
    <3>1. Faults(u) /\ Faults(v) /\ at'[u] = at[u] /\ at[u] = at[v]
      BY <2>3, <1>5 DEF Faults
    <3> QED BY <3>1, <1>4 DEF DataInv, OneFault
  <2> QED BY <2>1, <2>2, <2>3
<1>8. Kept(p) \/ p \in contended
  BY <1>2, KeptPages DEF DataInv, KeptInv
<1>9. ASSUME NEW u \in Context PROVE FirstTouch(u)'
  <2>1. CASE u = t
    <3>1. p \notin contended' => last[p] = Zero
      BY <1>1, <1>4, <1>8 DEF Kept
    <3> QED BY <2>1, <3>1, <1>1, <1>3 DEF FirstTouch
  <2>2. CASE u # t
    BY <2>2, <1>1, <1>4, <1>5 DEF DataInv, FirstTouch, Faults
  <2> QED BY <2>1, <2>2
<1>10. KeptInv'
  <2> SUFFICES ASSUME NEW q \in Mapped(uvmzone), q \notin contended', q \notin Unfinished'
               PROVE  Kept(q)'
    BY <1>1 DEF KeptInv
  <2>1. q \notin Unfinished /\ q \notin contended
    BY <1>1, <1>3, <1>4, SameUnfinished
  <2>2. Kept(q)
    BY <2>1, KeptPages DEF DataInv, KeptInv
  <2>3. ~ZeroAt(t, q) /\ ~ZeroAt(t, q)'
    BY <1>1, <1>3 DEF ZeroAt
  <2> QED BY <1>1, <1>3, <2>2, <2>3, KeptSame
<1> QED BY <1>6, <1>7, <1>9, <1>10, DataNow

(* ... or of the kernel.                                                   *)
LEMMA EntersKernelData ==
  ASSUME ZonesInv, DataInv, NEW t \in Context, pc[t] = "user",
         NEW p \in Page, p \notin UserPage, contended \subseteq contended',
         UNCHANGED <<uvmzone, bitmap, pt, content, end, halted, last, dropped>>,
         ToStep(t, "prot", p, None)
  PROVE  DataInv'
<1>1. UNCHANGED <<uvmzone, content, last>> /\ UNCHANGED end /\ UNCHANGED last /\ LocalTypes
      /\ UNCHANGED <<uvmzone, pt>>
  BY DEF ZonesInv, Types
<1>2. OthersStay(t) /\ pc'[t] = "prot" /\ at'[t] = p
  <2>1. Now(t, "prot", p, end[t], None)
    BY <1>1, UserMinPage, MovedOn DEF PC, FaultSteps
  <2> QED BY <2>1 DEF Now
<1>3. ~Faults(t)'
  BY <1>2 DEF Faults
<1>4. Forgotten' /\ OneFault' /\ \A u \in Context : FirstTouch(u)'
  BY <1>1, <1>2, <1>3, NoNewFault
<1>5. KeptInv'
  <2>1. KeptInv
    BY KeptPages DEF DataInv
  <2> QED BY <1>1, <1>2, <2>1, NoPageMoves
<1> QED BY <1>4, <1>5, DataNow

LEMMA FaultData ==
  ASSUME ZonesInv, DataInv, NEW t \in Context, NEW p \in Touchable, Fault(t, p)
  PROVE  DataInv'
<1>1. /\ pc[t] = "user" /\ pt[p] = None /\ ToStep(t, "prot", p, None) /\ Contends(p)
      /\ UNCHANGED <<uvmzone, bitmap, pt, content, end, halted, last, dropped>>
      /\ ZoneList(uvmzone)
  BY DEF Fault, ZonesInv, Types
<1>2. p \in Mapped(uvmzone) /\ p \notin Unfinished /\ p \in UserPage
  BY <1>1, MappedPages DEF Touchable
<1> QED BY <1>1, <1>2, EntersUserData

LEMMA KernelFaultData ==
  ASSUME ZonesInv, FrameInv, DataInv, NEW t \in Thread, pc[Nested(t)] = "user",
         TableFault(t) \/ ClearFault(t) \/ \E p \in HeapPage : HeapFault(t, p)
  PROVE  DataInv'
<1>1. LocalTypes /\ Nested(t) \in Context /\ Own(t) \in Context
  BY NestedFault DEF ZonesInv, Types
<1>2. CASE TableFault(t)
  <2>1. /\ TableOf(at[Own(t)]) \in Page /\ TableOf(at[Own(t)]) \notin UserPage
        /\ UNCHANGED <<uvmzone, bitmap, pt, content, end, halted, last, dropped>>
        /\ UNCHANGED contended
        /\ ToStep(Nested(t), "prot", TableOf(at[Own(t)]), None)
    BY <1>1, <1>2, TableFaultNow
  <2> QED BY <1>1, <2>1, EntersKernelData
<1>3. CASE ClearFault(t)
  <2>1. /\ at[Own(t)] \in Page /\ pc[Own(t)] \in FaultSteps
        /\ at[Own(t)] \in UserPage => at[Own(t)] \in Mapped(uvmzone)
        /\ pt[at[Own(t)]] = None /\ Contends(at[Own(t)])
        /\ UNCHANGED <<uvmzone, bitmap, pt, content, end, halted, last, dropped>>
        /\ ToStep(Nested(t), "prot", at[Own(t)], None)
    BY <1>3, ClearFaultNow
  <2>2. CASE at[Own(t)] \in UserPage
    <3>1. at[Own(t)] \notin Unfinished /\ at[Own(t)] \in Mapped(uvmzone)
      BY <1>1, <2>1, <2>2 DEF FrameInv, SerialInv, FaultsElsewhere
    <3> QED BY <1>1, <2>1, <2>2, <3>1, EntersUserData
  <2>3. CASE at[Own(t)] \notin UserPage
    <3>1. contended \subseteq contended'
      BY <2>1 DEF Contends
    <3> QED BY <1>1, <2>1, <2>3, <3>1, EntersKernelData
  <2> QED BY <2>2, <2>3
<1>4. CASE \E p \in HeapPage : HeapFault(t, p)
  <2>1. PICK p \in HeapPage : HeapFault(t, p)
    BY <1>4
  <2>2. /\ p \in Page /\ p \notin UserPage
        /\ UNCHANGED <<uvmzone, bitmap, pt, content, end, halted, last, dropped>>
        /\ UNCHANGED contended
        /\ ToStep(Nested(t), "prot", p, None)
    BY <2>1, HeapFaultNow
  <2> QED BY <1>1, <2>2, EntersKernelData
<1> QED BY <1>2, <1>3, <1>4

(* A step of a fault before its frame is entered.                          *)
LEMMA FaultGoesOnData ==
  ASSUME ZonesInv, DataInv, NEW t \in Context, OthersStay(t),
         UNCHANGED <<uvmzone, pt, content, last, contended>>,
         pc[t] \in {"prot", "alloc"},
         \/ pc'[t] \in {"alloc", "map"} /\ at'[t] = at[t]
         \/ pc'[t] = "user"
  PROVE  DataInv'
<1>1. /\ pc[t] # "zero" /\ pc'[t] \notin {"device", "zero"} /\ pc[t] \notin {"device", "zero"}
      /\ Faults(t)' => Faults(t) /\ at'[t] = at[t]
  BY DEF Faults, FaultSteps
<1>2. Faults(t)' => FirstTouch(t)'
  BY <1>1 DEF DataInv, FirstTouch
<1>3. Forgotten' /\ OneFault' /\ \A u \in Context : FirstTouch(u)'
  BY <1>1, <1>2, NoNewFault
<1>4. KeptInv'
  <2>1. KeptInv
    BY KeptPages DEF DataInv
  <2> QED BY <1>1, <2>1, NoPageMoves
<1> QED BY <1>3, <1>4, DataNow

LEMMA FaultProtData ==
  ASSUME ZonesInv, DataInv, NEW t \in Context, FaultProt(t)
  PROVE  DataInv'
<1>1. /\ pc[t] = "prot" /\ pc[t] \in FaultSteps
      /\ UNCHANGED <<uvmzone, pt, content, last, contended>>
  BY DEF FaultProt, FaultSteps, history
<1>2. LocalTypes /\ at[t] \in Page /\ (at[t] \in UserPage => at[t] \in Mapped(uvmzone))
  BY <1>1, FaultingNow
<1>3. ToStep(t, "alloc", at[t], None) /\ UNCHANGED end
  BY <1>2 DEF FaultProt
<1>4. Now(t, "alloc", at[t], end[t], None)
  BY <1>2, <1>3, UserMinPage, MovedOn DEF PC, FaultSteps
<1> QED BY <1>1, <1>4, FaultGoesOnData DEF Now

LEMMA FaultAllocData ==
  ASSUME ZonesInv, DataInv, NEW t \in Context, FaultAlloc(t)
  PROVE  DataInv'
<1>1. /\ pc[t] = "alloc" /\ pc[t] \in FaultSteps
      /\ UNCHANGED <<uvmzone, pt, content, last, contended>>
  BY DEF FaultAlloc, FaultSteps, history
<1>2. LocalTypes /\ at[t] \in Page /\ IsBitmap(bitmap)
  BY <1>1, FaultingNow DEF ZonesInv, Types
<1>3. CASE CanAlloc(bitmap, 1)
  <2>1. PICK pa : pa = FrameAlloc(bitmap, 1).pa
    OBVIOUS
  <2>2. ToStep(t, "map", at[t], pa) /\ UNCHANGED end
    BY <1>3, <2>1 DEF FaultAlloc
  <2>3. pa \in AnyFrame
    BY <1>2, <1>3, <2>1, AllocFrame DEF AnyFrame
  <2>4. Now(t, "map", at[t], end[t], pa)
    BY <1>2, <2>2, <2>3, MovedOn DEF PC, FaultSteps
  <2> QED BY <1>1, <2>4, FaultGoesOnData DEF Now
<1>4. CASE ~CanAlloc(bitmap, 1)
  <2>1. Return(t)
    BY <1>4 DEF FaultAlloc, Halt
  <2>2. Now(t, "user", UserMin, UserMin, None)
    BY <1>2, <2>1, Returned
  <2> QED BY <1>1, <2>2, FaultGoesOnData DEF Now
<1> QED BY <1>3, <1>4

LEMMA FaultMapData ==
  ASSUME ZonesInv, FrameInv, DataInv, NEW t \in Context, FaultMap(t)
  PROVE  DataInv'
<1>1. /\ OthersStay(t) /\ pc[t] = "map" /\ pc'[t] = "zero" /\ at'[t] = at[t]
      /\ at[t] \in Page /\ frame[t] \in BitFrame
      /\ \A p \in Page : pt'[p] = IF p = at[t] THEN frame[t] ELSE pt[p]
  BY FaultMapNow
<1>2. UNCHANGED <<uvmzone, content, last, contended>> /\ LocalTypes /\ ZoneList(uvmzone)
  BY DEF FaultMap, ZonesInv, Types
<1>3. at[t] \in UserPage => Faults(t)
  BY <1>1 DEF Faults, FaultSteps
<1>4. pt'[at[t]] # None
  BY <1>1, FramesApart
<1>5. Faults(t)' => Faults(t) /\ at'[t] = at[t] /\ FirstTouch(t)'
  <2>1. Faults(t)' => Faults(t)
    BY <1>1, <1>3 DEF Faults
  <2>2. Faults(t)' => FirstTouch(t)'
    BY <2>1, <1>1, <1>2, <1>4 DEF DataInv, FirstTouch
  <2> QED BY <2>1, <2>2, <1>1
<1>6. ASSUME NEW u \in Context, u # t, Faults(u)
      PROVE  at[u] \in contended \/ pt'[at[u]] = pt[at[u]]
  <2>1. at[u] \in UserPage /\ at[u] \in Page
    BY <1>6, KernelPages DEF Faults
  <2>2. CASE at[u] = at[t]
    BY <2>1, <2>2, <1>3, <1>6 DEF DataInv, OneFault
  <2> QED BY <2>1, <2>2, <1>1
<1>7. Forgotten' /\ OneFault' /\ \A u \in Context : FirstTouch(u)'
  BY <1>1, <1>2, <1>5, <1>6, NoNewFault
<1>8. KeptInv'
  <2> SUFFICES ASSUME NEW p \in Mapped(uvmzone), p \notin contended, p \notin Unfinished'
               PROVE  Kept(p)'
    BY <1>2 DEF KeptInv
  <2>1. p \in UserPage /\ p \in Page /\ p \notin Unfinished
    BY <1>1, <1>2, KernelPages, MappedPages, SameUnfinished
  <2>2. CASE p = at[t]
    <3>1. ZeroAt(t, p)' /\ last'[p] = Zero
      BY <2>1, <2>2, <1>1, <1>2, <1>3 DEF ZeroAt, DataInv, FirstTouch
    <3> QED BY <3>1 DEF Kept
  <2>3. CASE p # at[t]
    <3>1. ~ZeroAt(t, p) /\ ~ZeroAt(t, p)'
      BY <2>3, <1>1 DEF ZeroAt
    <3>2. Kept(p)
      BY <2>1, KeptPages DEF DataInv, KeptInv
    <3> QED BY <2>1, <2>3, <3>1, <3>2, <1>1, <1>2, KeptSame
  <2> QED BY <2>2, <2>3
<1> QED BY <1>7, <1>8, DataNow

(* The new page is cleared, and no other page with it.                     *)
LEMMA FaultZeroData ==
  ASSUME ZonesInv, FrameInv, DataInv, NEW t \in Context, FaultZero(t)
  PROVE  DataInv'
<1>1. /\ pc[t] = "zero" /\ pc[t] \in FaultSteps /\ pt[at[t]] # None
      /\ content' = [content EXCEPT ![pt[at[t]]] = Zero]
      /\ UNCHANGED <<uvmzone, pt, last, contended>> /\ Return(t)
      /\ ZoneList(uvmzone)
  BY DEF FaultZero, FaultSteps, history, ZonesInv, Types
<1>2. LocalTypes /\ PageTypes /\ at[t] \in Page
  BY <1>1, FaultingNow
<1>3. OthersStay(t) /\ pc'[t] = "user"
  <2>1. Now(t, "user", UserMin, UserMin, None)
    BY <1>1, <1>2, Returned
  <2> QED BY <2>1 DEF Now
<1>4. (at[t] \in UserPage => Faults(t)) /\ ~Faults(t)'
  BY <1>1, <1>3 DEF Faults, FaultSteps
<1>5. Forgotten' /\ OneFault' /\ \A u \in Context : FirstTouch(u)'
  BY <1>1, <1>3, <1>4, NoNewFault
<1>6. \A f \in RamFrame : content'[f] = IF f = pt[at[t]] THEN Zero ELSE content[f]
  BY <1>1, <1>2 DEF PageTypes
<1>7. KeptInv'
  <2> SUFFICES ASSUME NEW p \in Mapped(uvmzone), p \notin contended, p \notin Unfinished'
               PROVE  Kept(p)'
    BY <1>1 DEF KeptInv
  <2>1. p \in UserPage /\ p \in Page /\ p \notin Unfinished
    BY <1>1, <1>3, KernelPages, MappedPages, SameUnfinished
  <2>2. CASE p = at[t]
    <3>1. \A u \in Context : ~ZeroAt(u, p)'
      <4> SUFFICES ASSUME NEW u \in Context, pc'[u] = "zero", at'[u] = p PROVE FALSE
        BY DEF ZeroAt
      <4>1. u # t /\ Faults(u) /\ Faults(t) /\ at[u] = at[t]
        BY <1>4, <2>1, <2>2, <1>3 DEF OthersStay, Stays, Faults, FaultSteps
      <4> QED BY <4>1, <2>2, <1>4 DEF DataInv, OneFault
    <3>2. last'[p] = Zero
      BY <2>1, <2>2, <1>1, <1>4 DEF DataInv, FirstTouch
    <3>3. pt'[p] # None /\ (pt'[p] \in RamFrame => content'[pt'[p]] = Zero)
      BY <2>2, <1>1, <1>6
    <3> QED BY <3>1, <3>2, <3>3 DEF Kept
  <2>3. CASE p # at[t]
    <3>1. ~ZeroAt(t, p) /\ ~ZeroAt(t, p)'
      BY <2>3, <1>3 DEF ZeroAt
    <3>2. Kept(p)
      BY <2>1, KeptPages DEF DataInv, KeptInv
    <3>3. pt[p] \in RamFrame => pt[p] # pt[at[t]]
      BY <2>1, <2>3, <1>2, FramesApart DEF FrameInv, UsedOnce
    <3>4. pt[p] \in RamFrame => content'[pt[p]] = content[pt[p]]
      BY <3>3, <1>6
    <3> QED BY <3>1, <3>2, <3>4, <1>1, <1>3, KeptSame
  <2> QED BY <2>2, <2>3
<1> QED BY <1>5, <1>7, DataNow

LEMMA DataNext ==
  ASSUME Serial
  PROVE  ZonesInv /\ FrameInv /\ DataInv /\ [Next]_vars => DataInv'
<1> SUFFICES ASSUME ZonesInv, FrameInv, DataInv, [Next]_vars PROVE DataInv'
  OBVIOUS
<1>1. CASE UNCHANGED memory
  BY <1>1 DEF memory, DataInv, Forgotten, OneFault, FirstTouch, Faults, PagesKept, Touchable,
              Unfinished, Faulting
<1>2. CASE Next /\ ~UNCHANGED memory
  <2>1. PICK s \in Thread : Works(s)
    BY <1>2 DEF Next
  <2>2. PICK t \in Context : t = Top(s)
    BY TopContext
  <2>3. CASE Call(t)
    BY <2>3, MmapData, MunmapData DEF Call
  <2>4. CASE Step(t)
    BY <2>4, InsertData, PageMapData, UnmapReadData, UnmapClearData, UnmapFreeData,
       FaultProtData, FaultAllocData, FaultMapData, FaultZeroData DEF Step
  <2>5. CASE Touch(t)
    BY <2>5, FaultData, StoreData DEF Touch
  <2>6. CASE /\ Top(s) = Own(s)
             /\ TableFault(s) \/ ClearFault(s) \/ \E p \in HeapPage : HeapFault(s, p)
    BY <2>6, TopContext, KernelFaultData
  <2> QED BY <2>1, <2>2, <2>3, <2>4, <2>5, <2>6 DEF Works
<1> QED BY <1>1, <1>2 DEF vars

(* A page keeps what was last stored in it: the zeros it began with or a   *)
(* value of the program, whatever the other threads map, unmap and touch,  *)
(* until two of them touch a page table for the first time together.       *)
THEOREM PagesKeepData == Serial /\ BitsApart => (Spec => []DataKept)
<1>1. ASSUME Serial PROVE ZonesInv /\ FrameInv /\ DataInv /\ [Next]_vars => DataInv'
  BY <1>1, DataNext
<1> SUFFICES ASSUME Serial, BitsApart PROVE Spec => []DataKept
  OBVIOUS
<1>2. ZonesInv /\ FrameInv /\ DataInv /\ [Next]_vars => DataInv'
  BY <1>1
<1>3. Spec => []FrameInv
  BY FramesSafe
<1>4. DataInv => DataKept
  BY DEF DataInv, DataKept
<1> QED BY <1>2, <1>3, <1>4, DataInit, ZonesSafe, PTL DEF Spec
================================================================================
