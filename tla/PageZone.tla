-------------------------------- MODULE PageZone --------------------------------
(***************************************************************************)
(* The zones of the user address space: uvmzone of src/kernel/page.c.      *)
(* Addresses and lengths are counted in pages.  A list of zones is a       *)
(* sequence in list order.  The functions run with interrupts off, so they *)
(* are operators here.  Lengths are small enough for va + size not to wrap *)
(* around 2^32.  The protection of a zone is left out: it never changes    *)
(* and no page is made inaccessible.                                       *)
(***************************************************************************)
EXTENDS Naturals, SequencesExt, FiniteSetsExt

CONSTANTS
  UserMin,   (* USER_MIN_ADDR                                              *)
  UserMax    (* USER_MAX_ADDR                                              *)

ASSUME PageZoneAssumption == UserMin \in Nat /\ UserMax \in Nat /\ UserMin < UserMax

UserPage == UserMin .. UserMax - 1

Zone(va, npages) == [base |-> va, limit |-> npages]
End(zone) == zone.base + zone.limit
Pages(zone) == zone.base .. End(zone) - 1
Mapped(zones) == UNION {Pages(zones[i]) : i \in DOMAIN zones}

--------------------------------------------------------------------------------
(* page_alloc_in_addr() stops at the first zone that does not end before   *)
(* va; it succeeds if the new zone ends before that one begins.            *)
StopsAt(zones, va) ==
  Min({i \in DOMAIN zones : va < End(zones[i])} \cup {Len(zones) + 1})

(* Faulty: only the first address is compared, not the last.               *)
AllocFirstPageOnly(zones, va, npages) ==
  LET i == StopsAt(zones, va)
  IN  /\ npages > 0 /\ UserMin <= va /\ va + npages <= UserMax
      /\ i <= Len(zones) => va < zones[i].base

CanAllocInAddr(zones, va, npages) ==
  LET i == StopsAt(zones, va)
  IN  /\ npages > 0 /\ UserMin <= va /\ va + npages <= UserMax
      /\ i <= Len(zones) => va + npages <= zones[i].base

PageAllocInAddr(zones, va, npages) ==
  InsertAt(zones, StopsAt(zones, va), Zone(va, npages))

(* page_alloc(): the first gap between two zones that is large enough, or  *)
(* the place after the last one.  A gap before the first zone is not used. *)
GapAfter(zones, npages) ==
  Min({i \in DOMAIN zones :
         i < Len(zones) => End(zones[i]) + npages <= zones[i + 1].base})
Address(zones, npages) ==
  IF zones = <<>> THEN UserMin ELSE End(zones[GapAfter(zones, npages)])
CanAllocPages(zones, npages) ==
  npages > 0 /\ Address(zones, npages) + npages <= UserMax
PageAlloc(zones, npages) ==
  IF zones = <<>>
  THEN <<Zone(UserMin, npages)>>
  ELSE InsertAt(zones, GapAfter(zones, npages) + 1,
                Zone(Address(zones, npages), npages))

(* page_free() takes base and length of a zone as it was allocated.        *)
PageFree(zones, va, npages) ==
  RemoveAt(zones, Min({i \in DOMAIN zones : zones[i] = Zone(va, npages)}))

================================================================================
