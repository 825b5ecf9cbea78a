---------------------------------- MODULE Frame ----------------------------------
(***************************************************************************)
(* The physical frames: src/kernel/frame.c on the bitmaps of bitmap.c.     *)
(* Addresses and lengths are counted in pages.  A bitmap is the set of the *)
(* indices of its bits that are 1; its number of bits is kept beside it.   *)
(* The functions run with interrupts off from end to end, so they are      *)
(* operators here, from the bitmaps before a call to those after it.       *)
(***************************************************************************)
EXTENDS Naturals, Sequences, FiniteSetsExt

CONSTANT RamZone   (* g_ram_zone: the zones of RAM, first frame and end    *)

ASSUME FrameAssumption ==
  /\ RamZone \in Seq([first : Nat, end : Nat])
  /\ \A z \in DOMAIN RamZone : RamZone[z].first < RamZone[z].end

PAGE_SIZE == 4096
ELEM_BITS == 32

DivRoundUp(x, d) == (x + d - 1) \div d

(* bitmap_buf_size(bit_cnt), rounded up to pages.                          *)
BitmapPages(bit_cnt) ==
  DivRoundUp(8 + (ELEM_BITS \div 8) * DivRoundUp(bit_cnt, ELEM_BITS), PAGE_SIZE)

(* init_frame() puts the bitmap of a zone into its first frames.  bit_cnt  *)
(* is computed before limit is reduced by them.                            *)
WithBitmap(zone) ==
  LET bit_cnt == zone.end - zone.first
      size == BitmapPages(bit_cnt)
  IN  [base |-> zone.first + size, limit |-> bit_cnt - size, bit_cnt |-> bit_cnt]

(* A zone with nothing left after its bitmap is dropped; the others keep   *)
(* their order, and their number in g_ram_zone.                            *)
pmzone ==
  [z \in {y \in DOMAIN RamZone : WithBitmap(RamZone[y]).limit # 0} |->
     WithBitmap(RamZone[z])]

NoBitSet == [z \in DOMAIN pmzone |-> {}]

InZone(z, pa) == pmzone[z].base <= pa /\ pa < pmzone[z].base + pmzone[z].limit

(* The frames that are RAM and not in use by the bitmaps.                  *)
RamFrame == UNION {pmzone[z].base .. pmzone[z].base + pmzone[z].limit - 1 :
                     z \in DOMAIN pmzone}

(* The frames the bits stand for.                                          *)
BitFrame == UNION {pmzone[z].base .. pmzone[z].base + pmzone[z].bit_cnt - 1 :
                     z \in DOMAIN pmzone}

Used(bitmap) == UNION {{pmzone[z].base + idx : idx \in bitmap[z]} :
                         z \in DOMAIN pmzone}

--------------------------------------------------------------------------------
(* bitmap_none(), bitmap_set_multiple() and bitmap_scan().                 *)
Bits(start, cnt) == start .. start + cnt - 1
BitmapNone(bits, start, cnt) == Bits(start, cnt) \cap bits = {}
BitmapSetMultiple(bits, start, cnt, value) ==
  IF value THEN bits \cup Bits(start, cnt) ELSE bits \ Bits(start, cnt)
BitmapGroups(bits, bit_cnt, cnt) ==
  {i \in 0 .. bit_cnt - 1 : i + cnt <= bit_cnt /\ BitmapNone(bits, i, cnt)}
BitmapScan(bits, bit_cnt, cnt) == Min(BitmapGroups(bits, bit_cnt, cnt))

(* Faulty: the search ends with the first zone.                            *)
FitsFirstZone(bitmap, nframes) ==
  {z \in DOMAIN pmzone :
     z = 1 /\ BitmapGroups(bitmap[z], pmzone[z].bit_cnt, nframes) # {}}

(* frame_alloc(nframes): the first group of clear bits of the first zone   *)
(* that has one; BITMAP_ERROR if there is none.                            *)
Fits(bitmap, nframes) ==
  {z \in DOMAIN pmzone :
     BitmapGroups(bitmap[z], pmzone[z].bit_cnt, nframes) # {}}
CanAlloc(bitmap, nframes) == Fits(bitmap, nframes) # {}

(* Faulty: the bits are not set.                                           *)
FrameAllocUnmarked(bitmap, nframes) ==
  LET z == Min(Fits(bitmap, nframes))
  IN  [pa |-> pmzone[z].base + BitmapScan(bitmap[z], pmzone[z].bit_cnt, nframes),
       bitmap |-> bitmap]

FrameAlloc(bitmap, nframes) ==
  LET z == Min(Fits(bitmap, nframes))
      idx == BitmapScan(bitmap[z], pmzone[z].bit_cnt, nframes)
  IN  [pa |-> pmzone[z].base + idx,
       bitmap |-> [bitmap EXCEPT ![z] = BitmapSetMultiple(@, idx, nframes, TRUE)]]

(* Faulty: the search ends with the first zone.                            *)
FrameFreeFirstZone(bitmap, pa, nframes) ==
  IF InZone(1, pa)
  THEN [bitmap EXCEPT ![1] =
          BitmapSetMultiple(@, pa - pmzone[1].base, nframes, FALSE)]
  ELSE bitmap

(* frame_free(paddr, nframes): nothing happens outside the zones.          *)
FrameFree(bitmap, pa, nframes) ==
  IF \E z \in DOMAIN pmzone : InZone(z, pa)
  THEN LET z == Min({y \in DOMAIN pmzone : InZone(y, pa)})
       IN  [bitmap EXCEPT ![z] =
              BitmapSetMultiple(@, pa - pmzone[z].base, nframes, FALSE)]
  ELSE bitmap

================================================================================
