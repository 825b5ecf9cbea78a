-------------------------------- MODULE Raster --------------------------------
(***************************************************************************)
(* setPixel() and line() of src/userapp/graphics.c, as functions of the    *)
(* device: the bytes a pixel is, one bank switch and access after the      *)
(* other, and the points of a line.                                        *)
(*                                                                         *)
(* A colour is a record of its bytes r, g, b and a.  An access is to the   *)
(* offset `off' of the frame buffer; one with a field other than 0 changes *)
(* only the two bits of that weight.  It asks for the bank first if        *)
(* `switch' says so.                                                       *)
(***************************************************************************)
EXTENDS Integers, SequencesExt

LOWORD(addr) == addr % 65536
HIWORD(addr) == addr \div 65536

Access(switch, bank, off, bytes) == [switch |-> switch, bank |-> bank, off |-> off, bytes |-> bytes, field |-> 0]
Small(v) == <<v % 256, v \div 256>>

\* Faulty: the bank stays what it was where the window ends.
Bytes24Same(dev, addr, cr) ==
  [i \in 1 .. 3 |-> Access(i = 1, HIWORD(addr), (LOWORD(addr) + i - 1) % dev.FrameBufferSize, <<<<cr.b, cr.g, cr.r>>[i]>>)]

\* Three bytes, the second and the third in the next window if this one ends.
Bytes24(dev, addr, cr) ==
  LET from[i \in 1 .. 3] ==
        IF i = 1 THEN Access(TRUE, HIWORD(addr), LOWORD(addr), <<cr.b>>)
        ELSE LET v == <<IF i = 2 THEN cr.g ELSE cr.r>>
                 p == from[i - 1].off + 1
             IN  IF p >= dev.FrameBufferSize THEN Access(TRUE, from[i - 1].bank + 1, 0, v)
                                             ELSE Access(FALSE, from[i - 1].bank, p, v)
  IN  from

\* The odd lines of a mode of two bits a pixel lie behind the even ones.
Interleaved(dev, x, y, cr) ==
  LET off == (IF y % 2 = 1 THEN \h2000 ELSE 0) + (y \div 2) * dev.BytesPerScanLine + (x * 2) \div 8
      weight == 4 ^ (3 - (x % 4))
  IN  <<[Access(FALSE, 0, off, <<(cr.r % 4) * weight>>) EXCEPT !.field = weight]>>

Pixel(bits, cr) ==
  CASE bits = 8 -> <<cr.r>>
    [] bits = 15 -> Small((cr.r % 32) * 1024 + (cr.g % 32) * 32 + (cr.b % 32))
    [] bits = 16 -> Small((cr.r % 32) * 2048 + (cr.g % 64) * 32 + (cr.b % 32))
    [] bits = 24 -> <<cr.b, cr.g, cr.r>>
    [] bits = 32 -> <<cr.b, cr.g, cr.r, cr.a>>

setPixel(dev, x, y, cr) ==
  LET bits == dev.BitsPerPixel
      bpp == IF bits = 15 THEN 16 ELSE bits
      addr == y * dev.BytesPerScanLine + (x * bpp) \div 8
  IN  CASE x \notin 0 .. dev.XResolution - 1 \/ y \notin 0 .. dev.YResolution - 1 \/ bits \notin {2, 8, 15, 16, 24, 32} -> <<>>
        [] bits = 2 -> Interleaved(dev, x, y, cr)
        [] dev.Linear -> <<Access(FALSE, 0, addr, Pixel(bits, cr))>>
        [] bits = 24 -> Bytes24(dev, addr, cr)
        [] OTHER -> <<Access(TRUE, HIWORD(addr), LOWORD(addr), Pixel(bits, cr))>>

--------------------------------------------------------------------------------
(***************************************************************************)
(* line(): along the axis of the larger difference, from the smaller to    *)
(* the larger coordinate u; v follows when the decision variable d says    *)
(* so.  The two branches of the code swap the roles of x and y.            *)
(***************************************************************************)
Abs(a) == IF a >= 0 THEN a ELSE - a
Decided(du, dv, v1, vincr) ==
  LET from[i \in 0 .. du] ==
        IF i = 0 THEN [v |-> v1, d |-> 2 * dv - du]
        ELSE LET at == from[i - 1]
             IN  IF at.d < 0 THEN [at EXCEPT !.d = @ + 2 * dv]
                             ELSE [v |-> at.v + vincr, d |-> at.d + 2 * (dv - du)]
  IN  from
Scan(u1, v1, u2, v2) ==
  LET from == Decided(u2 - u1, Abs(v2 - v1), v1, IF v2 > v1 THEN 1 ELSE -1)
  IN  {<<u1 + i, from[i].v>> : i \in 0 .. u2 - u1}

\* Faulty: without the swap, a line drawn to the left is not drawn as to the right.
ForwardOnly(u1, v1, u2, v2) ==
  IF u2 < u1 THEN {<<- q[1], q[2]>> : q \in Scan(- u1, v1, - u2, v2)} ELSE Scan(u1, v1, u2, v2)

Forward(u1, v1, u2, v2) == IF u2 < u1 THEN Scan(u2, v2, u1, v1) ELSE Scan(u1, v1, u2, v2)
line(x1, y1, x2, y2) ==
  IF Abs(y2 - y1) <= Abs(x2 - x1) THEN Forward(x1, y1, x2, y2)
                                  ELSE {<<q[2], q[1]>> : q \in Forward(y1, x1, y2, x2)}
================================================================================
