------------------------------- MODULE Graphics -------------------------------
(***************************************************************************)
(* Threads that draw through src/userapp/graphics.c: the modes Main sets,  *)
(* the bank the library takes for the current one, and the calls of the    *)
(* video BIOS, whose routines run under the monitor of Vm86.               *)
(*                                                                         *)
(* All guests share the memory, and the one stack at 0:0x1000.  A guest    *)
(* whose IF is clear is not preempted; the rest of the library is.         *)
(***************************************************************************)
EXTENDS Vm86, Raster, FiniteSets

CONSTANTS
  Main, Drawers,  \* the thread that sets modes, those that draw
  Modes,          \* [id, what VBE says of a mode, pitch: bytes from line to line]
  Pixels, Colours,
  Bioses,         \* memories with the routines of a BIOS
  WINDOW, MODE,   \* ports of the card
  MaxDraws, MaxSessions  \* bounds: calls of setPixel, of init_graphic

VARIABLES
  dev,       \* g_graphic_dev, and the mode mib describes
  bankShift, currBank, oldmode,
  card,      \* [mode, window, vram]: the window's start in granules
  mem,       \* the first megabyte
  thr,       \* [pc, c, call, todo, sure]; sure: nobody has drawn meanwhile
  settled,   \* history: the card's window is that of currBank, if any is
  count      \* calls so far
lib == <<dev, bankShift, currBank, oldmode>>
vars == <<dev, bankShift, currBank, oldmode, card, mem, thr, settled, count>>

Threads == Drawers \cup {Main}
TEXT == 3
LINEAR == \h4000
WinFuncPtr == \h10000000
NoDev == [FrameBuffer |-> "none", XResolution |-> 0, YResolution |-> 0, BitsPerPixel |-> 0, BytesPerScanLine |-> 0,
          FrameBufferSize |-> 0, Linear |-> FALSE]
NoContext == [ip |-> 0, cs |-> 0, sp |-> \h1000, ss |-> 0, ds |-> 0, es |-> 0, fs |-> 0, gs |-> 0, eflags |-> {},
              eax |-> 0, ebx |-> 0, ecx |-> 0, edx |-> 0, esi |-> 0, edi |-> 0]
NoThread == [pc |-> "idle", c |-> NoContext, call |-> <<>>, todo |-> <<>>, sure |-> TRUE]
ModeOf(id) == CHOOSE md \in Modes : md.id = id % LINEAR

Init ==
  /\ dev = NoDev /\ bankShift = 0 /\ currBank = -1 /\ oldmode = 0
  /\ card = [mode |-> TEXT, window |-> 0, vram |-> [a \in {} |-> 0]]
  /\ mem \in Bioses
  /\ thr = [t \in Threads |-> NoThread]
  /\ settled = TRUE
  /\ count = [draws |-> 0, sessions |-> 0]

Guest(t) == [c |-> thr[t].c, m |-> mem, out |-> <<>>]
Busy == {t \in Threads : thr[t].pc # "idle"}
MayRun(t) == \A u \in Threads \ {t} : thr[u].pc = "guest" => EFLAGS_IF \in thr[u].c.eflags

\* A call of vm86call with these registers: all others are 0.
Calls(t, call, fintr, n, registers) ==
  LET g == Entered([Guest(t) EXCEPT !.c = registers @@ NoContext], fintr, n)
  IN  /\ mem' = g.m
      /\ thr' = [thr EXCEPT ![t].pc = "call", ![t].c = g.c, ![t].call = call]

--------------------------------------------------------------------------------
DevOf(md) ==
  LET pitch == IF md.Linear /\ md.MAJOR >= 3 THEN md.LinBytesPerScanLine ELSE md.BytesPerScanLine
  IN  [FrameBuffer |-> "mapped", XResolution |-> md.XResolution, YResolution |-> md.YResolution,
       BitsPerPixel |-> md.BitsPerPixel, BytesPerScanLine |-> pitch,
       FrameBufferSize |-> IF md.Linear THEN pitch * md.YResolution ELSE md.WinSize * 1024,
       Linear |-> md.Linear]

setVBEMode(id) == Calls(Main, [id |-> id], TRUE, \h10, [eax |-> \h4f02, ebx |-> id])

\* VBE may not be there or not know the mode: nothing happens.  Without
\* memory for the frame buffer the device stays described, the mode unset.
init_graphic(md) ==
  /\ Busy = {} /\ count.sessions < MaxSessions
  /\ count' = [count EXCEPT !.sessions = @ + 1]
  /\ bankShift' = IF md.Linear THEN bankShift ELSE CHOOSE s \in 0 .. 6 : 64 \div 2 ^ s = md.WinGranularity
  /\ \/ dev' = DevOf(md) /\ oldmode' = card.mode /\ setVBEMode(md.id + IF md.Linear THEN LINEAR ELSE 0)
     \/ dev' = [DevOf(md) EXCEPT !.FrameBuffer = "failed"] /\ UNCHANGED <<oldmode, mem, thr>>
  /\ UNCHANGED <<currBank, card, settled>>

\* The library keeps currBank, whatever bank the old mode begins with.
exit_graphic ==
  /\ Busy = {} /\ dev.FrameBuffer = "mapped"
  /\ setVBEMode(oldmode)
  /\ dev' = NoDev
  /\ UNCHANGED <<bankShift, currBank, oldmode, card, settled, count>>

DrawPixel(t, p, cr) ==
  /\ thr[Main].pc = "idle" /\ thr[t].pc = "idle" /\ MayRun(t) /\ count.draws < MaxDraws
  /\ dev.FrameBuffer = "mapped"
  /\ LET todo == setPixel(dev, p[1], p[2], cr)
     IN  /\ todo # <<>>
         /\ thr' = [u \in Threads |-> IF u = t THEN [thr[t] EXCEPT !.pc = "draw", !.call = [p |-> p, cr |-> cr], !.todo = todo,
                                                                  !.sure = Busy = {}]
                                      ELSE [thr[u] EXCEPT !.sure = FALSE]]
  /\ count' = [count EXCEPT !.draws = @ + 1]
  /\ UNCHANGED <<lib, card, mem, settled>>

Switched(t) == [thr[t] EXCEPT !.pc = "draw", !.todo[1].switch = FALSE]
switchBank(t) ==
  /\ thr[t].pc = "draw" /\ MayRun(t) /\ Head(thr[t].todo).switch
  /\ LET bank == Head(thr[t].todo).bank
     IN  IF bank = currBank THEN thr' = [thr EXCEPT ![t] = Switched(t)] /\ UNCHANGED mem
         ELSE Calls(t, thr[t].call, FALSE, WinFuncPtr, [ebx |-> 0, edx |-> bank * 2 ^ bankShift])
  /\ UNCHANGED <<lib, card, settled, count>>

\* Where an access of a thread finds the byte k of its data.
Physical(off) == IF dev.Linear THEN off ELSE card.window * (1024 * ModeOf(card.mode).WinGranularity) + off
Byte(vram, a) == IF a \in DOMAIN vram THEN vram[a] ELSE 0
Laid(old, access, k) ==
  IF access.field = 0 THEN access.bytes[k]
  ELSE old - ((old \div access.field) % 4) * access.field + access.bytes[k]

Sure(t) == thr[t].sure /\ (settled \/ dev.Linear)
Write(t) ==
  /\ thr[t].pc = "draw" /\ MayRun(t) /\ ~ Head(thr[t].todo).switch
  /\ LET access == Head(thr[t].todo)
         at == Physical(access.off)
         rest == Tail(thr[t].todo)
     IN  /\ card' = [card EXCEPT !.vram = [a \in at .. at + Len(access.bytes) - 1 |-> Laid(Byte(@, a), access, a - at + 1)] @@ @]
         /\ thr' = [thr EXCEPT ![t] = IF rest = <<>> THEN NoThread ELSE [@ EXCEPT !.todo = rest, !.sure = Sure(t)]]
  /\ UNCHANGED <<lib, mem, settled, count>>

--------------------------------------------------------------------------------
\* The system call vm86, once per round of the loop in vm86call.
Vm86(t) ==
  /\ thr[t].pc = "call" /\ MayRun(t)
  /\ thr' = [thr EXCEPT ![t].pc = "guest", ![t].c.eflags = Virtual(@)]
  /\ UNCHANGED <<lib, card, mem, settled, count>>

\* A new mode has an empty screen and the window at its start.
Received(c, out) ==
  CASE out.port = WINDOW -> [c EXCEPT !.window = out.v]
    [] out.port = MODE -> [mode |-> out.v, window |-> 0, vram |-> [a \in {} |-> 0]]
    [] OTHER -> c

\* One instruction of the guest: by the processor, or by the monitor.
GuestStep(t) ==
  /\ thr[t].pc = "guest" /\ MayRun(t)
  /\ Eaten(Guest(t)) \/ Decode(Guest(t)).op \in Native
  /\ LET g == IF Eaten(Guest(t)) THEN vm86_emulate(Guest(t)) ELSE Executed(Guest(t))
     IN  /\ mem' = g.m
         /\ thr' = [thr EXCEPT ![t].c = g.c]
         /\ card' = FoldLeft(Received, card, g.out)
         /\ settled' = IF \E i \in DOMAIN g.out : g.out[i].port = MODE THEN currBank \in {-1, 0} ELSE settled
  /\ UNCHANGED <<lib, count>>

\* An instruction the monitor does not know: back in vm86call.
Back(t) ==
  /\ thr[t].pc = "guest" /\ MayRun(t)
  /\ ~ Eaten(Guest(t)) /\ Decode(Guest(t)).op \notin Native
  /\ LET g == vm86_emulate(Guest(t))
     IN  thr' = [thr EXCEPT ![t].pc = IF Stops(g) THEN "back" ELSE "call", ![t].c = Resumed(g).c]
  /\ UNCHANGED <<lib, card, mem, settled, count>>

\* The callers look at the registers, not at the result of vm86call.
Return(t) ==
  /\ thr[t].pc = "back" /\ MayRun(t)
  /\ IF t = Main THEN thr' = [thr EXCEPT ![t] = NoThread] /\ UNCHANGED <<currBank, settled>>
     ELSE /\ currBank' = Head(thr[t].todo).bank
          /\ thr' = [thr EXCEPT ![t] = [Switched(t) EXCEPT !.c = NoContext]]
          /\ settled' = thr[t].sure
  /\ UNCHANGED <<dev, bankShift, oldmode, card, mem, count>>

Next ==
  \/ \E md \in Modes : init_graphic(md)
  \/ exit_graphic
  \/ \E t \in Drawers : switchBank(t) \/ Write(t) \/ \E p \in Pixels, cr \in Colours : DrawPixel(t, p, cr)
  \/ \E t \in Threads : Vm86(t) \/ GuestStep(t) \/ Back(t) \/ Return(t)
Spec == Init /\ [][Next]_vars

--------------------------------------------------------------------------------
\* No instruction of a guest changes the bits that keep it a guest, and a
\* call comes back with the stack as it was, whatever its routine does with
\* flags, ports and interrupts in between.
Protected == {12, 13, VM, 19, 20}
VmConfined ==
  [][\A t \in Threads : thr[t].pc = "guest" =>
       /\ thr'[t].c.eflags \cap Protected = {VM}
       /\ thr'[t].pc = "back" => thr'[t].c.sp = NoContext.sp /\ Result(Guest(t)) = 0]_vars

\* A card shows, at a point, the colour in the bytes of its mode there.
Shown(vram, p) ==
  LET md == ModeOf(card.mode)
      n == (md.BitsPerPixel + 7) \div 8
      v(i) == Byte(vram, p[2] * md.pitch + p[1] * n + i)
      word == v(0) + 256 * v(1)
  IN  CASE md.BitsPerPixel = 2 -> <<(Byte(vram, (p[2] % 2) * 8192 + (p[2] \div 2) * md.pitch + p[1] \div 4) \div 4 ^ (3 - (p[1] % 4))) % 4>>
        [] md.BitsPerPixel = 8 -> <<v(0)>>
        [] md.BitsPerPixel = 15 -> <<word \div 1024, (word \div 32) % 32, word % 32>>
        [] md.BitsPerPixel = 16 -> <<word \div 2048, (word \div 32) % 64, word % 32>>
        [] md.BitsPerPixel = 24 -> <<v(2), v(1), v(0)>>
        [] md.BitsPerPixel = 32 -> <<v(2), v(1), v(0), v(3)>>
Asked(cr) ==
  LET bits == ModeOf(card.mode).BitsPerPixel
  IN  CASE bits = 2 -> <<cr.r % 4>>
        [] bits = 8 -> <<cr.r>>
        [] bits \in {15, 16} -> <<cr.r % 32, cr.g % (IF bits = 15 THEN 32 ELSE 64), cr.b % 32>>
        [] bits = 24 -> <<cr.r, cr.g, cr.b>>
        [] bits = 32 -> <<cr.r, cr.g, cr.b, cr.a>>

\* A pixel drawn is seen where it was asked for, and no other changes, unless
\* other threads draw meanwhile or a mode was left with a bank other than the
\* first one in the window and no bank was switched since.
PixelInPlace ==
  [][\A t \in Drawers : thr[t].pc = "draw" /\ card' # card /\ thr'[t] # thr[t] /\ Sure(t) =>
       /\ thr'[t].pc = "idle" => Shown(card'.vram, thr[t].call.p) = Asked(thr[t].call.cr)
       /\ \A p \in Pixels \ {thr[t].call.p} : Shown(card'.vram, p) = Shown(card.vram, p)]_vars
================================================================================
