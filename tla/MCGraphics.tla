------------------------------ MODULE MCGraphics ------------------------------
\* Instance: modes of each depth, banked and linear, one whose pixels straddle
\* the windows; BIOSes that switch the window in as many ways as the monitor
\* knows instructions; points on both sides of a window's end.
EXTENDS Graphics

MCInput(port) == 165

Vbe(id, bits, x, y, pitch, linear, granularity) ==
  [id |-> id, MAJOR |-> IF id % 2 = 1 THEN 3 ELSE 2, XResolution |-> x, YResolution |-> y, BitsPerPixel |-> bits, Linear |-> linear,
   BytesPerScanLine |-> IF linear /\ id % 2 = 1 THEN pitch \div 2 ELSE pitch, LinBytesPerScanLine |-> pitch, pitch |-> pitch,
   WinGranularity |-> granularity, WinSize |-> 64]
\* Line 27 of 2400 bytes a line has the end of the first window in a pixel.
MCModes ==
  {Vbe(1, 2, 320, 200, 80, FALSE, 64), Vbe(2, 8, 800, 600, 800, FALSE, 64), Vbe(4, 15, 800, 600, 1600, FALSE, 16),
   Vbe(5, 16, 800, 600, 1600, TRUE, 64), Vbe(6, 24, 800, 600, 2400, FALSE, 32), Vbe(7, 24, 800, 600, 2400, TRUE, 64),
   Vbe(8, 32, 640, 480, 2560, FALSE, 64)}
MCPixels == {<<0, 0>>, <<245, 27>>, <<246, 27>>, <<0, 82>>}
MCColours == {[r |-> 255, g |-> 38, b |-> 9, a |-> 1]}

Window == 224
ModePort == 225
At1000(code) == [i \in 65536 .. 65536 + Len(code) - 1 |-> code[i - 65535]]
\* INT 10h sets a mode, INT 42h the window, with interrupts on.
Common ==
  [i \in 66048 .. 66051 |-> <<\h93, \he7, ModePort, \hcf>>[i - 66047]]
    @@ [i \in 66304 .. 66310 |-> <<\hfb, \h92, \hba, Window, 0, \hee, \hcf>>[i - 66303]]
    @@ [i \in 64 .. 67 |-> <<0, 2, 0, \h10>>[i - 63]]
    @@ [i \in 264 .. 267 |-> <<0, 3, 0, \h10>>[i - 263]]
Routine(code) == At1000(code) @@ Common
MCBioses ==
  {Routine(<<\h9c, \hfa, \h92, \he6, Window, \h9d, \hcb>>),
   Routine(<<\hcd, \h42, \hf4, \hcb>>),
   \* 66 PUSHF, PUSH CS, PUSH EIP, IRET to the rest
   Routine(<<\hfb, \h66, \h9c, \hfa, \h66, \h0e, \h66, \h68, 15, 0, 0, 0, \h66, \hcf, 0, \h92, \h66, \he7, Window, \hcb>>),
   \* strings: two words out, backwards flags on the stack, two bytes in
   Routine(<<\hbe, 0, 6, \hbf, 0, 6, \hb9, 2, 0, \h92, \h93, \hba, 7, 0, \h2e, \hf3, \h6f, \h66, \h67, \h6d, \hb9, 2, 0, \hf2, \h6c,
             \he4, 9, \h68, 2, \h34, \h9d, \he6, 8, \h66, \h68, 2, 50, 3, 0, \h66, \h9d, \h93, \he6, Window, \hcb>>)}
================================================================================
