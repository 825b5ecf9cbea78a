--------------------------------- MODULE Vm86 ---------------------------------
(***************************************************************************)
(* The virtual 8086 monitor: src/kernel/vm86.c, and the loop around it     *)
(* that user programs run, src/userapp/vm86call.c.                         *)
(*                                                                         *)
(* A guest g has the registers g.c of its thread, the memory g.m that it   *)
(* shares with every other guest, and the transfers g.out its instruction  *)
(* sent to ports.  EFLAGS is the set of the numbers of its bits.  The      *)
(* memory holds the bytes written to it, and 0 elsewhere.                  *)
(***************************************************************************)
EXTENDS Integers, SequencesExt

CONSTANTS
  High,        \* bound: values of the high half of a register, 65536 in the code
  Input(_)     \* what a port reads as

ASSUME HighAssumption == High \in Nat \ {0}

H == 65536
Full == H * High
LADDR(seg, off) == 16 * seg + (off % H)

EFLAGS_IF == 9
EFLAGS_DF == 10
VM == 17

At(g, a) == IF a \in DOMAIN g.m THEN g.m[a] ELSE 0
Get(g, a, n) == LET from[i \in 0 .. n] == IF i = n THEN 0 ELSE At(g, a + i) + 256 * from[i + 1] IN from[0]
Put(g, a, n, v) == [g EXCEPT !.m = [i \in a .. a + n - 1 |-> (v \div 256 ^ (i - a)) % 256] @@ @]

Bits(v) == {i \in 0 .. 20 : (v \div 2 ^ i) % 2 = 1}
Number(flags) == FoldSet(LAMBDA i, sum : 2 ^ i + sum, 0, flags)
Merge(flags, kept, new) == (flags \cap kept) \cup (new \ kept)

Code(g, k) == At(g, LADDR(g.c.cs, g.c.ip + k))
Skip(g, k) == [g EXCEPT !.c.ip = (@ + k) % H]
Push(g, n, v) ==
  LET sp == (g.c.sp - n) % H
  IN  [Put(g, LADDR(g.c.ss, sp), n, v) EXCEPT !.c.sp = sp]
Stacked(g, k, n) == Get(g, LADDR(g.c.ss, g.c.sp + k), n)
Drop(g, k) == [g EXCEPT !.c.sp = (@ + k) % H]

--------------------------------------------------------------------------------
(***************************************************************************)
(* The instructions that trap in a guest, after their prefixes d.          *)
(***************************************************************************)
SegmentOf == (\h2e :> "cs") @@ (\h3e :> "ds") @@ (\h26 :> "es") @@ (\h36 :> "ss") @@ (\h65 :> "gs") @@ (\h64 :> "fs")
PrefixBytes == {\h66, \h67, \hf2, \hf3, \hf0} \cup DOMAIN SegmentOf

Decode(g) ==
  LET k == CHOOSE n \in 0 .. 15 : Code(g, n) \notin PrefixBytes /\ \A i \in 0 .. n - 1 : Code(g, i) \in PrefixBytes
      before == {Code(g, i) : i \in 0 .. k - 1}
      segments == {i \in 0 .. k - 1 : Code(g, i) \in DOMAIN SegmentOf}
  IN  [length |-> k, op |-> Code(g, k), data32 |-> \h66 \in before, addr32 |-> \h67 \in before,
       rep |-> before \cap {\hf2, \hf3} # {},
       seg |-> IF segments = {} THEN g.c.ds ELSE g.c[SegmentOf[Code(g, Max(segments))]]]

PushF(g, d) ==
  IF d.data32 THEN Push(g, 4, Number(g.c.eflags \cap ((0 .. 15) \cup (18 .. 20))))
              ELSE Push(g, 2, Number(g.c.eflags \cap (0 .. 15)))

\* IOPL, and all that a 16-bit image does not have.
Kept16 == {12, 13} \cup (16 .. 31)

\* Faulty: the image on the stack is taken as it is.
PopAll(g, d) ==
  LET n == IF d.data32 THEN 4 ELSE 2
  IN  Drop([g EXCEPT !.c.eflags = Bits(Stacked(g, 0, n))], n)

PopF(g, d) ==
  LET n == IF d.data32 THEN 4 ELSE 2
      kept == IF d.data32 THEN {12, 13, 16, VM, 19, 20} ELSE Kept16
  IN  Drop([g EXCEPT !.c.eflags = Merge(@, kept, Bits(Stacked(g, 0, n)))], n)
\* The guest's handler runs with the flags, IF among them, of the caller.
Interrupt(g) ==
  LET pushed == Push(Push(Push(g, 2, Number(g.c.eflags \cap (0 .. 15))), 2, g.c.cs), 2, (g.c.ip + 2) % H)
      vector == 4 * Code(g, 1)
  IN  [pushed EXCEPT !.c.ip = Get(pushed, vector, 2), !.c.cs = Get(pushed, vector + 2, 2)]

IRet(g, d) ==
  LET n == IF d.data32 THEN 4 ELSE 2
      kept == IF d.data32 THEN {12, 13, VM, 19, 20} ELSE Kept16
  IN  Drop([g EXCEPT !.c.ip = Stacked(g, 0, n) % H, !.c.cs = Stacked(g, n, n) % H,
                     !.c.eflags = Merge(@, kept, Bits(Stacked(g, 2 * n, n)))], 3 * n)

\* An odd operation code transfers (E)AX, a word or a double word.
Width(d) == IF d.op % 2 = 0 THEN 1 ELSE IF d.data32 THEN 4 ELSE 2
Immediate(d) == d.op \in \he4 .. \he7
Port(g, d) == IF Immediate(d) THEN Code(g, 1) ELSE g.c.edx % H
Step(d) == IF Immediate(d) THEN 2 ELSE 1
Low(v, n) == IF n = 4 THEN v ELSE v % 256 ^ n
SetLow(v, n, new) == IF n = 4 THEN new ELSE v - (v % 256 ^ n) + Low(new, n)
Send(g, port, n, v) == [g EXCEPT !.out = Append(@, [port |-> port, n |-> n, v |-> v])]

Out(g, d) == Skip(Send(g, Port(g, d), Width(d), Low(g.c.eax, Width(d))), Step(d))
In(g, d) == Skip([g EXCEPT !.c.eax = SetLow(@, Width(d), Input(Port(g, d)))], Step(d))

\* A string instruction: one transfer, or as many as (E)CX says.
Times(g, d) == IF ~ d.rep THEN 1 ELSE IF d.addr32 THEN g.c.ecx ELSE g.c.ecx % H
Moved(index, d, by) == IF d.addr32 THEN (index + by) % Full ELSE SetLow(index, 2, (index + by) % H)
Stride(g, d) == IF EFLAGS_DF \in g.c.eflags THEN - Width(d) ELSE Width(d)
Strung(g, d, Transfer(_, _), index) ==
  LET by == Stride(g, d)
      done == FoldLeft(LAMBDA h, i : Transfer(h, Moved(g.c[index], d, (i - 1) * by)), g, [i \in 1 .. Times(g, d) |-> i])
  IN  Skip([done EXCEPT !.c[index] = Moved(@, d, Times(g, d) * by),
                        !.c.ecx = IF d.rep THEN @ - Times(g, d) ELSE @], 1)
Ins(g, d) == Strung(g, d, LAMBDA h, at : Put(h, LADDR(g.c.es, at), Width(d), Input(g.c.edx % H)), "edi")
Outs(g, d) == Strung(g, d, LAMBDA h, at : Send(h, g.c.edx % H, Width(d), Get(h, LADDR(d.seg, at), Width(d))), "esi")

Sensitive == {\hfa, \hfb, \h9c, \h9d, \hcd, \hcf} \cup (\he4 .. \he7) \cup (\hec .. \hef) \cup (\h6c .. \h6f)
Eaten(g) == Decode(g).op \in Sensitive

vm86_emulate(g) ==
  LET d == Decode(g)
      h == Skip(g, d.length)
  IN  CASE d.op = \hfa -> Skip([h EXCEPT !.c.eflags = @ \ {EFLAGS_IF}], 1)
        [] d.op = \hfb -> Skip([h EXCEPT !.c.eflags = @ \cup {EFLAGS_IF}], 1)
        [] d.op = \h9c -> Skip(PushF(h, d), 1)
        [] d.op = \h9d -> Skip(PopF(h, d), 1)
        [] d.op = \hcd -> Interrupt(h)
        [] d.op = \hcf -> IRet(h, d)
        [] d.op \in {\he6, \he7, \hee, \hef} -> Out(h, d)
        [] d.op \in {\he4, \he5, \hec, \hed} -> In(h, d)
        [] d.op \in {\h6c, \h6d} -> Ins(h, d)
        [] d.op \in {\h6e, \h6f} -> Outs(h, d)
        [] OTHER -> h

--------------------------------------------------------------------------------
(***************************************************************************)
(* The processor executes the others itself; these are the ones the        *)
(* routines of the instances consist of.                                   *)
(***************************************************************************)
Registers == <<"eax", "ecx", "edx", "ebx", "esp", "ebp", "esi", "edi">>
Native == {\h0e, \h68, \hcb} \cup (\h90 .. \h93) \cup {\hb8, \hb9, \hba, \hbe, \hbf}
Executed(g) ==
  LET d == Decode(g)
      h == Skip(g, d.length)
      n == IF d.data32 THEN 4 ELSE 2
      imm == Get(h, LADDR(h.c.cs, h.c.ip + 1), n)
      r == Registers[(d.op % 8) + 1]
  IN  CASE d.op = \h0e -> Skip(Push(h, n, h.c.cs), 1)                                    \* PUSH CS
        [] d.op = \h68 -> Skip(Push(h, n, imm), 1 + n)                                   \* PUSH imm
        [] d.op = \hcb -> Drop([h EXCEPT !.c.ip = Stacked(h, 0, 2), !.c.cs = Stacked(h, 2, 2)], 4)  \* RETF
        [] d.op \in \h90 .. \h93 -> Skip([h EXCEPT !.c["eax"] = h.c[r], !.c[r] = h.c.eax], 1)       \* XCHG
        [] OTHER -> Skip([h EXCEPT !.c[r] = SetLow(@, n, imm)], 1 + n)                   \* MOV r, imm

--------------------------------------------------------------------------------
(***************************************************************************)
(* vm86_call() and vm86call(): the stack and the place a call starts with, *)
(* and what they do when the guest comes back.                             *)
(***************************************************************************)
ret_cs == \h50
ret_ip == \h34
HLT == \hf4

Entered(g, fintr, n) ==
  LET marked == Put(g, LADDR(ret_cs, ret_ip), 1, HLT)
      framed == Push(Push(IF fintr THEN Push(marked, 2, 0) ELSE marked, 2, ret_cs), 2, ret_ip)
      vector == 4 * (n % 256)
  IN  [framed EXCEPT !.c.ip = IF fintr THEN Get(framed, vector, 2) ELSE n % H,
                     !.c.cs = IF fintr THEN Get(framed, vector + 2, 2) ELSE n \div H]
Virtual(flags) == (flags \cap (0 .. 15)) \cup {VM}

Halted(g) == Code(g, 0) = HLT
Stops(g) == Halted(g) => LADDR(g.c.cs, g.c.ip) = LADDR(ret_cs, ret_ip)
Result(g) == IF Halted(g) THEN 0 ELSE -1
Resumed(g) == IF Halted(g) THEN Skip(g, 1) ELSE g
================================================================================
