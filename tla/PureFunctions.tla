----------------------------- MODULE PureFunctions -----------------------------
(***************************************************************************)
(* What a single thread of control computes, on every input of an          *)
(* instance: vsnprintf, iteration by iteration of dopr(), a write of a FAT *)
(* entry to both copies, the conversion of two names, the way              *)
(* start_user_task() (src/kernel/startup.c) finds the volume it boots      *)
(* from, a line drawn from one end and from the other, the time read from  *)
(* a clock that goes on meanwhile, or any sequence of calls of the user    *)
(* heap.                                                                   *)
(***************************************************************************)
EXTENDS Printf, FatLayout

CONSTANTS
  Printings,   \* calls of vsnprintf: [fn, before, d, star, arg, maxlen]
  Entries,     \* writes of a FAT entry: [fn, fs, b, c, v]
  Names,       \* names looked up
  Disks,       \* disks started from: [fn, mbr, lbr]
  Lines,       \* lines drawn: [fn, x1, y1, x2, y2]
  Times,       \* times the machine starts at: [fn, clock], in decimal
  MaxTicks,    \* the seconds that may pass until the time is read
  Header,      \* sizeof(struct chunk), in units
  Pool,        \* the user heap, in units
  Requests     \* the sizes asked of it

R == INSTANCE Raster
C == INSTANCE Clock
U == INSTANCE UserHeap

\* What the functions are called with.
LastByte(fs, c) == Offset(fs, c) + (IF fs = FAT32 THEN 3 ELSE 1)
Sectors(lbr) == IF lbr.sectors_s # 0 THEN lbr.sectors_s ELSE lbr.sectors_l
ASSUME CallsAssumption ==
  /\ \A p \in Printings :
       /\ p.fn = "vsnprintf" /\ p.maxlen \in Nat \ {0} /\ p.star \in BOOLEAN
       /\ p.before \in Seq(STRING) /\ \A i \in DOMAIN p.before : p.before[i] # NUL
       /\ p.d.flags \subseteq {"-", "0", "+", " "} /\ p.d.min \in Nat /\ p.d.max \in Nat \cup {-1}
       /\ p.d.conv \in {"d", "u", "x", "s"}
       /\ IF p.d.conv = "s" THEN p.arg \in Seq(STRING) /\ p.arg # Null ELSE p.arg \in Int
  /\ ULONG \in Nat \ {0}
  /\ \A e \in Entries :
       /\ e.fn = "SetFAT" /\ e.fs \in {FAT12, FAT16, FAT32} /\ e.c \in Nat /\ e.v \in Nat
       /\ \E last \in DOMAIN e.b : last \in Nat /\ DOMAIN e.b = 0 .. last
       /\ e.b \in [DOMAIN e.b -> 0 .. 255] /\ LastByte(e.fs, e.c) \in DOMAIN e.b
  /\ \A name \in Names : name \in Seq(STRING) /\ \A i \in DOMAIN name : name[i] # BLANK
  /\ \A d \in Disks :
       /\ d.fn = "start_user_task" /\ d.mbr.ptable[1].start \in Nat
       /\ d.lbr.secperclus \in Nat \ {0}
       /\ {d.lbr.reserved, d.lbr.sectors_s, d.lbr.sectors_l, d.lbr.secperfat, d.lbr.fatsize, d.lbr.rootentries} \subseteq Nat
       /\ Sectors(d.lbr) \div d.lbr.secperclus < Huge
  /\ Lines \subseteq [fn : {"line"}, x1 : Int, y1 : Int, x2 : Int, y2 : Int]
  /\ Times \subseteq [fn : {"mktime"}, clock : C!Calendar]
ASSUME HeapAssumption == Header \in Nat \ {0} /\ Pool \in Nat \ {0} /\ Requests \subseteq Nat \ {0}
ASSUME TicksAssumption == MaxTicks \in 0 .. 59

VARIABLES
  call,        \* the call and its arguments
  m            \* what it works on; its result in the end
vars == <<call, m>>

Running(h, held) == [state |-> "RUN", h |-> h, held |-> held]
Naming(name, other) == [fn |-> "CanonicalToDir", name |-> name, other |-> other]

(***************************************************************************)
(* A printing has a text, one directive d and its argument; a star         *)
(* passes the width as an argument.                                        *)
(***************************************************************************)
Order == <<" ", "+", "0", "-">>
Number(n) == Digits(n, 10, Numerals)
Ending(p) == <<p.d.conv>> \o <<"!">>
Precision(p) == IF p.d.max < 0 THEN Ending(p) ELSE <<".">> \o (Number(p.d.max) \o Ending(p))
Width(p) == IF p.star THEN <<"*">> \o Precision(p) ELSE IF p.d.min = 0 THEN Precision(p) ELSE Number(p.d.min) \o Precision(p)
\* The flags, the last i of them; the text in front, its last i characters.
Flagged(p) ==
  LET last[i \in 0 .. 4] ==
        IF i = 0 THEN Width(p) ELSE IF Order[i] \in p.d.flags THEN <<Order[i]>> \o last[i - 1] ELSE last[i - 1]
  IN  last
Escaped(p) ==
  LET char(i) == p.before[Len(p.before) - i + 1]
      last[i \in 0 .. Len(p.before)] ==
        IF i = 0 THEN <<"%">> \o Flagged(p)[4]
        ELSE IF char(i) = "%" THEN <<"%">> \o (<<"%">> \o last[i - 1]) ELSE <<char(i)>> \o last[i - 1]
  IN  last
Spelled(p) == Escaped(p)[Len(p.before)]
Arguments(p) == (IF p.star THEN <<p.d.min>> ELSE <<>>) \o <<p.arg>>

Init ==
  \/ call \in Printings /\ m = vsnprintf(call.maxlen, Spelled(call), Arguments(call))
  \/ call \in Entries /\ m = [state |-> "READ", one |-> call.b, two |-> call.b]
  \/ \E name, other \in Names : call = Naming(name, other) /\ m = [state |-> "READ"]
  \/ call \in Disks /\ m = [state |-> "MBR"]
  \/ call \in Lines /\ m = [state |-> "DRAW"]
  \/ call \in Times /\ m = [state |-> "SEC", clock |-> call.clock, tm |-> << >>, ticks |-> 0]
  \/ call = [fn |-> "myalloc"] /\ m = Running(U!tlsf_create_with_pool, << >>)

\* A map with one key more, or another value for one.
Entered(map, key, value) == [k \in DOMAIN map \cup {key} |-> IF k = key THEN value ELSE map[k]]

Dopr == call.fn = "vsnprintf" /\ m.state # "DONE" /\ m' = dopr(m)

\* Both copies get each sector written; an entry that straddles two takes two
\* turns.
SetFAT ==
  /\ call.fn = "SetFAT" /\ m.state = "READ" /\ ~Straddles(call.fs, call.c)
  /\ LET b == SetEntry(call.fs, m.one, call.c, call.v) IN m' = [state |-> "DONE", one |-> b, two |-> b]
SetFirst ==
  /\ call.fn = "SetFAT" /\ m.state = "READ" /\ Straddles(call.fs, call.c)
  /\ LET b == [m.one EXCEPT ![Offset(call.fs, call.c)] = First12(@, call.c, call.v)]
     IN  m' = [state |-> "NEXT", one |-> b, two |-> b]
SetSecond ==
  /\ call.fn = "SetFAT" /\ m.state = "NEXT"
  /\ LET b == [m.one EXCEPT ![Offset(call.fs, call.c) + 1] = Second12(@, call.c, call.v)]
     IN  m' = [state |-> "DONE", one |-> b, two |-> b]

ToDir ==
  /\ call.fn = "CanonicalToDir" /\ m.state = "READ"
  /\ m' = [state |-> "DONE", name |-> CanonicalToDir(call.name), other |-> CanonicalToDir(call.other)]

\* The first partition, wherever it starts; any start is taken for good.
FindVolume ==
  /\ call.fn = "start_user_task" /\ m.state = "MBR"
  /\ m' = [state |-> "LBR", pstart |-> GetPtnStart(call.mbr, 0)]
Mount ==
  /\ call.fn = "start_user_task" /\ m.state = "LBR"
  /\ m' = [state |-> "DONE", vol |-> GetVolInfo(call.lbr, m.pstart)]

Line ==
  /\ call.fn = "line" /\ m.state = "DRAW"
  /\ m' = [state |-> "DONE", points |-> R!line(call.x1, call.y1, call.x2, call.y2),
           back |-> R!line(call.x2, call.y2, call.x1, call.y1)]

(***************************************************************************)
(* m.state is the register read next, or AGAIN for the seconds once more.  *)
(* MaxTicks is below a minute, which no pass takes.  The chip never shows  *)
(* registers half way through a second: the code does not ask whether an   *)
(* update is in progress.                                                  *)
(***************************************************************************)
States == [sec |-> "SEC", min |-> "MIN", hour |-> "HOUR", mday |-> "MDAY", mon |-> "MON", year |-> "YEAR"]
Reads(f, then) ==
  /\ m.state = States[f]
  /\ m' = [m EXCEPT !.tm = Entered(@, f, C!ToBcd(m.clock[f])), !.state = then]
CmosRead ==
  /\ call.fn = "mktime"
  /\ \E i \in DOMAIN C!Fields : Reads(C!Fields[i], IF i = Len(C!Fields) THEN "AGAIN" ELSE States[C!Fields[i + 1]])
\* Faulty: the seconds are not compared.
SettledAlways == TRUE
Settled == m.tm.sec = C!ToBcd(m.clock.sec)
CmosReread ==
  /\ call.fn = "mktime" /\ m.state = "AGAIN"
  /\ IF Settled THEN m' = [state |-> "DONE", clock |-> m.clock, time |-> C!StartupTime(m.tm)]
                ELSE m' = [m EXCEPT !.state = "SEC"]
Tick ==
  /\ call.fn = "mktime" /\ m.state # "DONE" /\ m.ticks < MaxTicks
  /\ m' = [m EXCEPT !.clock = C!TickOf(@), !.ticks = @ + 1]

(***************************************************************************)
(* The program keeps to the blocks it holds.  It fills one from malloc or  *)
(* realloc as far as it is new and mapped, with the block's address.       *)
(* m.held has the units of each block it relies on.  A call that touches   *)
(* memory outside the heap's mapping ends the run: the memory may be       *)
(* another mapping's, or nobody's.                                         *)
(***************************************************************************)
HeapRuns == call.fn = "myalloc" /\ m.state = "RUN"
Filled(h, ptr, cells) == [h EXCEPT !.mem = U!Stored(@, ptr, cells)]
Fresh(ptr, n) == [i \in 1 .. n |-> ptr]
Out == [m EXCEPT !.state = "OUT"]
Dropped(held, ptr) == [q \in DOMAIN held \ {ptr} |-> held[q]]

Malloc(n) ==
  LET r == U!malloc(m.h, n)
  IN  /\ HeapRuns /\ r.ptr # U!NULL
      /\ m' = IF U!Outside(r.h, {}, n) THEN Out
              ELSE Running(Filled(r.h, r.ptr, Fresh(r.ptr, n)), Entered(m.held, r.ptr, Fresh(r.ptr, n)))
Calloc(n) ==
  LET r == U!calloc(m.h, n, 1)
  IN  /\ HeapRuns /\ r.ptr # U!NULL
      /\ m' = IF U!Outside(r.h, {r.ptr}, n) THEN Out
              ELSE Running(r.h, Entered(m.held, r.ptr, [i \in 1 .. n |-> 0]))
Realloc(ptr, n) ==
  LET r == U!realloc(m.h, ptr, n)
      old == m.held[ptr]
      kept == IF Len(old) > n THEN n ELSE Len(old)
      cells == [i \in 1 .. n |-> IF i <= kept THEN old[i] ELSE r.ptr]
  IN  /\ HeapRuns
      /\ m' = IF r.dead THEN Out
              ELSE IF n = 0 THEN Running(r.h, Dropped(m.held, ptr))
              ELSE IF U!Outside(U!malloc(m.h, n).h, {ptr, r.ptr}, n) THEN Out
              ELSE Running(Filled(r.h, r.ptr + kept, SubSeq(cells, kept + 1, n)), Entered(Dropped(m.held, ptr), r.ptr, cells))
Free(ptr) ==
  /\ HeapRuns
  /\ m' = Running(U!free(m.h, ptr), Dropped(m.held, ptr))

Heap ==
  \/ \E n \in Requests : Malloc(n) \/ Calloc(n)
  \/ HeapRuns /\ \E ptr \in DOMAIN m.held : Free(ptr) \/ \E n \in Requests \cup {0} : Realloc(ptr, n)

Next ==
  /\ Dopr \/ SetFAT \/ SetFirst \/ SetSecond \/ ToDir \/ FindVolume \/ Mount \/ Line \/ CmosRead \/ CmosReread \/ Tick \/ Heap
  /\ UNCHANGED call
Spec == Init /\ [][Next]_vars

--------------------------------------------------------------------------------
Returned(fn) == call.fn = fn /\ m.state = "DONE"

\* Where the code and the C standard agree: no '-' with '0', no '0' with a
\* precision, no precision 0 for the value 0, no string with both widths.
Agreed(p) ==
  /\ "0" \in p.d.flags => "-" \notin p.d.flags /\ p.d.max < 0 /\ p.d.conv # "s"
  /\ p.d.conv = "s" => p.d.min = 0 \/ p.d.max < 0
  /\ p.d.conv # "s" /\ p.arg = 0 => p.d.max # 0

\* vsnprintf prints what C says, cut off where the buffer ends: whatever
\* the widths, it writes within the buffer and leaves a terminated string.
PrintsAsC ==
  call.fn = "vsnprintf" =>
    /\ Len(m.out) <= call.maxlen
    /\ m.state = "DONE" => /\ Last(m.out) = NUL
                           /\ Agreed(call) => Front(m.out) = Prefix(call.before \o InC(call.d, call.arg) \o <<"!">>, call.maxlen - 1)

\* Both copies of the table are the same after a write, no entry of it changes
\* but the one written, that of FAT16 or FAT32 reads back as written, with the
\* reserved bits of the latter kept, and that of FAT12 reads back as what is
\* left of its value: the low eight bits and the low four again, or, for an odd
\* cluster, the low four bits only (dosfs.c:392).
Bits(fs) == CASE fs = FAT16 -> 65536 [] fs = FAT32 -> 268435456
Others(fs) == {c \in DOMAIN m.one : LastByte(fs, c) \in DOMAIN m.one}
Left12(c, v) == IF c % 2 = 1 THEN v % 16 ELSE (v % 256) + 256 * (v % 16)
ReadsAs(fs, c, v) == IF fs = FAT12 THEN Left12(c, v) ELSE v % Bits(fs)
EntriesExact ==
  Returned("SetFAT") =>
    /\ m.one = m.two
    /\ \A c \in Others(call.fs) \ {call.c} : GetEntry(call.fs, m.one, c) = GetEntry(call.fs, call.b, c)
    /\ GetEntry(call.fs, m.one, call.c) = ReadsAs(call.fs, call.c, call.v)
    /\ call.fs = FAT32 => m.one[4 * call.c + 3] \div 16 = call.b[4 * call.c + 3] \div 16

\* Two names of at most eight and three characters are one in a directory
\* just when they differ in case only.
Element(name) ==
  LET ends == {i \in DOMAIN name : name[i] = SEPARATOR}
  IN  IF ends = {} THEN name ELSE SubSeq(name, 1, Min(ends) - 1)
Upper(name) == [i \in DOMAIN Element(name) |-> Capital(name[i])]
Short(name) ==
  LET e == Element(name)
      dots == {i \in DOMAIN e : e[i] = "."}
  IN  IF dots = {} THEN Len(e) <= 8
      ELSE \E i \in dots : dots = {i} /\ i - 1 <= 8 /\ Len(e) - i \in 1 .. 3
NamesApart ==
  Returned("CanonicalToDir") /\ Short(call.name) /\ Short(call.other) =>
    (m.name = m.other <=> Upper(call.name) = Upper(call.other))

\* The parts of a volume lie one behind the other and inside the partition,
\* the root directory has room for its entries, and the type is the one the
\* number of clusters gives, unless that exceeds a limit by less than the
\* clusters that would fit in front of the volume.
VolumeLaidOut ==
  Returned("start_user_task") =>
    LET v == m.vol
        lbr == call.lbr
        \* every FAT has an entry per cluster: what the formatter counted
        root == (lbr.rootentries * 32 + 511) \div 512
        true == (v.numsecs - lbr.reserved - 2 * v.secperfat - root) \div v.secperclus
    IN  /\ v.fat1 = v.start + lbr.reserved
        /\ lbr.rootentries # 0 => v.rootdir = v.fat1 + 2 * v.secperfat /\ (v.dataarea - v.rootdir) * 512 >= lbr.rootentries * 32
        /\ v.numclusters # Huge =>
             /\ v.dataarea + v.numclusters * v.secperclus <= v.start + v.numsecs
             /\ v.filesystem = TypeFor(true) \/ \E limit \in {4085, 65525} : true - limit \in 0 .. v.start \div v.secperclus
        /\ v.numclusters = Huge => v.numsecs < v.dataarea

\* DOSFS looks for what it stores where it put it: the sectors of a volume,
\* the entries of a FAT, those of FAT12 with what is left of their values, and
\* the names of a directory.
StoredIsFound == EntriesExact /\ NamesApart /\ VolumeLaidOut

\* A line is the same drawn from either end (graphics.c:495), has one point
\* on each column or row between its ends, and none is further than half a
\* pixel from where the straight line crosses it.
LineExact ==
  Returned("line") =>
    LET dx == call.x2 - call.x1
        dy == call.y2 - call.y1
        long == IF R!Abs(dx) >= R!Abs(dy) THEN R!Abs(dx) ELSE R!Abs(dy)
    IN  /\ m.points = m.back
        /\ {<<call.x1, call.y1>>, <<call.x2, call.y2>>} \subseteq m.points
        /\ Cardinality(m.points) = long + 1
        /\ \A p \in m.points : 2 * R!Abs((p[1] - call.x1) * dy - (p[2] - call.y1) * dx) <= long

\* The time the machine takes for its start is the one the clock showed when
\* the seconds were read for the last time, whatever went over to the next
\* minute, month or year while the registers were read.
ClockExact == Returned("mktime") => m.time = C!Epoch(m.clock)

\* As long as no call touches memory outside the heap, the chunks lie one
\* behind the other to a header behind the heap's end, those in use are the
\* ones the program holds, a block is as large as asked for and holds what was
\* stored there as far as it lies in the heap, moved or not, and an empty heap
\* is one chunk again, which test_allocator (myalloc.c:280) demands.
UserHeapSound ==
  call.fn = "myalloc" =>
    LET chunks == m.h.chunks
        InUse == {i \in DOMAIN chunks : chunks[i].used}
    IN  /\ chunks[1].at = 0
        /\ \A i \in DOMAIN chunks :
             LET end == U!Pointer(chunks[i]) + chunks[i].size
             IN  IF i = Len(chunks) THEN end = Pool + Header ELSE chunks[i + 1].at = end
        /\ {U!Pointer(chunks[i]) : i \in InUse} = DOMAIN m.held
        /\ \A i \in InUse : chunks[i].size >= Len(m.held[U!Pointer(chunks[i])])
        /\ \A ptr \in DOMAIN m.held : \A i \in DOMAIN m.held[ptr] : ptr + i - 1 < Pool => m.h.mem[ptr + i - 1] = m.held[ptr][i]
        /\ DOMAIN m.held = {} => chunks = <<[at |-> 0, used |-> FALSE, size |-> Pool]>>

================================================================================
