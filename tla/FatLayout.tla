------------------------------- MODULE FatLayout -------------------------------
(***************************************************************************)
(* What DOSFS computes about bytes (src/kernel/dosfs.c, dosfs.h): where a  *)
(* volume keeps its FAT, its root directory and its clusters, the three    *)
(* widths of FAT entries, and names in directory entries.  b is a copy of  *)
(* the FAT, from byte 0 on.                                                *)
(***************************************************************************)
EXTENDS Integers, Sequences, SequencesExt

SECTOR_SIZE == 512
FAT12 == 12
FAT16 == 16
FAT32 == 32
ERRMISC == "DFS_ERRMISC"
\* The smaller volumes are FAT12, the next ones FAT16.
TypeFor(clusters) == IF clusters < 4085 THEN FAT12 ELSE IF clusters < 65525 THEN FAT16 ELSE FAT32

Offset(fs, c) == CASE fs = FAT12 -> c + c \div 2 [] fs = FAT16 -> 2 * c [] fs = FAT32 -> 4 * c
\* The two bytes of the entry are in two sectors.
Straddles(fs, c) == fs = FAT12 /\ Offset(fs, c) % SECTOR_SIZE = SECTOR_SIZE - 1
GetEntry(fs, b, c) ==
  LET o == Offset(fs, c)
      word == b[o] + 256 * b[o + 1]
  IN  CASE fs = FAT12 -> IF c % 2 = 1 THEN word \div 16 ELSE word % 4096
        [] fs = FAT16 -> word
        [] fs = FAT32 -> word + 65536 * (b[o + 2] + 256 * (b[o + 3] % 16))

KeepNothing(byte, nibble) == nibble   \* Faulty: the high bits are not kept.
\* A byte with its lower half replaced.
KeepHigh(byte, nibble) == (byte \div 16) * 16 + nibble
\* The two bytes of an entry of FAT12, in place of others.  The second gets
\* the lowest four bits of the value instead of the highest, or, for an odd
\* cluster, zero.
First12(byte, c, v) == IF c % 2 = 1 THEN (byte % 16) + 16 * (v % 16) ELSE v % 256
Second12(byte, c, v) == IF c % 2 = 1 THEN 0 ELSE KeepHigh(byte, v % 16)
SetEntry(fs, b, c, v) ==
  LET o == Offset(fs, c)
  IN  CASE fs = FAT12 -> [b EXCEPT ![o] = First12(@, c, v), ![o + 1] = Second12(@, c, v)]
        [] fs = FAT16 -> [b EXCEPT ![o] = v % 256, ![o + 1] = (v \div 256) % 256]
        [] fs = FAT32 -> [b EXCEPT ![o] = v % 256, ![o + 1] = (v \div 256) % 256, ![o + 2] = (v \div 65536) % 256,
                                   ![o + 3] = KeepHigh(@, (v \div 16777216) % 16)]

\* The start of partition pnum; the signature of the MBR is not looked at.
GetPtnStart(mbr, pnum) == IF pnum > 3 THEN ERRMISC ELSE mbr.ptable[pnum + 1].start

RootSectorsDown(entries) == (entries * 32) \div SECTOR_SIZE     \* Faulty: rounded down.
RootSectors(entries) == (entries * 32 + SECTOR_SIZE - 1) \div SECTOR_SIZE
\* The number of clusters is the rest of the volume behind the data area, but
\* the data area is counted from the start of the disk, the volume is not.
Huge == 1073741824    \* 2 ^ 30, more clusters than any volume has: the difference wrapped
GetVolInfo(lbr, startsector) ==
  LET numsecs   == IF lbr.sectors_s # 0 THEN lbr.sectors_s ELSE lbr.sectors_l
      secperfat == IF lbr.secperfat # 0 THEN lbr.secperfat ELSE lbr.fatsize
      fat1      == startsector + lbr.reserved
      afterfats == fat1 + 2 * secperfat
      dataarea  == afterfats + RootSectors(lbr.rootentries)
      clusters  == IF numsecs < dataarea THEN Huge ELSE (numsecs - dataarea) \div lbr.secperclus
  IN  [start |-> startsector, fat1 |-> fat1, secperclus |-> lbr.secperclus, numsecs |-> numsecs,
       rootdir |-> IF lbr.rootentries = 0 THEN lbr.root ELSE afterfats, dataarea |-> dataarea,
       secperfat |-> secperfat, rootentries |-> lbr.rootentries, numclusters |-> clusters, filesystem |-> TypeFor(clusters)]

SEPARATOR == "/"
BLANK == " "
Capital(ch) == IF \E p \in {<<"a", "A">>, <<"b", "B">>, <<"c", "C">>} : p[1] = ch
               THEN CHOOSE u \in {"A", "B", "C"} : <<ch, u>> \in {<<"a", "A">>, <<"b", "B">>, <<"c", "C">>} ELSE ch
\* A name of at most 11 characters, blank but for the ones put in it: the loop
\* at the character i of src, at being the place of the next one.
Put(p, ch) == [dest |-> [p.dest EXCEPT ![p.at + 1] = Capital(ch)], at |-> p.at + 1, ended |-> FALSE]
Canonical(p, ch) ==
  CASE p.ended \/ p.at >= 11 \/ ch = SEPARATOR -> [p EXCEPT !.ended = TRUE]
    [] ch = "." /\ ~p.ended /\ p.at < 11 -> [p EXCEPT !.at = 8]
    [] OTHER -> Put(p, ch)
CanonicalToDir(src) ==
  LET after[i \in 0 .. Len(src)] ==
        IF i = 0 THEN [dest |-> [j \in 1 .. 11 |-> BLANK], at |-> 0, ended |-> FALSE] ELSE Canonical(after[i - 1], src[i])
  IN  after[Len(src)].dest
================================================================================
