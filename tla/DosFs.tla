------------------------------- MODULE DosFs -------------------------------
(***************************************************************************)
(* DOSFS (src/kernel/dosfs.c) on one mounted FAT16 volume: directories as  *)
(* sectors of entries, files as chains of clusters, each call as the       *)
(* sequence of sector writes the code makes.  A call runs to its end, or   *)
(* the machine stops after its k-th write ("crash"), or the k-th write     *)
(* fails (DFS_WriteSector returns -1 in the floppy build, "fault") and the *)
(* call goes on the way the code does, which ignores most of the results.  *)
(* FAT entries are atomic here; module FatLayout has their bytes.          *)
(* Nothing checks a cluster number: one outside the volume's clusters is   *)
(* looked up, and written, wherever its FAT entry or its sector would be.  *)
(***************************************************************************)
EXTENDS Integers, Sequences, FiniteSets, SequencesExt

CONSTANTS
  SECTOR_SIZE,   \* units in a sector; also the entries of a directory sector
  Spc,           \* sectors per cluster
  RootSectors,   \* sectors of the root directory
  NumClusters,   \* volinfo->numclusters: the clusters are 2 .. NumClusters + 1
  FarFat,        \* fat1 + 255, where the FAT entries of 0xfff7 and 0xfff8 would be
  TopFat,        \* fat1 + 0xfffff, where the entry of 0x0ffffff7 would be
  Beyond         \* what a sector outside the directories and clusters holds

RootDir  == 3                        \* the MBR-relative layout: boot, FAT, FAT
DataArea == RootDir + RootSectors
Clusters == 2 .. NumClusters + 1
Entries  == 0 .. NumClusters + 1     \* the FAT's: 0 and 1 belong to no cluster
Sectors  == RootDir .. DataArea + NumClusters * Spc - 1
CL       == SECTOR_SIZE * Spc        \* a cluster's units
BAD  == 1001                         \* 0xfff7
EOC  == 1002                         \* 0xfff8, the end of a chain
NOFREE == 1003                       \* 0x0ffffff7, also GetFreeFAT's failure

\* A sector is a tuple of cells: blank, a unit of data, or a directory entry.
Blank == <<>>
Unit(v) == <<v>>
Entry(name, isdir, first, size) == <<name, isdir, first, size>>
Deleted == Entry("E5", FALSE, 0, 0)
BlankSector == [i \in 1 .. SECTOR_SIZE |-> Blank]
NoFile == [open |-> FALSE]

(***************************************************************************)
(* One call works on s: the disk, the plan of what befalls its writes, and *)
(* what it takes for a FAT entry where its cache variable is uninitialised *)
(* and happens to name the FAT's sector while something else is in scratch *)
(* (junk; the value it leads to, whatever the caller's buffer holds).      *)
(***************************************************************************)
NoJunk == -1
Junk   == Clusters \cup {0, BAD, EOC}
Start(disk, mode, k, junk) ==
  [n |-> 0, mode |-> mode, k |-> k, ok |-> TRUE, stray |-> FALSE, stale |-> FALSE, junk |-> junk] @@ disk
DiskOf(s) == [fat |-> s.fat, mirror |-> s.mirror, sec |-> s.sec]

Lands(s) == CASE s.mode = "crash" -> s.n < s.k [] s.mode = "fault" -> s.n + 1 # s.k [] OTHER -> TRUE
Counted(s) == [s EXCEPT !.n = @ + 1, !.ok = s.mode # "fault" \/ Lands(s)]

Sector(s, x) == IF x \in Sectors THEN s.sec[x] ELSE Beyond
WriteSector(s, x, cells) ==
  IF x \notin Sectors THEN [Counted(s) EXCEPT !.stray = TRUE]
  ELSE IF Lands(s) THEN [Counted(s) EXCEPT !.sec[x] = cells] ELSE Counted(s)
\* A write through cluster number c.
Through(s, c) == [s EXCEPT !.stray = @ \/ c \notin Clusters]

\* The sector that holds a FAT entry outside Entries: the rest of the FAT's own
\* sector, or one far behind it.  A data unit there is a number like any other.
FarSector(c) == CASE c = NOFREE -> TopFat [] c \in {BAD, EOC} -> FarFat [] OTHER -> 1
FarCell(c) == (c % SECTOR_SIZE) + 1
Number(cell) == CASE cell = Blank -> 0 [] Len(cell) = 1 -> cell[1] [] OTHER -> BAD
GetFAT(s, c) == IF c \in Entries THEN s.fat[c] ELSE Number(Sector(s, FarSector(c))[FarCell(c)])

\* The sector goes to the first copy, and the same sector to the second only
\* when that write went well.
SetBoth(s, c, v) ==
  LET one == IF Lands(s) THEN [Counted(s) EXCEPT !.fat[c] = v] ELSE Counted(s)
  IN  IF ~one.ok THEN one
      ELSE IF Lands(one) THEN [Counted(one) EXCEPT !.mirror = one.fat] ELSE Counted(one)
SetFar(s, x, cells) ==
  LET one == WriteSector(s, x, cells) IN IF one.ok THEN WriteSector(one, x + 1, cells) ELSE one
SetFAT(s, c, v) ==
  IF c \in Entries THEN SetBoth(Through(s, c), c, v)
  ELSE SetFar(Through(s, c), FarSector(c), [Sector(s, FarSector(c)) EXCEPT ![FarCell(c)] = Unit(v)])

\* The search stops two clusters short of the last one.
GetFreeFAT(s) ==
  LET free == {c \in 2 .. NumClusters - 1 : GetFAT(s, c) = 0}
  IN  IF free = {} THEN NOFREE ELSE CHOOSE c \in free : \A d \in free : c <= d

SectorOf(c) == DataArea + (c - 2) * Spc
DirSector(di) == IF di.cl = 0 THEN RootDir + di.sec ELSE SectorOf(di.cl) + di.sec

(***************************************************************************)
(* Directories.  [cl, sec, ent, blank] of di is a DIRINFO, cl = 0 the root. *)
(* junk, stale and out are ours: the entry an uninitialised cache would    *)
(* make of scratch, whether it did, and whether di was off the volume.     *)
(***************************************************************************)
RootInfo == [cl |-> 0, sec |-> 0, ent |-> 0, blank |-> FALSE, junk |-> NoJunk, stale |-> FALSE, out |-> FALSE]
Marked(s, di) == [s EXCEPT !.stale = @ \/ di.stale, !.stray = @ \/ di.out]

\* DFS_GetNext hands DFS_GetFAT a cache variable it has not initialised.
Follow(s, di) ==
  CASE di.cl >= BAD -> di
    [] di.cl < BAD /\ di.junk # NoJunk -> [di EXCEPT !.cl = di.junk, !.junk = NoJunk, !.stale = TRUE]
    [] OTHER -> [di EXCEPT !.cl = GetFAT(s, @)]
\* The next sector of the directory, or of its next cluster, once one is read.
Turned(s, di) ==
  IF di.ent < SECTOR_SIZE THEN di
  ELSE IF di.cl = 0 \/ di.sec + 1 < Spc THEN [di EXCEPT !.ent = 0, !.sec = @ + 1]
  ELSE [Follow(s, di) EXCEPT !.ent = 0, !.sec = 0]
AtEnd(di) ==
  /\ di.ent >= SECTOR_SIZE
  /\ IF di.cl = 0 THEN di.sec + 1 >= RootSectors ELSE di.sec + 1 >= Spc /\ di.cl >= BAD
Visited(di, cell) ==
  LET next == [di EXCEPT !.ent = @ + 1]
  IN  IF cell # Blank THEN [ret |-> "OK", di |-> next, de |-> IF cell = Deleted THEN Blank ELSE cell]
      ELSE IF di.blank THEN [ret |-> "OK", di |-> next, de |-> Blank]
      ELSE [ret |-> "EOF", di |-> di, de |-> Blank]
Visit(s, di) ==
  Visited([di EXCEPT !.out = @ \/ DirSector(di) \notin Sectors], Sector(s, DirSector(di))[di.ent + 1])
GetNext(s, di) ==
  IF AtEnd(di)
  THEN [ret |-> IF di.cl # 0 /\ di.blank THEN "ALLOCNEW" ELSE "EOF", di |-> Turned(s, di), de |-> Blank]
  ELSE Visit(s, Turned(s, di))

\* GetNext until the entry called name, or until it returns something else.
RECURSIVE Search(_, _, _)
Search(s, di, name) ==
  LET g == GetNext(s, di)
  IN  IF g.ret # "OK" \/ (Len(g.de) = 4 /\ g.de[1] = name) THEN g ELSE Search(s, g.di, name)

\* A component that is not found is skipped; only a path that ends in the
\* root is refused.
RECURSIVE Descend(_, _, _)
Descend(s, di, path) ==
  IF path = <<>> THEN [ret |-> IF di.cl = 0 THEN "NOTFOUND" ELSE "OK", di |-> di]
  ELSE LET g == Search(s, di, Head(path))
       IN  IF g.ret # "OK" THEN Descend(s, g.di, Tail(path))
           ELSE IF g.de[2] THEN Descend(s, [g.di EXCEPT !.cl = g.de[3], !.sec = 0, !.ent = 0], Tail(path))
           ELSE [ret |-> "NOTFOUND", di |-> g.di]
OpenRoot(s) == [RootInfo EXCEPT !.junk = s.junk]
OpenDir(s, path) == IF path = <<>> THEN [ret |-> "OK", di |-> OpenRoot(s)] ELSE Descend(s, OpenRoot(s), path)

RECURSIVE Zeroed(_, _, _)
Zeroed(s, x, n) == IF n = 0 THEN s ELSE Zeroed(WriteSector(s, x, BlankSector), x + 1, n - 1)

\* After the directory has been extended the loop ends and the call fails.
RECURSIVE FreeSlot(_, _)
FreeSlot(s, di) ==
  LET g == GetNext(s, di)
      c == GetFreeFAT(s)
      z == Zeroed(s, SectorOf(c), Spc)
      l == SetFAT(z, g.di.cl, c)
  IN  CASE g.ret = "OK" /\ g.de = Blank -> [s |-> s, ret |-> "OK", di |-> g.di]
        [] g.ret = "OK"  -> FreeSlot(s, g.di)
        [] g.ret = "EOF" -> [s |-> s, ret |-> "ERRMISC", di |-> g.di]
        [] c = NOFREE    -> [s |-> s, ret |-> "ERRMISC", di |-> g.di]
        [] OTHER         -> [s |-> SetFAT(l, c, EOC), ret |-> "ERRMISC", di |-> [g.di EXCEPT !.cl = c, !.ent = 1]]
MarkedSlot(f) == [f EXCEPT !.s = Marked(f.s, f.di)]
SlotIn(s, o) ==
  MarkedSlot(IF o.ret # "OK" THEN [s |-> s, ret |-> "NOTFOUND", di |-> o.di]
             ELSE FreeSlot(s, [o.di EXCEPT !.blank = TRUE]))
GetFreeDirEnt(s, path) == SlotIn(s, OpenDir(s, path))

(***************************************************************************)
(* Files.  A FILEINFO keeps where its directory entry is, its first and    *)
(* its current cluster, the pointer and the length; path is ours.          *)
(***************************************************************************)
FileInfo(path, mode, di, first, len) ==
  [open |-> TRUE, path |-> path, mode |-> mode, dirsec |-> DirSector(di), diroff |-> di.ent,
   first |-> first, cl |-> first, ptr |-> 0, len |-> len]

\* The new entry in its slot on the disk.
WriteEntry(s, fi, de) == WriteSector(s, fi.dirsec, [Sector(s, fi.dirsec) EXCEPT ![fi.diroff] = de])
Refused(s, ret) == [s |-> s, ret |-> ret, fi |-> NoFile]

\* Faulty: the new file's cluster is not marked in the FAT.
CreateUnmarked(e, fi) == IF e.ok THEN [s |-> e, ret |-> "OK", fi |-> fi] ELSE Refused(e, "ERRMISC")
\* The entry is on the disk before its first cluster is taken in the FAT,
\* and a volume without a free cluster is not noticed.
Created(e, fi) ==
  IF e.ok THEN [s |-> SetFAT(e, fi.first, EOC), ret |-> "OK", fi |-> fi] ELSE Refused(e, "ERRMISC")
CreateAt(slot, path, fi) ==
  Created(WriteEntry(slot.s, fi, Entry(Last(path), FALSE, IF fi.first = NOFREE THEN BAD ELSE fi.first, 0)), fi)
CreateFile(slot, path, mode) ==
  IF slot.ret # "OK" THEN Refused(slot.s, "ERRMISC")
  ELSE CreateAt(slot, path, FileInfo(path, mode, slot.di, GetFreeFAT(slot.s), 0))

OpenFound(s, g, path, mode) ==
  CASE g.ret = "OK" /\ g.de[2]    -> Refused(s, "NOTFOUND")
    [] g.ret = "OK" /\ ~g.de[2]   -> [s |-> s, ret |-> "OK", fi |-> FileInfo(path, mode, g.di, g.de[3], g.de[4])]
    [] g.ret # "OK" /\ mode = "w" -> CreateFile(GetFreeDirEnt(s, Front(path)), path, mode)
    [] OTHER                      -> Refused(s, "NOTFOUND")
OpenIn(s, o, path, mode) ==
  IF o.ret # "OK" THEN Refused(Marked(s, o.di), "NOTFOUND")
  ELSE LET g == Search(s, o.di, Last(path)) IN OpenFound(Marked(s, g.di), g, path, mode)
OpenFile(s, path, mode) == OpenIn(s, OpenDir(s, Front(path)), path, mode)

Least(a, b) == IF a < b THEN a ELSE b
CurrentSector(fi) == SectorOf(fi.cl) + ((fi.ptr % CL) \div SECTOR_SIZE)
Piece(fi, remain) == Least(remain, SECTOR_SIZE - (fi.ptr % SECTOR_SIZE))
Crosses(fi, n) == fi.ptr \div CL # (fi.ptr + n) \div CL

RECURSIVE ReadLoop(_, _, _, _)
ReadLoop(s, fi, remain, out) ==
  LET n   == Piece(fi, remain)
      off == fi.ptr % SECTOR_SIZE
      got == out \o SubSeq(Sector(s, CurrentSector(fi)), off + 1, off + n)
      end == Crosses(fi, n) /\ fi.cl >= EOC
      to  == [fi EXCEPT !.ptr = @ + n, !.cl = IF Crosses(fi, n) /\ ~end THEN GetFAT(s, @) ELSE @]
  IN  IF remain = 0 THEN [fi |-> fi, out |-> out, ret |-> "OK"]
      ELSE IF end THEN [fi |-> to, out |-> got, ret |-> "EOF"]
      ELSE ReadLoop(s, to, remain - n, got)
ReadFile(s, fi, len) == ReadLoop(s, fi, Least(len, fi.len - fi.ptr), <<>>)

\* Faulty: every partial sector at a sector's start is written without reading it.
OverlaidBlank(s, fi, buf, n) ==
  LET off == fi.ptr % SECTOR_SIZE
      old == IF off = 0 THEN BlankSector ELSE Sector(s, CurrentSector(fi))
  IN  [i \in 1 .. SECTOR_SIZE |-> IF i > off /\ i <= off + n THEN buf[i - off] ELSE old[i]]

\* A partial sector at or behind the end of the file is not read first: what
\* follows it in the caller's memory goes to the disk with it.
Overlaid(s, fi, buf, n) ==
  LET off == fi.ptr % SECTOR_SIZE
      old == IF off = 0 /\ fi.ptr >= fi.len THEN BlankSector ELSE Sector(s, CurrentSector(fi))
  IN  [i \in 1 .. SECTOR_SIZE |-> IF i > off /\ i <= off + n THEN buf[i - off] ELSE old[i]]

\* At a cluster's end the next one is taken, or a new one linked: in that case
\* an earlier error of the data write is forgotten.  Without a free cluster
\* the call returns at once and the directory keeps the old size.
RECURSIVE WriteLoop(_, _, _)
WriteLoop(s, fi, buf) ==
  LET n    == Piece(fi, Len(buf))
      w    == WriteSector(Through(s, fi.cl), CurrentSector(fi), Overlaid(s, fi, buf, n))
      adv  == [fi EXCEPT !.ptr = @ + n, !.len = IF @ < fi.ptr + n THEN fi.ptr + n ELSE @]
      next == GetFAT(w, fi.cl)
      c    == GetFreeFAT(w)
      link == SetFAT(SetFAT(w, fi.cl, c), c, EOC)
      rest == SubSeq(buf, n + 1, Len(buf))
  IN  IF buf = <<>> THEN [s |-> s, fi |-> fi, ret |-> "OK"]
      ELSE IF Crosses(fi, n) /\ next >= EOC /\ c = NOFREE
           THEN [s |-> w, fi |-> [adv EXCEPT !.cl = next], ret |-> "FULL"]
      ELSE IF Crosses(fi, n) /\ next >= EOC THEN WriteLoop(link, [adv EXCEPT !.cl = c], rest)
      ELSE LET to == IF Crosses(fi, n) THEN [adv EXCEPT !.cl = next] ELSE adv
           IN  IF w.ok THEN WriteLoop(w, to, rest) ELSE [s |-> w, fi |-> to, ret |-> "ERRMISC"]

WriteSize(s, fi) ==
  LET cells == Sector(s, fi.dirsec)
  IN  WriteSector(s, fi.dirsec, [cells EXCEPT ![fi.diroff] = IF Len(@) = 4 THEN [@ EXCEPT ![4] = fi.len] ELSE @])
Finished(w, z) ==
  IF w.ret = "FULL" THEN [w EXCEPT !.ret = "ERRMISC"]
  ELSE [s |-> z, fi |-> w.fi, ret |-> IF z.ok THEN w.ret ELSE "ERRMISC"]
WithSize(w) == Finished(w, WriteSize(w.s, w.fi))
WriteFile(s, fi, buf) ==
  IF fi.mode # "w" THEN [s |-> s, fi |-> fi, ret |-> "ERRMISC"] ELSE WithSize(WriteLoop(s, fi, buf))

RECURSIVE Along(_, _, _)
Along(s, c, n) == IF n = 0 THEN c ELSE Along(s, GetFAT(s, c), n - 1)
\* The walk of n clusters: DFS_Seek's cache variable is not initialised, and
\* stays what it is once it names the FAT's sector.
Walk(s, c, n) == IF n = 0 \/ s.junk = NoJunk THEN Along(s, c, n) ELSE s.junk
Rewound(fi, off) == IF off < fi.ptr THEN [fi EXCEPT !.cl = fi.first, !.ptr = 0] ELSE fi
\* Faulty: the target cluster counted from the pointer, as before 2008-12-18.
SeekFromPointer(s, fi, offset) ==
  LET off  == Least(offset, fi.len)
      from == Rewound(fi, off)
  IN  IF off = 0 THEN [fi EXCEPT !.cl = fi.first, !.ptr = 0]
      ELSE IF from.ptr \div CL = (from.ptr + off) \div CL THEN [from EXCEPT !.ptr = off]
      ELSE [from EXCEPT !.ptr = off, !.cl = Walk(s, @, ((from.ptr + off) \div CL) - (from.ptr \div CL))]
Seek(s, fi, offset) ==
  LET off  == Least(offset, fi.len)
      from == Rewound(fi, off)
  IN  IF off = 0 THEN [fi EXCEPT !.cl = fi.first, !.ptr = 0]
      ELSE IF from.ptr \div CL = (from.ptr + off) \div CL THEN [from EXCEPT !.ptr = off]
      ELSE [from EXCEPT !.ptr = off, !.cl = Walk(s, @, (off \div CL) - (from.ptr \div CL))]
\* Whether a seek looks into the FAT.
Walks(fi, offset) ==
  LET off == Least(offset, fi.len) IN off # 0 /\ off \div CL # Rewound(fi, off).ptr \div CL

\* Faulty: only the first cluster is freed; the end mark is freed too.
FreeFirst(s, c) == IF c >= BAD THEN s ELSE SetFAT(s, c, 0)

RECURSIVE FreeChain(_, _)
FreeChain(s, c) == IF c >= BAD THEN s ELSE FreeChain(SetFAT(s, c, 0), GetFAT(s, c))
Erased(e, c) == IF e.ok THEN [s |-> FreeChain(e, c), ret |-> "OK"] ELSE [s |-> e, ret |-> "ERRMISC"]
UnlinkFound(o) ==
  IF o.ret # "OK" THEN [s |-> o.s, ret |-> "NOTFOUND"] ELSE Erased(WriteEntry(o.s, o.fi, Deleted), o.fi.first)
UnlinkFile(s, path) == UnlinkFound(OpenFile(s, path, "r"))
=============================================================================
