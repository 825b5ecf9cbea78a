----------------------------- MODULE FileSystem -----------------------------
(***************************************************************************)
(* Callers of DOSFS: they open, read, write, seek and delete files on one  *)
(* volume, until the machine stops inside a call or a write fails.  The    *)
(* callers hold a file open for writing once at a time, do not delete an   *)
(* open file, and close a file whose write has failed: DOSFS keeps a       *)
(* length and a cluster per FILEINFO and checks none of this.              *)
(***************************************************************************)
EXTENDS DosFs

CONSTANTS
  Handles,       \* the FILEINFOs of the callers
  Paths,         \* the paths in use, sequences of names
  Images,        \* the disks a run may start with
  Lengths,       \* the lengths of reads and writes
  MaxCalls       \* bound: calls until the run stops

VARIABLES
  disk,      \* [fat, mirror, sec]: both copies of the FAT and the sectors
  handle,    \* [Handles -> FILEINFO or NoFile]
  text,      \* history: what the file of each path should hold
  call,      \* the last call: its name, path and what it returned
  calls,     \* how many calls
  status     \* "sound"; how a run ends: "crashed", "torn" (a write failed),
             \* "stray" (off the volume's directories and clusters), "stale"
             \* (something else in scratch was taken for a sector of the FAT)
vars == <<disk, handle, text, call, calls, status>>

(***************************************************************************)
(* What a disk holds, read independently of the code.                      *)
(***************************************************************************)
RECURSIVE ChainOf(_, _, _)
ChainOf(d, c, n) == IF c \notin Clusters \/ n = 0 THEN <<>> ELSE <<c>> \o ChainOf(d, d.fat[c], n - 1)
Chain(d, c) == ChainOf(d, c, NumClusters + 1)
SectorsOf(chain) == FlattenSeq([i \in DOMAIN chain |-> [j \in 1 .. Spc |-> SectorOf(chain[i]) + j - 1]])
CellsOf(d, sectors) == FlattenSeq([i \in DOMAIN sectors |-> d.sec[sectors[i]]])
Live(cell) == Len(cell) = 4 /\ cell # Deleted
Listed(d, sectors) == {c \in ToSet(CellsOf(d, sectors)) : Live(c)}
RootList(d) == Listed(d, [j \in 1 .. RootSectors |-> RootDir + j - 1])
Subdirs(d) == {c \in RootList(d) : c[2]}
SubList(d, dir) == Listed(d, SectorsOf(Chain(d, dir[3])))
\* Every file and directory of the volume: path and entry.
Tree(d) == {<< <<c[1]>>, c >> : c \in RootList(d)}
             \cup UNION {{<< <<dir[1], c[1]>>, c >> : c \in SubList(d, dir)} : dir \in Subdirs(d)}
Files(d) == {f \in Tree(d) : ~f[2][2]}
Content(d, f) == LET all == CellsOf(d, SectorsOf(Chain(d, f[2][3])))
                 IN  SubSeq(all, 1, Least(f[2][4], Len(all)))

Absent == <<"absent">>
Holds(d, p) == IF \E f \in Files(d) : f[1] = p THEN Content(d, CHOOSE f \in Files(d) : f[1] = p) ELSE Absent

Init ==
  /\ disk \in Images
  /\ handle = [h \in Handles |-> NoFile]
  /\ text = [p \in Paths |-> Holds(disk, p)]
  /\ call = [op |-> "mount"]
  /\ calls = 0
  /\ status = "sound"

(***************************************************************************)
(* A call that ended with s; op, p and out say which, new is the handle    *)
(* table if the machine is still running, holds the text it should have.   *)
(***************************************************************************)
Ends(s, what, new, holds) ==
  /\ disk' = DiskOf(s)
  /\ call' = what
  /\ calls' = calls + 1
  /\ status' = IF s.stale THEN "stale" ELSE IF s.stray THEN "stray"
               ELSE CASE s.mode = "crash" -> "crashed" [] s.mode = "fault" -> "torn" [] OTHER -> "sound"
  /\ handle' = IF s.mode = "crash" THEN [h \in Handles |-> NoFile] ELSE new
  /\ text' = holds
Ready == status = "sound" /\ calls < MaxCalls
\* What can befall a call of n writes: nothing, the machine stops after fewer,
\* one of them fails.
Whole == <<"ok", 0>>
Fates(n) == {Whole} \cup ({"crash"} \X (0 .. n - 1)) \cup ({"fault"} \X (1 .. n))
Under(fate, junk) == Start(disk, fate[1], fate[2], junk)
\* An uninitialised cache misses, or hits and junk is taken for the entry.
Guesses(hit) == {NoJunk} \cup (IF hit THEN Junk ELSE {})

Opens(h, p, r) ==
  Ends(r.s, [op |-> "open", path |-> p, ret |-> r.ret], [handle EXCEPT ![h] = r.fi],
       IF text[p] = Absent /\ r.ret = "OK" THEN [text EXCEPT ![p] = <<>>] ELSE text)
Open(h, p, mode) ==
  /\ Ready
  /\ ~handle[h].open
  /\ \A g \in Handles : handle[g].open /\ handle[g].path = p => mode = "r" /\ handle[g].mode = "r"
  /\ \E junk \in Guesses(OpenFile(Under(Whole, EOC), p, mode).s.stale) :
       \E fate \in Fates(OpenFile(Under(Whole, junk), p, mode).s.n) :
         Opens(h, p, OpenFile(Under(fate, junk), p, mode))

Reads(h, fi, len, r) ==
  Ends(Under(Whole, NoJunk), [op |-> "read", path |-> fi.path, ret |-> r.ret, at |-> fi.ptr, len |-> len, out |-> r.out],
       [handle EXCEPT ![h] = r.fi], text)
Read(h, len) == Ready /\ handle[h].open /\ Reads(h, handle[h], len, ReadFile(disk, handle[h], len))

\* The text with buf written at position at.
Written(t, at, buf) ==
  [i \in 1 .. (IF at + Len(buf) > Len(t) THEN at + Len(buf) ELSE Len(t)) |->
     IF i > at /\ i <= at + Len(buf) THEN buf[i - at] ELSE t[i]]
Buffer(len) == [i \in 1 .. len |-> Unit(10 * (calls + 1) + i)]
Writes(h, fi, new, r) ==
  Ends(r.s, [op |-> "write", path |-> fi.path, ret |-> r.ret],
       [handle EXCEPT ![h] = IF r.ret = "OK" THEN r.fi ELSE NoFile],
       [text EXCEPT ![fi.path] = IF r.ret = "OK" THEN new ELSE SubSeq(new, 1, Len(text[fi.path]))])
Write(h, len) ==
  /\ Ready /\ handle[h].open /\ handle[h].mode = "w"
  /\ \E fate \in Fates(WriteFile(Under(Whole, NoJunk), handle[h], Buffer(len)).s.n) :
       Writes(h, handle[h], Written(text[handle[h].path], handle[h].ptr, Buffer(len)),
              WriteFile(Under(fate, NoJunk), handle[h], Buffer(len)))

SeekTo(h, off) ==
  /\ Ready /\ handle[h].open
  /\ off # handle[h].ptr
  /\ \E junk \in Guesses(Walks(handle[h], off)) :
       Ends([Under(Whole, junk) EXCEPT !.stale = junk # NoJunk],
            [op |-> "seek", path |-> handle[h].path, ret |-> "OK"],
            [handle EXCEPT ![h] = Seek(Under(Whole, junk), handle[h], off)], text)

\* DFS_Close does nothing; the caller forgets the FILEINFO.
Close(h) ==
  /\ Ready /\ handle[h].open
  /\ handle' = [handle EXCEPT ![h] = NoFile]
  /\ UNCHANGED <<disk, text, call, calls, status>>

Unlinks(p, r) ==
  Ends(r.s, [op |-> "unlink", path |-> p, ret |-> r.ret], handle,
       IF r.ret = "OK" THEN [text EXCEPT ![p] = Absent] ELSE text)
Unlink(p) ==
  /\ Ready
  /\ \A h \in Handles : handle[h].open => handle[h].path # p
  /\ \E junk \in Guesses(UnlinkFile(Under(Whole, EOC), p).s.stale) :
       \E fate \in Fates(UnlinkFile(Under(Whole, junk), p).s.n) : Unlinks(p, UnlinkFile(Under(fate, junk), p))

Next ==
  \/ \E h \in Handles, p \in Paths, mode \in {"r", "w"} : Open(h, p, mode)
  \/ \E h \in Handles, len \in Lengths : Read(h, len)
  \/ \E h \in Handles, len \in Lengths : Write(h, len)
  \/ \E h \in Handles, off \in Lengths \cup {0} : SeekTo(h, off)
  \/ \E h \in Handles : Close(h)
  \/ \E p \in Paths : Unlink(p)

Spec == Init /\ [][Next]_vars

-----------------------------------------------------------------------------
Sound == status = "sound"
Owned(d, f) == ToSet(Chain(d, f[2][3]))
\* An empty file as other systems write it, without a cluster.
Empty(f) == f[2][3] = 0 /\ f[2][4] = 0

\* No cluster belongs to two files, every chain ends as a chain should, and
\* every cluster that is not free belongs to some file: creating, growing and
\* deleting files neither cross-links nor loses a cluster, as long as every
\* call was whole and none strayed or took junk for the FAT.
ChainsExact ==
  Sound => /\ \A f, g \in Tree(disk) : f # g => Owned(disk, f) \cap Owned(disk, g) = {}
           /\ \A f \in Tree(disk) : LET c == Chain(disk, f[2][3]) IN Empty(f) \/ (c # <<>> /\ disk.fat[Last(c)] = EOC)
           /\ UNION {Owned(disk, f) : f \in Tree(disk)} = {c \in Clusters : disk.fat[c] # 0}
           /\ disk.mirror = disk.fat

\* Every path names what was written to it and was not deleted: the volume
\* implements a table of texts, as long as every call was whole and none
\* strayed or took junk for the FAT.
KeepsTexts == Sound => \A p \in Paths : Holds(disk, p) = text[p]

\* DFS_ReadFile returns the text from the file's pointer on, as much as there
\* is, unless an earlier seek took junk for the FAT.
ReadsText ==
  Sound /\ call.op = "read" =>
    call.out = SubSeq(text[call.path], call.at + 1, Least(call.at + call.len, Len(text[call.path])))

\* A call that is stopped in the middle, or one of whose writes fails, and a
\* whole one, changes no other file than its own, unless it strays or took
\* junk for the FAT: then it may write over any file.
OthersKept ==
  [][status' \notin {"stray", "stale"} => \A p \in Paths : p # call'.path => Holds(disk', p) = Holds(disk, p)]_<<disk, calls>>


=============================================================================
