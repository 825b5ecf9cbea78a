---------------------------- MODULE MCFileSystem ----------------------------
\* Instance: sectors of two units, clusters of two sectors, a root directory of
\* one sector, six clusters; the FAT entry of 0xfff8 would be in the data of
\* cluster 3, the one of 0x0ffffff7 behind the volume.  Four volumes: one as
\* DOSFS leaves it, empty but for a directory; one another system wrote, with a
\* fragmented file whose chain uses the last cluster and a file that fills its
\* cluster exactly; one with a directory of two clusters and an empty file
\* without a cluster; and one with a directory that has no blank entry left.
EXTENDS FileSystem

MCPaths == {<<"a">>, <<"d", "a">>, <<"d", "b">>}
MCBeyond == <<Entry("b", FALSE, 4, 2), Unit(5)>>
Fat(used) == [c \in Entries |-> IF c < 2 THEN EOC ELSE IF c \in DOMAIN used THEN used[c] ELSE 0]
Filled(sectors) == [x \in Sectors |-> IF x \in DOMAIN sectors THEN sectors[x] ELSE BlankSector]
Image(used, sectors) == [fat |-> Fat(used), mirror |-> Fat(used), sec |-> Filled(sectors)]
Dir == Entry("d", TRUE, 2, 0)
Hollow(name) == Entry(name, FALSE, 0, 0)
Fresh == Image(2 :> EOC, RootDir :> <<Dir, Blank>>)
Foreign == Image((2 :> EOC) @@ (7 :> 3) @@ (3 :> EOC) @@ (5 :> EOC),
                 (RootDir :> <<Dir, Entry("a", FALSE, 7, 6)>>)
                 @@ (SectorOf(2) :> <<Deleted, Entry("b", FALSE, 5, 4)>>)
                 @@ (SectorOf(7) :> <<Unit(1), Unit(2)>>) @@ (SectorOf(7) + 1 :> <<Unit(3), Unit(4)>>)
                 @@ (SectorOf(3) :> <<Unit(5), Unit(6)>>)
                 @@ (SectorOf(5) :> <<Unit(1), Unit(2)>>) @@ (SectorOf(5) + 1 :> <<Unit(3), Unit(4)>>))
Crowd == (RootDir :> <<Dir, Blank>>) @@ (SectorOf(2) :> <<Hollow("x"), Hollow("y")>>)
TwoClusters == Image((2 :> 6) @@ (6 :> EOC), Crowd @@ (SectorOf(2) + 1 :> <<Hollow("z"), Hollow("a")>>))
Packed == Image((2 :> EOC) @@ (3 :> EOC),
                Crowd @@ (SectorOf(2) + 1 :> <<Entry("b", FALSE, 3, 3), Hollow("z")>>)
                @@ (SectorOf(3) :> <<Unit(1), Unit(2)>>) @@ (SectorOf(3) + 1 :> <<Unit(3), Blank>>))
MCImages == {Fresh, Foreign, TwoClusters, Packed}
Symmetry == Permutations(Handles)
=============================================================================
