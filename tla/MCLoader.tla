------------------------------- MODULE MCLoader -------------------------------
(* Volumes with two sectors of FAT (8 clusters, 16 bits scaled to 4: 10 and  *)
(* above ends a chain, 9 is a bad cluster) and two sectors per cluster.      *)
EXTENDS Loader

MCPath == <<"/", "O", "S", "/", "K">>

E(kind, name, cluster, size) == [kind |-> kind, name |-> name, cluster |-> cluster, size |-> size]
End  == E("end", <<>>, 0, 0)
Gone == E("deleted", <<"x", " ", " ">>, 7, 5)
Lfn(piece) == E("lfn", piece, 0, 0)
Dot    == E("dir", <<".", " ", " ">>, 2, 0)
DotDot == E("dir", <<".", ".", " ">>, 0, 0)
OS     == E("dir", <<"O", "S", " ">>, 2, 0)
K      == E("file", <<"K", " ", " ">>, 6, 25)
KDotK  == E("file", <<"K", " ", "K">>, 5, 3)

(* Clusters 0 and 1 are reserved; the directory is cluster 2, the kernel     *)
(* clusters 6 and 4.                                                         *)
Links(rest) == rest @@ (0 :> 10) @@ (1 :> 11) @@ (2 :> 11) @@ (6 :> 4) @@ (4 :> 10)
               @@ [c \in 0 .. 70 |-> 0]
Plain == [boot |-> "good", reserved_sectors |-> 1, FAT_count |-> 1,
          fat |-> Links(<<>>), fat_sectors |-> 2, root_sectors |-> 2,
          dir  |-> (3 :> <<KDotK, Gone, OS>>) @@ (4 :> <<End, K, K>>)
                   @@ (5 :> <<Dot, DotDot, KDotK>>) @@ (6 :> <<K, End, End>>),
          kernel |-> <<13, 14, 9, 10>>, sound |-> TRUE]

(* A volume with two tables, as the makefile builds it, with long names, and *)
(* one that has been deleted; the pieces of a name stand in reverse order.   *)
LongNames ==
  [Plain EXCEPT
     !.FAT_count = 2, !.root_sectors = 1, !.kernel = <<14, 15, 10, 11>>,
     !.dir = (5 :> <<Lfn(<<"S", "NUL", "wide">>), Lfn(<<"O">>), E("dir", <<"X", " ", " ">>, 2, 0)>>)
             @@ (6 :> <<Dot, Lfn(<<"y", "NUL">>), Gone>>) @@ (7 :> <<K, End, End>>)]

Damaged(d) == [d EXCEPT !.kernel = NULL, !.sound = FALSE]
Link(from, to) == [Damaged(Plain) EXCEPT !.fat = (from :> to) @@ @]
OSEntries(k)   == [Damaged(Plain) EXCEPT !.dir = (6 :> <<k, End, End>>) @@ @]

DamagedDisks ==
  { Link(2, 2), Link(4, 6),                           \* chains that loop
    Link(6, 0), Link(6, 9), Link(6, 8), Link(6, 1),   \* free, bad, no entry, reserved
    Link(6, 7),                                       \* past the end of the disk
    [Link(4, 3) EXCEPT !.fat = (3 :> 5) @@ (5 :> 7) @@ (7 :> 11) @@ @],   \* 64 KB and more
    OSEntries([K EXCEPT !.size = 49]),                \* longer than its chain
    OSEntries([K EXCEPT !.kind = "dir"]), OSEntries(End),
    [Damaged(Plain) EXCEPT !.dir = (3 :> <<End, OS, OS>>) @@ @],
    [Damaged(Plain) EXCEPT !.dir = (3 :> <<[OS EXCEPT !.kind = "file"], End, End>>) @@ @],
    [Damaged(Plain) EXCEPT !.boot = "bad"],
    [Damaged(Plain) EXCEPT !.root_sectors = 0] }
  \cup                        \* a FAT of 64 KB, a larger one, one that no read can fetch
  { [Damaged(Plain) EXCEPT !.fat_sectors = n, !.dir = (n + 1 :> <<OS, End, End>>)] : n \in {8, 9, 17} }

Sound   == {Plain, LongNames}
MCDisks == Sound \cup DamagedDisks
===============================================================================
