------------------------------- MODULE MCVfs -------------------------------
(***************************************************************************)
(* The file layer on disks of 8 sectors of 4 bytes: one reserved sector,   *)
(* two for the allocation table, one for the root directory and two data   *)
(* clusters of two sectors.                                                *)
(***************************************************************************)
EXTENDS Vfs

\* Extensions have three characters here, or none; files have the archive attribute.
File(base, ext, full, cluster) ==
    [status |-> "used", base |-> base, ext |-> ext, full |-> full, wide |-> ext # "",
     attribute |-> FAT_FILE_ARCHIVED, cluster |-> cluster]
ReadOnly(file) == [file EXCEPT !.attribute = 1]
Directory(base, cluster) ==
    [File(base, "", FALSE, cluster) EXCEPT !.attribute = FAT_FILE_SUBDIRECTORY]
Deleted == [File("?", "", FALSE, 2) EXCEPT !.status = "deleted"]
End     == [File("", "", FALSE, 0) EXCEPT !.status = "end"]

\* Cluster 2 is followed by next, cluster 3 by none (0xFFF8).
Disk(signature, next, root) ==
    [signature |-> signature,
     fat  |-> [c \in 0 .. 3 |-> IF c = 2 THEN next ELSE 65528],
     root |-> root,
     data |-> [o \in 0 .. 15 |-> o + 1]]

A == File("a", "txt", FALSE, 2)

MCReads == {[size |-> 3, nmemb |-> 1], [size |-> 8, nmemb |-> 1],
            [size |-> 4, nmemb |-> 2], [size |-> 3, nmemb |-> 2], [size |-> 12, nmemb |-> 1],
            [size |-> 0, nmemb |-> 1]}

MCModes == {"READ", "WRITE", "INVALID"}

\* The disks and paths of the runs that show a disagreement: a name of eight
\* characters, a read-only file with an extension of three, a file behind a
\* deleted item; a file of two clusters.
MissedImages == {Disk(41, 65528, <<File("librever", "exe", TRUE, 2), End>>),
                 Disk(41, 65528, <<ReadOnly(A), End>>),
                 Disk(41, 65528, <<Deleted, A, End>>)}
MissedPaths  == {[drive |-> 0, parts |-> <<<<"librever", "exe">>>>],
                 [drive |-> 0, parts |-> <<<<"a", "txt">>>>]}
ChainImage   == {Disk(41, 3, <<A, End>>)}
APath        == {[drive |-> 0, parts |-> <<<<"a", "txt">>>>]}
JustRead     == {"READ"}
=============================================================================
