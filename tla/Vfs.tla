-------------------------------- MODULE Vfs --------------------------------
(***************************************************************************)
(* The file layer: ke/fs/file.c's descriptor table and filesystem table,   *)
(* the path parser in front of it (ke/fs/pparser.c), the disk behind it    *)
(* (ke/disk/disk.c) and the driver's open and read (module Fat16).         *)
(*                                                                         *)
(* fopen and fread run inside system calls or before interrupts matter: a  *)
(* call is one step.  Every object these calls allocate is at most one     *)
(* heap block, and with a block free the heap grants it (module Heap), so  *)
(* the heap is a number of free blocks.  A path is the sequence of its     *)
(* parts between slashes, an empty one being <<>>.                         *)
(***************************************************************************)
EXTENDS Fat16

CONSTANTS MaxFd,        \* LIBREWIN_MAX_FILE_DESCRIPTORS
          HeapBlocks,   \* blocks free when the file layer starts
          Images,       \* the disks there may be
          Paths,        \* the paths fopen is called with: [drive, parts]
          Modes,        \* and the modes
          Reads         \* the calls of fread: [size, nmemb]

\* Booting takes six blocks; items of a directory have different names.
ASSUME VfsAssumption ==
    /\ MaxFd \in Nat \ {0}
    /\ HeapBlocks \in Nat /\ HeapBlocks >= 6
    /\ \A d \in Images : \A i, j \in DOMAIN d.root :
          d.root[i].status = "used" /\ d.root[j].status = "used"
             /\ Name(d.root[i]) = Name(d.root[j]) => i = j

\* The disks are volumes: the entries lie in the allocation table, and what is in
\* use begins in a data cluster of the disk.  (A file of no bytes has none, and
\* is left out.)
ASSUME VolumeAssumption ==
    \A d \in Images :
       /\ d.root \in Seq(Range(d.root))
       /\ DOMAIN d.fat \subseteq 0 .. (SectorsPerFat * SectorSize) \div FAT_ENTRY_SIZE - 1
       /\ \A i \in DOMAIN d.root : d.root[i].status = "used" =>
             LET c == d.root[i].cluster IN
             /\ c \in Nat /\ c >= 2
             /\ EndOfRootSector + (c - 1) * SectorsPerCluster <= DiskSectors
             /\ (c - 2) * ClusterBytes .. (c - 1) * ClusterBytes - 1 \subseteq DOMAIN d.data

ASSUME CallsAssumption == /\ \A path \in Paths : path.parts \in Seq(Range(path.parts))
                          /\ \A r \in Reads : r.size \in Nat /\ r.nmemb \in Nat

VARIABLES img,              \* the disk
          filesystem,       \* disk.filesystem
          file_descriptors, \* the table; 0 is an empty slot
          free,             \* free heap blocks
          ret               \* the last call and its outcome

vars == <<img, filesystem, file_descriptors, free, ret>>

Fds  == 1 .. MaxFd
NULL == 0
NOFS == "none"
EMPTY == [open |-> FALSE, item |-> NULL]     \* an item is its index in the directory

Init == /\ img \in Images
        /\ filesystem = NOFS
        /\ file_descriptors = [fd \in Fds |-> EMPTY]
        /\ free = HeapBlocks
        /\ ret = [op |-> "boot"]

Stuck == ret.op = "read" /\ ret.res = -HANG

-----------------------------------------------------------------------------
(* Booting *)

\* fat16_resolve: three streams and the private data, one more stream while it
\* runs, and the root directory.  A disk without the signature costs the
\* streams.
fat16_resolve ==
    IF img.signature = 41       \* 0x29
    THEN filesystem' = "FAT16" /\ free' = free - 5
    ELSE filesystem' = NOFS /\ free' = free - 3

DiskInit == /\ ret.op = "boot"
            /\ fat16_resolve
            /\ ret' = [op |-> "ready"]
            /\ UNCHANGED <<img, file_descriptors>>

-----------------------------------------------------------------------------
(* Paths *)

GetDisk(index) == index = 0

\* pathparser_parse keeps the parts before the first empty one.
ParsedParts(parts) ==
    LET empty == {i \in DOMAIN parts : parts[i] = <<>>}
    IN  IF empty = {} THEN parts ELSE SubSeq(parts, 1, Min(empty) - 1)

\* Each part takes two blocks, after one for the root.  When they run out the
\* parser keeps the parts it has.
pathparser_parse(path, blocks) ==
    LET parts == ParsedParts(path.parts)
        n     == Min({Len(parts), (blocks - 1) \div 2})
        used  == Min({2 * Len(parts) + 1, blocks})
    IN  IF blocks = 0 THEN [parts |-> <<>>, left |-> 0]
        ELSE [parts |-> SubSeq(parts, 1, n), left |-> blocks - used]

-----------------------------------------------------------------------------
(* fat16_open *)

\* The copy of a directory item could not be allocated.
NOCOPY == -1

\* What fat16_new_fat_item_for_directory_item makes of item i with the blocks
\* that are left.  A directory is loaded into two blocks that nothing refers to
\* afterwards (given back when the second is missing), and everything is
\* called a file.
NewFatItem(i, blocks) ==
    LET dir  == IF IsDirectory(img.root[i]) /\ blocks >= 3 THEN 2 ELSE 0
        left == blocks - 1 - dir
    IN  IF blocks = 0 THEN [item |-> NULL, left |-> 0]
        ELSE IF left = 0 THEN [item |-> NOCOPY, left |-> 0]
        ELSE [item |-> i, left |-> left - 1]

\* Items carry different names, so at most one matches.  A path of two parts
\* or more ends at its first part, which is never a directory.
fat16_open(parts, blocks) ==
    LET found == Matches(img.root, parts[1])
        new   == NewFatItem(Max(found), blocks - 1)
    IN  IF blocks = 0 THEN [res |-> -ENOMEM, item |-> NULL, left |-> 0]
        ELSE IF found = {} THEN [res |-> -EIO, item |-> NULL, left |-> blocks - 1]
        ELSE IF new.item = NULL \/ Len(parts) > 1 THEN [res |-> -EIO, item |-> NULL, left |-> new.left]
        ELSE [res |-> LIBREWIN_ALL_OK, item |-> new.item, left |-> new.left]

-----------------------------------------------------------------------------
(* fopen and fread *)

\* Slip: the slot is not tested.
FreeSlots_Any == Fds

FreeSlots == {fd \in Fds : ~file_descriptors[fd].open}

\* Nothing fopen allocates is given back, and there is no fclose.
OpenFails(path, mode, left) ==
    /\ free' = left
    /\ ret' = [op |-> "open", path |-> path, mode |-> mode, fd |-> 0]
    /\ UNCHANGED file_descriptors

\* Slip: a block is taken for granted.
file_new_descriptor_Always(path, mode, item, blocks) ==
    IF FreeSlots = {} THEN OpenFails(path, mode, blocks)
    ELSE LET fd == Min(FreeSlots) IN
         /\ file_descriptors' = [file_descriptors EXCEPT ![fd] = [open |-> TRUE, item |-> item]]
         /\ free' = blocks - 1
         /\ ret' = [op |-> "open", path |-> path, mode |-> mode, fd |-> fd]

\* file_new_descriptor takes the first empty slot.  Without a block for the
\* descriptor it writes to address 0, leaves the slot empty and returns the
\* slot's number all the same.
file_new_descriptor(path, mode, item, blocks) ==
    IF FreeSlots = {} THEN OpenFails(path, mode, blocks)
    ELSE LET fd == Min(FreeSlots) IN
         /\ file_descriptors' = IF blocks = 0 THEN file_descriptors
                                ELSE [file_descriptors EXCEPT ![fd] = [open |-> TRUE, item |-> item]]
         /\ free' = Max({blocks - 1, 0})
         /\ ret' = [op |-> "open", path |-> path, mode |-> mode, fd |-> fd]

fopen(path, mode) ==
    /\ ret.op # "boot" /\ ~Stuck
    /\ LET root == pathparser_parse(path, free)
           opened == fat16_open(root.parts, root.left)
       IN  IF path.drive = -EBADPATH THEN OpenFails(path, mode, free)
           ELSE IF root.parts = <<>> \/ ~GetDisk(path.drive) \/ filesystem = NOFS \/ mode = "INVALID"
           THEN OpenFails(path, mode, root.left)
           ELSE IF mode # "READ" THEN OpenFails(path, mode, root.left)
           ELSE IF opened.res < 0 THEN OpenFails(path, mode, opened.left)
           ELSE file_new_descriptor(path, mode, opened.item, opened.left)
    /\ UNCHANGED <<img, filesystem>>

\* file_get_descriptor: the bounds are those of an index, not of a descriptor.
file_get_descriptor(fd) ==
    IF fd <= 0 \/ fd >= MaxFd THEN EMPTY ELSE file_descriptors[fd]

\* A missing copy is read from address 0: any cluster may come of it.
ReadResults(desc, size, nmemb) ==
    IF desc.item = NOCOPY
    THEN {[res |-> -HANG, data |-> <<>>], [res |-> -EIO, data |-> <<>>],
          [res |-> nmemb, data |-> [j \in 1 .. size * nmemb |-> GARBAGE]]}
    ELSE {fat16_read(img, img.root[desc.item].cluster, size, nmemb)}

fread(size, nmemb, fd) ==
    /\ ret.op # "boot" /\ ~Stuck
    /\ LET desc    == file_get_descriptor(fd)
           results == IF size = 0 \/ nmemb = 0 \/ fd < 1 \/ ~desc.open
                      THEN {[res |-> -EINVARG, data |-> <<>>]}
                      ELSE ReadResults(desc, size, nmemb)
       IN  \E r \in results :
              ret' = [op |-> "read", fd |-> fd, size |-> size, nmemb |-> nmemb,
                      res |-> r.res, data |-> r.data]
    /\ UNCHANGED <<img, filesystem, file_descriptors, free>>

\* fread is called with whatever fopen returned, 0 included; no call follows
\* one that waits for the drive for ever.
Next == \/ DiskInit
        \/ \E path \in Paths, mode \in Modes : fopen(path, mode)
        \/ \E r \in Reads, fd \in 0 .. MaxFd : fread(r.size, r.nmemb, fd)

Spec == Init /\ [][Next]_vars

-----------------------------------------------------------------------------
(* Properties *)

TypeOK == /\ img \in Images
          /\ filesystem \in {NOFS, "FAT16"}
          /\ file_descriptors \in [Fds -> [open : BOOLEAN, item : {NULL, NOCOPY} \cup DOMAIN img.root]]
          /\ free \in 0 .. HeapBlocks
          /\ ret.op \in {"boot", "ready", "open", "read"}

\* The file a path of one part names, by the rules of the format.
Exists(path) == /\ path.drive = 0 /\ Len(path.parts) = 1
                /\ \E i \in LiveItems(img.root) : Name(img.root[i]) = path.parts[1]

\* The files the driver can find: their names are shorter than eight characters,
\* their extension ends where it should, and every item before their own is in
\* use.  The others are what ExistingFileOpens is about.
Findable(path) == /\ path.drive = 0 /\ Len(path.parts) = 1
                  /\ \E i \in LiveItems(img.root) :
                        /\ Name(img.root[i]) = path.parts[1]
                        /\ ~img.root[i].full /\ ~RunsOn(img.root[i])
                        /\ \A j \in 1 .. i : img.root[j].status = "used"

\* A descriptor keeps naming the file it was opened on for as long as the
\* system runs: fopen never reuses a slot that is taken.
OpenDescriptorsKept ==
    [][\A fd \in Fds : file_descriptors[fd].open =>
                            file_descriptors'[fd] = file_descriptors[fd]]_vars

\* With a slot and nine blocks left, fopen returns a descriptor for every file the
\* driver can find, and for none that is not there if the name has the format's
\* form, a base and an extension; and the descriptor stands for that file.
OpenTellsExistence ==
    [][ret'.op = "open" /\ ret'.mode = "READ" /\ filesystem = "FAT16" /\ Len(ret'.path.parts) = 1
          /\ FreeSlots # {} /\ free >= 9 =>
          /\ Findable(ret'.path) => ret'.fd > 0
          /\ ret'.fd > 0 /\ Len(ret'.path.parts[1]) <= 2 =>
                 /\ Exists(ret'.path)
                 /\ LET d == file_descriptors'[ret'.fd] IN
                    d.open /\ Name(img.root[d.item]) = ret'.path.parts[1]]_vars

\* A read through a good descriptor that stays within the file's first cluster,
\* in one part or in whole sectors, succeeds and returns the bytes of the file
\* the descriptor was opened on.
ReadReturnsFile ==
    LET desc == file_get_descriptor(ret.fd) IN
    ret.op = "read" /\ desc.open /\ desc.item # NOCOPY
       /\ ret.size * ret.nmemb \in 1 .. ClusterBytes
       /\ (ret.nmemb = 1 \/ ret.size % SectorSize = 0) =>
       /\ ret.res = ret.nmemb
       /\ ret.data = [j \in 1 .. ret.size * ret.nmemb |->
                         FileByte(img, img.root[desc.item].cluster, j - 1)]

\* fopen says of every file there is that it is there, as the open
\* application's "determine if a file exists or not" takes it to
\* (applications/open.c:11).
ExistingFileOpens ==
    ret.op = "open" /\ ret.mode = "READ" /\ filesystem = "FAT16" /\ Exists(ret.path) => ret.fd > 0

\* "Gets the correct cluster to use based on the starting cluster and the
\* offset" (ke/fs/fat/fat16.c:403): a read that lies in the clusters of the
\* file's chain returns the bytes they hold.
ReadFollowsChain ==
    ret.op = "read" /\ ret.nmemb = 1 /\ ret.size > 0 /\ file_get_descriptor(ret.fd).open =>
       LET start == img.root[file_descriptors[ret.fd].item].cluster
       IN  ChainCluster(img, start, (ret.size - 1) \div ClusterBytes) > 0 =>
              ret.data = [j \in 1 .. ret.size |-> FileByte(img, start, j - 1)]
=============================================================================
