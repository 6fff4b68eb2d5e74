------------------------------- MODULE Fat16 -------------------------------
(***************************************************************************)
(* The FAT16 driver's algorithms (ke/fs/fat/fat16.c) over the disk stream  *)
(* (ke/disk/streamer.c): counting and searching the root directory,        *)
(* following a cluster chain, and reading.  Each is a function of the disk *)
(* image; module Vfs holds the state that open and read keep.              *)
(*                                                                         *)
(* An image is the file allocation table, the root directory and the bytes *)
(* of the data clusters, laid out on the disk as the driver expects them.  *)
(***************************************************************************)
EXTENDS Integers, Sequences, FiniteSetsExt, Status

CONSTANTS SectorSize,           \* LIBREWIN_SECTOR_SIZE, bytes
          ReservedSectors,      \* the header's reserved_sectors,
          FatCopies,            \* fat_copies,
          SectorsPerFat,        \* sectors_per_fat,
          SectorsPerCluster,    \* sectors_per_cluster
          RootDirEntries,       \* and root_dir_entries
          ItemSize,             \* sizeof(struct fat_directory_item)
          DiskSectors           \* the sectors of the disk

ASSUME GeometryAssumption ==
    /\ {SectorSize, ReservedSectors, FatCopies, SectorsPerFat, SectorsPerCluster,
        RootDirEntries, ItemSize, DiskSectors} \subseteq Nat \ {0}
    /\ (RootDirEntries * ItemSize) % SectorSize = 0

FAT_ENTRY_SIZE == 2
ClusterBytes   == SectorsPerCluster * SectorSize

-----------------------------------------------------------------------------
(* The layout of the disk *)

RootDirSector   == FatCopies * SectorsPerFat + ReservedSectors
EndOfRootSector == RootDirSector + (RootDirEntries * ItemSize) \div SectorSize

FatTablePosition == ReservedSectors * SectorSize
FirstDataByte    == EndOfRootSector * SectorSize

\* The byte at a position of the disk.  Directory items are kept apart from
\* the bytes, so the bytes of the root directory read as zero here.
DiskByte(img, pos) ==
    LET entry == (pos - FatTablePosition) \div FAT_ENTRY_SIZE
    IN  IF pos >= FatTablePosition /\ entry \in DOMAIN img.fat
        THEN IF (pos - FatTablePosition) % FAT_ENTRY_SIZE = 0
             THEN img.fat[entry] % 256 ELSE img.fat[entry] \div 256
        ELSE IF pos - FirstDataByte \in DOMAIN img.data
        THEN img.data[pos - FirstDataByte]
        ELSE 0

-----------------------------------------------------------------------------
(* The disk stream *)

\* A byte of the stack past the sector buffer of diskstreamer_read.
GARBAGE == -1

\* No such sector: the wait for the drive's data never ends.
HANG == 99

\* diskstreamer_read at position pos: every sector-sized part is copied out of
\* one sector, from the offset on, also past that sector's end.
diskstreamer_read(img, pos, total) ==
    [j \in 0 .. total - 1 |->
        LET offset == pos % SectorSize
            sector == pos \div SectorSize + j \div SectorSize
            i      == offset + (j % SectorSize)
        IN  IF i < SectorSize THEN DiskByte(img, sector * SectorSize + i) ELSE GARBAGE]

\* The last sector such a read asks the drive for.
LastSectorRead(pos, total) ==
    pos \div SectorSize + (IF total = 0 THEN 0 ELSE (total - 1) \div SectorSize)

-----------------------------------------------------------------------------
(* The root directory *)

\* fat16_get_total_items_for_directory: the items in use before the end mark.
fat16_get_total_items_for_directory(items) ==
    LET end == {i \in DOMAIN items : items[i].status = "end"}
        stop == IF end = {} THEN Len(items) ELSE Min(end) - 1
    IN  Cardinality({i \in 1 .. stop : items[i].status = "used"})

FAT_FILE_SUBDIRECTORY == 16
FAT_FILE_ARCHIVED     == 32

IsDirectory(item) == (item.attribute \div FAT_FILE_SUBDIRECTORY) % 2 = 1

\* fat16_to_proper_string stops at 0 or at a space.  An extension of three
\* characters (wide) has neither: it ends at the attribute byte behind it if that
\* is 0 or the archive attribute, 0x20, and else runs on into what follows.
RunsOn(item) == item.wide /\ item.attribute \notin {0, FAT_FILE_ARCHIVED}
RUNON == "attribute"

\* fat16_get_full_relative_filename: nor has a name of eight characters (full), so
\* its extension is taken for a part of it and then added again.
fat16_get_full_relative_filename(item) ==
    LET ext == IF RunsOn(item) THEN <<item.ext, RUNON>> ELSE <<item.ext>>
    IN  IF item.ext = "" THEN <<item.base>>
        ELSE IF item.full THEN <<item.base>> \o ext \o ext
        ELSE <<item.base>> \o ext

\* Slip: the last item is not looked at.
Matches_ShortByOne(items, name) ==
    {i \in 1 .. fat16_get_total_items_for_directory(items) - 1 :
        /\ items[i].status = "used"
        /\ fat16_get_full_relative_filename(items[i]) = name}

\* The items fat16_find_item_in_directory takes for name.  It looks at as many
\* items as there are in use, counted from the first, and keeps the last.
Matches(items, name) ==
    {i \in 1 .. fat16_get_total_items_for_directory(items) :
        /\ items[i].status = "used"
        /\ fat16_get_full_relative_filename(items[i]) = name}

-----------------------------------------------------------------------------
(* Clusters *)

\* Slip: clusters are counted from zero.
fat16_cluster_to_sector_FromZero(cluster) == EndOfRootSector + cluster * SectorsPerCluster

fat16_cluster_to_sector(cluster) == EndOfRootSector + (cluster - 2) * SectorsPerCluster

\* fat16_get_fat_entry: position times offset, where the entry lies at their sum.
FatEntrySeek(cluster) == FatTablePosition * (cluster * FAT_ENTRY_SIZE)

fat16_get_fat_entry(img, cluster) ==
    LET pos == FatEntrySeek(cluster)
        b   == diskstreamer_read(img, pos, FAT_ENTRY_SIZE)
    IN  IF LastSectorRead(pos, FAT_ENTRY_SIZE) >= DiskSectors THEN -HANG
        ELSE b[0] + 256 * b[1]

\* The values that end the walk with -EIO: 0xFF8, 0xFFF, the bad sector mark,
\* 0xFF0, 0xFF6 and 0.
StopEntries == {4088, 4095, 4087, 4080, 4086, 0}

\* The cluster n steps after start, or a negative number.
ClusterAhead(img, start, n) ==
    LET After[i \in 0 .. n] ==
            IF i = 0 THEN start
            ELSE IF After[i - 1] < 0 THEN After[i - 1]
            ELSE LET entry == fat16_get_fat_entry(img, After[i - 1])
                 IN  IF entry \in StopEntries THEN -EIO ELSE entry
    IN  After[n]

fat16_get_cluster_for_offset(img, start, offset) ==
    ClusterAhead(img, start, offset \div ClusterBytes)

-----------------------------------------------------------------------------
(* Reading *)

\* fat16_read_internal_from_stream calls itself for every further cluster's
\* worth of bytes; piece p is read from the cluster its offset lies in.
PieceCluster(img, cluster, offset, p) ==
    fat16_get_cluster_for_offset(img, cluster, offset + p * ClusterBytes)

PieceStart(img, cluster, offset, p) ==
    fat16_cluster_to_sector(PieceCluster(img, cluster, offset, p)) * SectorSize
        + (offset % ClusterBytes)

PieceLength(total, p) == Min({ClusterBytes, total - p * ClusterBytes})

Pieces(total) == 0 .. (total - 1) \div ClusterBytes

PieceResult(img, cluster, offset, total, p) ==
    IF PieceCluster(img, cluster, offset, p) < 0 THEN PieceCluster(img, cluster, offset, p)
    ELSE IF LastSectorRead(PieceStart(img, cluster, offset, p), PieceLength(total, p)) >= DiskSectors
    THEN -HANG
    ELSE 0

\* The first piece that fails decides the result.
fat16_read_internal(img, cluster, offset, total) ==
    LET bad == {p \in Pieces(total) : PieceResult(img, cluster, offset, total, p) # 0}
    IN  IF bad # {}
        THEN [res |-> PieceResult(img, cluster, offset, total, Min(bad)), data |-> <<>>]
        ELSE [res  |-> LIBREWIN_ALL_OK,
              data |-> [j \in 1 .. total |->
                           LET p == (j - 1) \div ClusterBytes
                           IN  diskstreamer_read(img, PieceStart(img, cluster, offset, p),
                                                 PieceLength(total, p))[(j - 1) % ClusterBytes]]]

\* fat16_read: nmemb reads of size bytes one after the other, from the start of
\* the file (the descriptor's pos is never moved).
fat16_read(img, cluster, size, nmemb) ==
    LET read == [i \in 0 .. nmemb - 1 |-> fat16_read_internal(img, cluster, i * size, size)]
        bad  == {i \in 0 .. nmemb - 1 : read[i].res < 0}
    IN  IF bad # {} THEN [res |-> read[Min(bad)].res, data |-> <<>>]
        ELSE [res |-> nmemb,
              data |-> [j \in 1 .. nmemb * size |-> read[(j - 1) \div size].data[((j - 1) % size) + 1]]]

-----------------------------------------------------------------------------
(* What a FAT16 volume holds, by the format's own rules *)

\* The names of the files of the root directory.
Name(item) == IF item.ext = "" THEN <<item.base>> ELSE <<item.base, item.ext>>

LiveItems(items) == {i \in DOMAIN items :
                        /\ items[i].status = "used"
                        /\ \A j \in 1 .. i : items[j].status # "end"}

\* The cluster n steps after start in the allocation table: 0 past the last.
ChainCluster(img, start, n) ==
    LET After[i \in 0 .. n] ==
            IF i = 0 THEN start
            ELSE IF After[i - 1] \in DOMAIN img.fat /\ img.fat[After[i - 1]] \in DOMAIN img.fat
            THEN img.fat[After[i - 1]] ELSE 0
    IN  After[n]

\* Byte o of the file whose first cluster is given.
FileByte(img, start, o) ==
    LET c == ChainCluster(img, start, o \div ClusterBytes)
    IN  img.data[(c - 2) * ClusterBytes + (o % ClusterBytes)]
=============================================================================
