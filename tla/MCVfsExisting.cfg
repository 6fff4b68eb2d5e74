SPECIFICATION Spec
CONSTANTS
  SectorSize = 4
  ReservedSectors = 1
  FatCopies = 1
  SectorsPerFat = 2
  SectorsPerCluster = 2
  RootDirEntries = 4
  ItemSize = 1
  DiskSectors = 8
  MaxFd = 3
  HeapBlocks = 60
  Images <- MissedImages
  Paths <- MissedPaths
  Modes <- JustRead
  Reads <- MCReads
CHECK_DEADLOCK FALSE
INVARIANT ExistingFileOpens
