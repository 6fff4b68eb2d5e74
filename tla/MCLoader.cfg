SPECIFICATION LoaderSpec
CONSTANTS
  SectorSize = 4
  ReservedSectors = 1
  FatCopies = 1
  SectorsPerFat = 2
  SectorsPerCluster = 2
  RootDirEntries = 4
  ItemSize = 1
  DiskSectors = 8
  MaxFd = 4
  HeapBlocks = 36
  Images <- LoaderImages
  Paths <- LoaderPaths
  Modes <- MCModes
  Reads <- LoaderReads
  PathSize = 20
  Requests <- LoaderRequests
  NameOf <- MCNameOf
  ImageRead = 8
  ImageWords = 11
  ScriptRead = 6
  Programs <- MCPrograms
  Scripts <- MCScripts
  Word = 16
  Bases = {12, 40}
  BlockWords = 8
  Leftovers <- MCLeftovers
  MaxNested = 1
CHECK_DEADLOCK FALSE
INVARIANTS TypeOK ReadReturnsFile ImageIsRelocated ScriptLinesInOrder
PROPERTIES OpenDescriptorsKept  LoadsNamedFile
