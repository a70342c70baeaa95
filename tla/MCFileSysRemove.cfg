SPECIFICATION Spec
CONSTANTS
  NULL = NULL
  NumSectors = 13
  SectorSize = 2
  NumDirect = 2
  NumDirEntries = 3
  Path <- Paths
  Data <- Writes
  Position = {1, 3}
  DirPath <- Directories
  PipeData <- PipeWrites
  Careful = FALSE
INVARIANTS ReservedSectorsKept
CHECK_DEADLOCK FALSE
