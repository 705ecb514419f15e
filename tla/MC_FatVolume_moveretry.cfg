\* One FAT sector holds the whole FAT #1 (8 clusters); device transfers
\* may fail.  Three files and a root directory of four slots reach a move
\* that failed after marking its source, followed by a create, a delete
\* and a retried move of the same node.
CONSTANTS
  EntriesPerSector = 8
  SectorsPerBuffer = 2
  SectorsPerFat = 1
  EOF = 9
  IoFail = TRUE
  Files <- MCFiles
  SlotsPerCluster = 4
  RootCluster = 2
  InitImage <- MCImage
  CacheBuffers = 3
  InitNodeResults = {TRUE}
  MaxLayout = 3
SPECIFICATION Spec
INVARIANT FilesOwnDisjointChains
