\* One FAT sector holds the whole FAT #1 (8 clusters), as on a volume of
\* fewer than 128 clusters; no device or cache failures.
CONSTANTS
  EntriesPerSector = 8
  SectorsPerBuffer = 2
  SectorsPerFat = 1
  EOF = 9
  IoFail = FALSE
  Files <- MCFiles
  SlotsPerCluster = 4
  RootCluster = 2
  InitImage <- MCImage
  CacheBuffers = 3
  InitNodeResults = {TRUE}
  MaxLayout = 3
SPECIFICATION Spec
INVARIANTS
  FilesOwnDisjointChains
  NoLeakedCluster
  DirectoryWellFormed
