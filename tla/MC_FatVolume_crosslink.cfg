\* Two entries per sector, four FAT sectors: FAT #1 spans several sectors,
\* as on any volume of 128 clusters or more; no device failures.
CONSTANTS
  EntriesPerSector = 2
  SectorsPerBuffer = 2
  SectorsPerFat = 4
  EOF = 9
  IoFail = FALSE
  Files <- MCFiles
  SlotsPerCluster = 4
  RootCluster = 2
  InitImage <- MCImage
  CacheBuffers = 3
  InitNodeResults = {TRUE}
  MaxLayout = 3
SPECIFICATION Spec
INVARIANT FilesOwnDisjointChains
