\* One FAT sector holds the whole FAT #1 (8 clusters), as on a volume of
\* fewer than 128 clusters; device transfers may fail.  Two files and a
\* root directory of three slots keep the failure interleavings in reach.
CONSTANTS
  EntriesPerSector = 8
  SectorsPerBuffer = 2
  SectorsPerFat = 1
  EOF = 9
  IoFail = TRUE
  Files <- MCFilesTwo
  SlotsPerCluster = 3
  RootCluster = 2
  InitImage <- MCImage
  CacheBuffers = 3
  InitNodeResults = {TRUE}
  MaxLayout = 3
SPECIFICATION Spec
INVARIANT TypeOK
