\* A two-page file of two-unit pages, three pool buffers (one holds the
\* bitmap), reads and writes of 1, 3, 4 and 5 units from offsets 0, 1 and 3,
\* device failures allowed.
CONSTANTS
  NumBuffers = 3
  Fd = Fd
  PageSize = 2
  Layout <- MCLayout
  ClusterLba = 4
  DiskSectors = 8
  Starts = {0, 1, 3}
  Counts = {1, 3, 4, 5}
  SyncArgs <- MCSyncArgs
  IoFail = TRUE
SPECIFICATION Spec
INVARIANTS TypeOK CacheBuffersOwned
