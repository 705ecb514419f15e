\* A one-unit read fills a buffer, then sync writes it back.
CONSTANTS
  NumBuffers = 3
  Fd = Fd
  PageSize = 2
  Layout <- MCLayout
  ClusterLba = 4
  DiskSectors = 8
  Starts = {0}
  Counts = {1}
  SyncArgs <- MCSyncArgs
  IoFail = FALSE
SPECIFICATION Spec
INVARIANT DiskOutsideFileIntact
