\* A read of two whole pages: the loop over intermediate pages runs once.
CONSTANTS
  NumBuffers = 3
  Fd = Fd
  PageSize = 2
  Layout <- MCLayout
  ClusterLba = 4
  DiskSectors = 8
  Starts = {0}
  Counts = {1, 4}
  SyncArgs <- MCSyncArgs
  IoFail = FALSE
SPECIFICATION Spec
INVARIANT TransferCorrect
