CONSTANTS
  NumBuffers = 4
  Gfds <- MCGfds
  Pages <- MCPages
SPECIFICATION Spec
INVARIANTS
  TypeOK
  BufferOwnership
