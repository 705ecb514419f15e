\* Two threads, three buffers (the last holds the bitmap), no lock: the
\* calls interleave as the source allows.
CONSTANTS
  NumBuffers = 3
  Threads = {t1, t2}
SPECIFICATION Spec
INVARIANT ExclusiveReservation
