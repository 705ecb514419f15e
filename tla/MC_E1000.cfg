\* Rings of three descriptors, up to three packets from the wire and two
\* sends.  When the bounded traffic is over the system is quiet, which is a
\* final state, not a deadlock.
CONSTANTS
  NumRx = 3
  NumTx = 3
  MaxPackets = 3
  MaxSends = 2
SPECIFICATION Spec
CHECK_DEADLOCK FALSE
INVARIANTS
  TypeOK
