\* Rings of three descriptors; the first send races the transmitter
\* running over the empty ring.
CONSTANTS
  NumRx = 3
  NumTx = 3
  MaxPackets = 3
  MaxSends = 2
SPECIFICATION Spec
CHECK_DEADLOCK FALSE
PROPERTY SendReturns
