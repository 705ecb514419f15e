\* Rings of three descriptors and up to three packets; two packets stored
\* before the interrupt is serviced.
CONSTANTS
  NumRx = 3
  NumTx = 3
  MaxPackets = 3
  MaxSends = 2
SPECIFICATION Spec
CHECK_DEADLOCK FALSE
PROPERTY RxDelivered
