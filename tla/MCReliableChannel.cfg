CONSTANTS
  HalfRange = 8
  Window = 2
  MaxRetransmits = 1
  AckBatch = 2
  MaxMsgs = 3
  MaxOpen = 3
SPECIFICATION FairSpec
CHECK_DEADLOCK FALSE
INVARIANTS
  TypeOK
  AtMostOnce
  AckedWasDelivered
  OldestAccepted
PROPERTIES
  ImplementsDelivery
  Settled
