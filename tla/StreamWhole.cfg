CONSTANTS
  Messages <- MCMessages
  SizeSpace = 8
  MaxTransfer = 3
  Capacity = 5
  Overlap = FALSE
  Faults = TRUE
  MaxWrites = 3
SPECIFICATION FairSpec
INVARIANT TypeOK
INVARIANT CompleteMessages
PROPERTY AllDelivered
CHECK_DEADLOCK FALSE
