CONSTANTS
  Messages <- MCMessages
  SizeSpace = 8
  MaxTransfer = 3
  Capacity = 5
  Overlap = TRUE
  Faults = FALSE
  MaxWrites = 2
SPECIFICATION Spec
INVARIANT CompleteMessages
CHECK_DEADLOCK FALSE
