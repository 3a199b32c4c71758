CONSTANTS
  A = A
  B = B
  MaxData <- OneSegment
  RecvBufSize = 1
  MaxOOOBuf = 2
  MaxSegmentsOutstanding = 2
  Tails <- NoTail
  MaxRetxAttempts = 1
  MaxSACKBlocks = 4
  Closer = {c1}
  Closing <- OnlyA
  Stopping <- None
  Probing = FALSE
  Keep = FALSE
SPECIFICATION MCSpec
CHECK_DEADLOCK FALSE
INVARIANTS
  NoFinAckStorm
  MCReorderRoom
PROPERTIES
  MCWrittenArrives
  MCHeldFinEnds
