CONSTANTS
  A = A
  B = B
  DataA = 2
  DataB = 0
  TailA = {2}
  Stoppable = FALSE
  BothClose = FALSE
  MaxData <- MCMaxData
  RecvBufSize = 1
  MaxOOOBuf = 2
  MaxSegmentsOutstanding = 1
  Tails <- MCTail
  MaxRetxAttempts = 1
  MaxSACKBlocks = 4
  Closer = {c1}
  Closing <- MCClosing
  Stopping <- MCStopping
  Probing = FALSE
  Keep = TRUE
SPECIFICATION Spec
CHECK_DEADLOCK FALSE
INVARIANTS
  TypeOK
  AckedWasDelivered
  SackedIsHeld
  InOrder
  CleanEnd
  SeqNotShared
