\* Refinement of ReliablePipe, with a close, a daemon that stops and loss.
CONSTANTS
  A = A
  B = B
  DataA = 1
  DataB = 0
  TailA = {}
  Stoppable = TRUE
  BothClose = FALSE
  MaxData <- MCMaxData
  RecvBufSize = 1
  MaxOOOBuf = 1
  MaxSegmentsOutstanding = 1
  Tails <- MCTail
  MaxRetxAttempts = 1
  MaxSACKBlocks = 4
  Closer = {c1}
  Closing <- MCClosing
  Stopping <- MCStopping
  Probing = TRUE
  Keep = FALSE
SPECIFICATION Spec
CHECK_DEADLOCK FALSE
PROPERTIES
  ImplementsPipe
