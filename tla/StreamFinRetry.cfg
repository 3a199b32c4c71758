\* The FIN of a closed connection and the loop that retries it.
CONSTANTS
  A = A
  B = B
  DataA = 1
  DataB = 0
  TailA = {}
  Stoppable = FALSE
  BothClose = FALSE
  MaxData <- MCMaxData
  RecvBufSize = 1
  MaxOOOBuf = 1
  MaxSegmentsOutstanding = 1
  Tails <- MCTail
  MaxRetxAttempts = 2
  MaxSACKBlocks = 4
  Closer = {c1}
  Closing <- MCClosing
  Stopping <- MCStopping
  Probing = FALSE
  Keep = TRUE
SPECIFICATION Spec
CHECK_DEADLOCK FALSE
INVARIANT FinIsRetried
