CONSTANTS
  a = a
  b = b
  Node <- TwoNodes
  BlackholeMissesRequired = 2
  DirectClearsRequired = 2
  SendErrThreshold = 1
  pathProbeMax = 1
  DialDirectRetries = 1
  DialMaxRetries = 2
  Scenarios <- All
SPECIFICATION FairSpec
INVARIANT PathsSound
PROPERTY DirectRecovers
PROPERTY OneEndLeaves
PROPERTY NothingLingers
CHECK_DEADLOCK FALSE
