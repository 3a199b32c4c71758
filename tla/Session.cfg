CONSTANTS
  a = a
  b = b
  Node <- TwoNodes
  MaxKey <- BRestarts
  MaxRekeyAttempts = 2
  DropThreshold = 1
  SalvageMaxEntries = 1
  maxPendingPerPeer = 1
  pendingMaxAge = 1
  SendBound <- OneSender
  Echoed <- FirstCopied
  MaxFaults = 2
SPECIFICATION FairSpec
INVARIANT SessionSound
CHECK_DEADLOCK FALSE
PROPERTY SessionComes NoKeyExchangeStorm
