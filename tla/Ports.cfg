SPECIFICATION MCSpec
CONSTANTS
  d1 = d1  d2 = d2
  EphMin = 10  EphMax = 11
  ListenPort = {1, 10}
  Remote = {r1}
  Dialer = {d1, d2}
  Datagram = {g1}
  MaxPerPort = 2  MaxTotal = 4  AcceptQueueLen = 1
  AckIn = {"established"}
  MaxId = 2  MaxBind = 1
INVARIANTS PortsSound AcceptSound
PROPERTY MCReaped
