SPECIFICATION MCSpec
CHECK_DEADLOCK FALSE
CONSTANTS
  Question = "all"
  Writer = {"a", "b"}
  Flusher = {"f", "g"}
  Seg = 2  Piece = 4  MaxBuf = 5
  Slots = 3  CongWin = 3  Probes = 2
  Scenarios <- SScenarios
INVARIANTS IpcSound SenderSound DaemonsSound    LogsSound
PROPERTIES  HostSettles
