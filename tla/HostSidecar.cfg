SPECIFICATION MCSpec
CHECK_DEADLOCK FALSE
CONSTANTS
  Question = "sidecar"
  Writer = {"a", "b"}
  Flusher = {"f", "g"}
  Seg = 2  Piece = 4  MaxBuf = 5
  Slots = 3  CongWin = 3  Probes = 2
  Scenarios <- SScenarios
PROPERTY StateFollows
