SPECIFICATION MCSpec
CHECK_DEADLOCK FALSE
CONSTANTS
  Reader = {r1, r2}
  W = 3
  MaxNonce = 4
  MaxFault = 1
INVARIANTS AtMostOnce ReplaySound NothingLost NoRestartLoop ControlSound
PROPERTIES ControlSteps ControlSettles
