SPECIFICATION MCSpec
CHECK_DEADLOCK FALSE
CONSTANTS
  Question = "policy"
PROPERTY FailClosed
