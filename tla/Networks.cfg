SPECIFICATION MCSpec
CHECK_DEADLOCK FALSE
CONSTANTS
  Question = "all"
 
PROPERTIES NetworksSteps NetworksSettle
