SPECIFICATION FairSpec
CONSTANTS
  QueueDepth = 2
  ExternalBudget = 0
PROPERTIES
  RepeatedFailureLocksDown
CHECK_DEADLOCK FALSE
