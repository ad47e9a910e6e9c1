SPECIFICATION FairSpec
CONSTANTS
  QueueDepth = 4
  ExternalBudget = 3
INVARIANTS
  NeverBlocked
PROPERTIES
  RecoverLeadsToVerify
  SettlesInMonitor
CHECK_DEADLOCK FALSE
