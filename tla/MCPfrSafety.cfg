SPECIFICATION Spec
CONSTANTS
  QueueDepth = 5
  ExternalBudget = 8
INVARIANTS
  TypeOK
  ReasonMatchesState
  ReleaseIsVerified
  ChannelInv
  LinesInOrder
  WorkIsBounded
PROPERTIES
  HandoverIsFiltered
  ImplementsLifecycle
CHECK_DEADLOCK FALSE
