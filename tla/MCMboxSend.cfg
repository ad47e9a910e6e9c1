SPECIFICATION FairSpec
CONSTANTS
  RingSize = 2
  CounterRange = 4
  Sender = {s1, s2}
  Printer = {p}
  Msg = {m}
  NoMsg = NoMsg
  SeqRange = 4
  MaxCalls = 5
INVARIANTS
  TypeOK
  RingIsBounded
PROPERTIES
  ImplementsFifo
  MessageReachesArm
  CallEnds
CHECK_DEADLOCK FALSE
