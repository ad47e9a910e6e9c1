SPECIFICATION Spec
CONSTANTS
  RingSize = 2
  CounterRange = 4
  SeqRange = 4
  NoMsg = NoMsg
  MaxEchoes = 3
INVARIANTS
  EchoMatches
CHECK_DEADLOCK FALSE
