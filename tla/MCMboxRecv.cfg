SPECIFICATION FairSpec
CONSTANTS
  RingSize = 2
  CounterRange = 8
  Msg = {m1, m2}
  NoMsg = NoMsg
  MaxRestarts = 1
INVARIANTS
  TypeOK
  RingIsBounded
  NoTornCopy
PROPERTIES
  ImplementsFifo
  MessageIsTaken
