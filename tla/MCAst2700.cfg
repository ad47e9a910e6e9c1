SPECIFICATION Spec
CONSTANTS
  Attempts = 2
  MaxResets = 1
  AsthOffset = 2
  AsthSize = 1
  HeaderOffset = 7
  HeaderSize = 1
  PayloadOffset <- MCPayloadOffset
  PrebuiltAlign = 2
  ImageAlign = 8
  U32 = 1073741824
  Builds <- MCBuilds
  FlashOffset <- MCPayloadOffset
  WindowSize <- MCWindowSize
  FlowStatus = 1073741823
  BootStatus = 1073741823
  Requests <- MCRequests
  MaxRequests = 2
  MailSlots = 4
  QueueSlots = 7
INVARIANTS
  TypeOK
  SecureReleaseIsGated
  RunningCoresAreLoaded
  RunsWhatWasBuilt
  RepliesInOrder
PROPERTIES
  WindowsAreLeftAlone
  RequestsAreAnswered
  BoardSettles
CHECK_DEADLOCK FALSE
