SPECIFICATION Spec
CONSTANTS
  Options <- MCOptions
  Files <- MCFiles
  MinFile = 2
  MaxPayload = 4
  HeaderBytes = 1
  WireDepth = 3
  MaxCycles = 1
INVARIANTS
  TypeOK
  ImagesArriveWhole
PROPERTIES
  LoaderEnds
