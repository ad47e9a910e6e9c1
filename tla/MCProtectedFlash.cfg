SPECIFICATION Spec
CONSTANTS
  WordMax = 63
  Block = 8
  TableBlocks = 3
  EraseUnits <- MCEraseUnits
  FlashSize = 32
  Page = 2
  Sector = 4
  ImageBuf = 3
  DigestBuf = 64
  MinimumSvn = 1
  MaxAlarms = 1
  MaxWrites = 1
  Manifests <- MCManifests
  SlotTables <- MCSlotTables
INVARIANTS
  TypeOK
  VerifiedImagesStayIntact
  BackendIsExact
