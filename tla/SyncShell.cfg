SPECIFICATION FairSpec
CONSTANTS
  Mutations <- Catalogue
  Devices = {d1, d2}
  PageLimit = 1
  MaxCrashes = 1
  ReplayCapacity = 1
  MaxSequence = 3
INVARIANTS
  AckedIsDurable
  CursorWithinServer
  SeenIsLogPrefix
  RetriedOnce
PROPERTY
  CatchUp
