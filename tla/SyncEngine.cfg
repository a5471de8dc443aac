SPECIFICATION Spec
CONSTANTS
  Mutations <- Catalogue
  ReplayCapacity = 2
  MaxSequence = 5
INVARIANTS
  EngineTypeOK
  ReplayWindow
  ReplyNamesItsEntry
  NoResurrection
  SnapshotRestores
PROPERTY
  LastWriterWins
