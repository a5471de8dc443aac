SPECIFICATION RestoreSpec
CONSTANTS
  Mutations <- Catalogue
  Snapshots <- AnySnapshot
  ReplayCapacity = 2
  MaxSequence = 4
INVARIANTS
  SequencesStayFresh
  PagesPartitionTheLog
PROPERTY
  StaysRestorable
CHECK_DEADLOCK FALSE
