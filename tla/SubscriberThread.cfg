CONSTANTS
  MaxRows = 2
  Batch = 2
  MaxIds = 4
  MaxSessions = 2
  MaxStrays = 1
SPECIFICATION FairSpec
INVARIANTS
  RowsAreNewest
  GapsFlagged
  RateOfBatch
  ScreenAgrees
PROPERTIES
  EverythingShown
  SubscriberEnds
