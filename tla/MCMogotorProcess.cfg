SPECIFICATION FairSpec
CONSTANTS
  Clients = {}
  Retention = 2
  MaxTime = 5
  MaxStarts = 2
INVARIANTS
  TypeOK
  StoredUntilClosed
PROPERTIES
  StopCompletes
  FeedsPage
CHECK_DEADLOCK FALSE
