SPECIFICATION Spec
CONSTANTS
  Retention = 2
  Milli = 2
  Skews <- RightClock
  Traffic = {0}
  ReadMayFail = FALSE
  LegacyStamps <- LegacyFile
  MaxTime = 5
  MaxStarts = 2
INVARIANTS
  Recoverable
  ServesStored
PROPERTIES
  TrimExact
  LogRetained
