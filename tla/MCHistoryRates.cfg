SPECIFICATION Spec
CONSTANTS
  Retention = 2
  Milli = 2
  Skews <- OffClock
  Traffic = {0, 1}
  ReadMayFail = FALSE
  LegacyStamps = {}
  MaxTime = 3
  MaxStarts = 2
INVARIANTS
  TypeOK
  RateWithinTraffic
  Chronological
  SteadyRate
PROPERTIES
  OwnKept
