SPECIFICATION Spec
CONSTANTS
  Retention = 2
  Milli = 2
  Skews <- RightClock
  Traffic = {0, 1}
  ReadMayFail = TRUE
  LegacyStamps = {}
  MaxTime = 3
  MaxStarts = 1
INVARIANTS
  RateWithinTraffic
