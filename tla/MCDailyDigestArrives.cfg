SPECIFICATION FairSpec
CONSTANTS
  Hours = 3
  DailyHour = 1
  Enabled = TRUE
  MayGoBack = TRUE
  MaxDay = 2
  MaxSlips = 2
  MaxDigests = 9
INVARIANTS
  MarkedWasReceived
PROPERTIES
  LastDayArrives
