SPECIFICATION Spec
CONSTANTS
  Hours = 3
  DailyHour = 1
  Enabled = TRUE
  MayGoBack = FALSE
  MaxDay = 2
  MaxSlips = 3
  MaxDigests = 6
INVARIANTS
  TypeOK
  RepeatsExplained
PROPERTIES
  PromiseKept
