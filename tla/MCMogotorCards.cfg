SPECIFICATION Spec
CONSTANTS
  Clients = {}
  Retention = 2
  MaxTime = 3
  MaxStarts = 1
INVARIANTS
  CardsHaveRates
CHECK_DEADLOCK FALSE
