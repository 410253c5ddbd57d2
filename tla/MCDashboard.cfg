SPECIFICATION DashboardSpec
CONSTANTS
  Retention = 1
  MaxTime = 2
  MaxStarts = 2
  Flights = {1, 2}
  ChartKeys = {"cpu", "memory"}
INVARIANTS
  ModalShowsHistory
PROPERTIES
  CardsGoBackExplained
  DashboardCatchesUp
CHECK_DEADLOCK FALSE
