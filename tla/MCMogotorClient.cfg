SPECIFICATION Spec
CONSTANTS
  Clients = {monitor}
  Retention = 2
  MaxTime = 4
  MaxStarts = 1
INVARIANTS
  HealthNotOverstated
PROPERTIES
  ChartShowsCard
CHECK_DEADLOCK FALSE
