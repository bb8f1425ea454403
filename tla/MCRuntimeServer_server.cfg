SPECIFICATION ServerSpec
CONSTANTS
    d1 = d1
    d2 = d2
    Daemons = {d1, d2}
    LATEST_SCHEMA_VERSION = 3
    Archives = 3
    FileLimit = 1
    Conns = {1, 2, 3}
    MaxConnections = 2
    Budgets <- MCBudgets
CHECK_DEADLOCK FALSE
INVARIANTS
  ServersHold
  FilesSurviveCrashes
PROPERTIES
  EveryConnectionEnds
  ShutdownCompletes
