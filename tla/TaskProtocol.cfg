SPECIFICATION FairSpec
CONSTANTS
  Task = {1, 2, 3}
  Kind <- Mixed
  Reconnecting = {3}
  MaxCrashes = 1
  MaxLosses = 2
  MaxLate = 1
INVARIANTS
  RebootProved
PROPERTIES
  KeepsPromise
  TasksSettle
CHECK_DEADLOCK FALSE
