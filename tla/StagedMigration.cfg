CONSTANTS
  MaxCalls = 5
  MaxFaults = 2
  MaxCrashes = 2
  MaxWrites = 2
SPECIFICATION Spec
INVARIANTS
  DataKept
  LedgerSound
PROPERTIES
  MigrationPromise
CHECK_DEADLOCK FALSE
