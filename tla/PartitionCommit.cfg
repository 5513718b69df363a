CONSTANTS
  r1 = r1
  r2 = r2
  Replicas = {r1, r2}
  MaxFaults = 2
  MaxCrashes = 1
  MaxInserts = 1
SPECIFICATION Spec
INVARIANTS
  CommitSafe
  LedgerTells
PROPERTIES
  CommitPromise
CHECK_DEADLOCK FALSE
