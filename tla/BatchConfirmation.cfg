SPECIFICATION FairSpec
CONSTANTS
  r1 = r1  r2 = r2  r3 = r3  n1 = n1  n2 = n2
  f1 = f1  f2 = f2  f3 = f3  f4 = f4  b1 = b1  b2 = b2  k1 = k1  k2 = k2
  Run = {r1, r2, r3}
  Node = {n1, n2}
  Finding = {f1, f2, f3, f4}
  Actionable = {f1, f2, f3}
  Batch = {b1, b2}
  Key = {k1, k2}
  NoRun = NoRun
  NodeOf <- MCNodeOf
  FindingOf <- MCFindingOf
  Request <- MCRequest
  MaxByName = 1
  MaxTrouble = 1
INVARIANTS
  ReceiptSound
PROPERTIES
  ReceiptsFrozen
  MembersSettle
CHECK_DEADLOCK FALSE
