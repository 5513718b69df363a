SPECIFICATION Spec
CONSTANTS
  Node = {n1, n2}
  Plugin = {p1}
  Call = {c1, c2}
  NoNode = NoNode
  MaxCalls = 3
  MaxFaults = 1
SYMMETRY Symmetric
INVARIANTS
  RowsAgree
  ReportTruth
CHECK_DEADLOCK FALSE
