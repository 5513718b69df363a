SPECIFICATION FairSpec
CONSTANTS
  NStages = 1
  ExtraTransitions = {}
  Run = {r1, r2}
  Base = base
  MaxFailures = 2
INVARIANTS
  EndIsBacked
PROPERTIES
  ReturnsTheLease
CHECK_DEADLOCK FALSE
