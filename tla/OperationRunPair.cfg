SPECIFICATION Spec
CONSTANTS
  r1 = r1
  r2 = r2
  w1 = w1
  w2 = w2
  NoRun = NoRun
  NStages = 1
  ExtraTransitions <- NoEdges
  Run = {r1, r2}
  Resource = {"target"}
  Targets <- Shared
  Barriers <- NoBarriers
  Handler = {w1}
  MaxCrashes = 1
  MaxAborts = 1
  MaxRenewalFailures = 1
SYMMETRY Symmetry
INVARIANTS
  MutualExclusion
PROPERTIES
  KeepsLeasePromise
CHECK_DEADLOCK FALSE
