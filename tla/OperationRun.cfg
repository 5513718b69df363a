SPECIFICATION Spec
CONSTANTS
  r1 = r1
  r2 = r2
  w1 = w1
  w2 = w2
  NoRun = NoRun
  NStages = 3
  ExtraTransitions <- StageEdges
  Run = {r1}
  Resource = {"target"}
  Targets <- Shared
  Barriers <- SecondStage
  Handler = {w1, w2}
  MaxCrashes = 1
  MaxAborts = 1
  MaxRenewalFailures = 1
SYMMETRY Symmetry
INVARIANTS
  TypeOK
  JournalAgrees
  OneLiveAction
  NoApplyAfterCancel
  Containment
  RollbackOrder
  TerminalTruth
  LeaseGivenBack
PROPERTIES
  TerminalIsFinal
  NoReplay
CHECK_DEADLOCK FALSE
