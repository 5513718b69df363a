SPECIFICATION SettingSpec
CONSTANTS
  r1 = r1
  r2 = r2
  c1 = c1
  c2 = c2
  NoRun = NoRun
  Run = {r1, r2}
  Resource = {"target"}
  Targets <- Shared
  Caller = {c1, c2}
  TTL = 2
  MaxStarts = 3
  MaxCrashes = 1
  MaxFaults = 1
INVARIANT
  HealthyIsRenewed
PROPERTIES
  KeepsPromise
  NothingComesBack
  NobodysLeaseLapses
  ReleaseEnds
CHECK_DEADLOCK FALSE
