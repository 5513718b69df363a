SPECIFICATION RepairSpec
CONSTANTS
  File <- Names
  Legacy <- LegacyName
  NoValue = NoValue
  Initially = {"none", "0", "1"}
  MaxEdits = 2
  MaxFaults = 1
INVARIANTS
  RepairSound
PROPERTIES
  ReplacesAsPlanned
CHECK_DEADLOCK FALSE
