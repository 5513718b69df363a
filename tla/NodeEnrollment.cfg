SPECIFICATION Spec
CONSTANTS
  Apply = {a1}
  Cli = cli
  None = None
  MaxCreds = 4
  MaxFaults = 2
  MaxActs = 3
INVARIANTS
  CredentialTruth
  ApplyKeepsItsWord
PROPERTIES
  RetiredForGood
CHECK_DEADLOCK FALSE
