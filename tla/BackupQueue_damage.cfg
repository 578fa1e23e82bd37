SPECIFICATION Spec
CONSTANTS
  NumArtifacts = 3
  NumBackups = 2
  KindOf <- MCRolling
  Limit <- MCLimit
  NumDevices = 1
  MaxLate = 0
  Faults = {"crash", "retire", "cipher", "sidecar"}
INVARIANTS
  QTypeOK
  SomethingRecoverable
PROPERTY ImplementsOffsiteBackup
