SPECIFICATION FairSpec
CONSTANTS
  NumArtifacts = 2
  NumBackups = 3
  KindOf <- MCMixed
  Limit <- MCLimitOne
  NumDevices = 2
  MaxLate = 1
  Faults = {"crash", "revoke"}
INVARIANT NoSecondObject
PROPERTIES
  ImplementsOffsiteBackup
  QueueDrains
