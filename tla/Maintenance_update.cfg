SPECIFICATION FairSpec
CONSTANTS
  Proc = {p1, p2}
  None = none
  NumLeases = 2
INVARIANTS
  MTypeOK
  UpdateSnapshotCurrent
  ImportRecoverable
PROPERTY EveryCommandEnds
