SPECIFICATION FairSpec
CONSTANTS
  NumBackups = 2
  Artifact = {a1}
  Lane = {rolling}
  LaneOf <- MCLaneOf
  Keep <- MCKeep
  PendingMaxAge = 1
  ReservationTtl = 1
  CleanupLimit = 1
  PendingCleanupLimit = 1
  Request = {r1, r2}
  Pruner = pruner
  Nobody = nobody
  NoArtifact = none
  Faults = {"abort", "crash"}
  MaxTime = 3
  MaxDetached = 1
INVARIANTS
  ObjectTracked
PROPERTY ClaimsFinish
