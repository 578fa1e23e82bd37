SPECIFICATION Spec
CONSTANTS
  NumBackups = 3
  Artifact = {a1, a2}
  Lane = {rolling}
  LaneOf <- MCLaneOf
  Keep <- MCKeep
  PendingMaxAge = 1
  ReservationTtl = 1
  CleanupLimit = 1
  PendingCleanupLimit = 1
  Request = {r1, r2}
  Pruner = pruner
  Nobody = nobody
  NoArtifact = none
  Faults = {"crash"}
  MaxTime = 3
  MaxDetached = 2
SYMMETRY Symmetries
INVARIANTS
  TypeOK
  RecoverableHasObject
  ObjectTracked
  UnfinishedBounded
  NewestKept
  WindowKept
PROPERTIES
  ImplementsContract
