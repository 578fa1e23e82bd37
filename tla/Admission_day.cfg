SPECIFICATION Spec
CONSTANTS
  Device = {"pc","pc2"}
  Item = {"d1","r2"}
  ClassOf <- MCClassOf
  SizeOf <- MCSizeOf
  MinInterval <- MCMinInterval
  MaxPending = 2
  Quota = 2
  Day = 3
  Capacity = 2
  Refill = 2
  CleanupLimit = 1
  NumRows = 2
  NumCharges = 5
  MaxTime = 6
INVARIANTS
  TypeOK
  CadenceKept
  QuotaKept
  LedgerBounded
  RefusalsAreFree
PROPERTY BucketsKept
CHECK_DEADLOCK FALSE
