SPECIFICATION SSpec
CONSTANTS
  Actors = {"manual", "status", "crash"}
  DaysPerMonth = 2
  MaxDay = 3
  MaxMade = 2
INVARIANTS
  STypeOK
  NoPeriodSkipped
  OnlyLossDuplicates
