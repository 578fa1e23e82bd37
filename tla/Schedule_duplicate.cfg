SPECIFICATION SSpec
CONSTANTS
  Actors = {"status"}
  DaysPerMonth = 2
  MaxDay = 3
  MaxMade = 2
INVARIANT OnePerPeriod
