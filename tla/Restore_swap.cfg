SPECIFICATION FairSpec
CONSTANTS
  Script = {s1, s2}
  Nobody = nobody
  App = app
  Recovery = recovery
  Faults = {"error", "cancel", "kill", "power"}
  MaxFaults = 3
  MaxContent = 4
INVARIANTS
  RTypeOK
  StartsWhole
  OldKept
  IncidentRecoverable
  PlaintextResolved
PROPERTY RecoveryConverges
CHECK_DEADLOCK FALSE
