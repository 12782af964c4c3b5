SPECIFICATION Spec
CONSTANTS
  Chars <- MCChars
  Sites <- MCSites
  MaxBoots = 2
  MaxFaults = 2
INVARIANTS OsidBinds MigidBinds
CHECK_DEADLOCK FALSE
