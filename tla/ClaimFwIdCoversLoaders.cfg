SPECIFICATION Spec
CONSTANTS
  Chars <- MCChars
  Sites <- MCSites
  MaxBoots = 2
  MaxFaults = 2
INVARIANT FwIdCoversLoaders
CHECK_DEADLOCK FALSE
