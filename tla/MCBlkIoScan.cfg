SPECIFICATION FairSpec
CONSTANTS
  MaxHandles = 4
  Lba0 <- MCLba0
  Raw <- MCRaw
  Zeroed = "zeroed"
INVARIANTS TypeOK ScanInv ScanSound FailureIsForeign
PROPERTIES ScanEnds SearchSpec ScanProgress
CHECK_DEADLOCK FALSE
