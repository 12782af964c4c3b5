SPECIFICATION BootSpec
CONSTANTS
  N = 3
  Volumes <- MCVolumes
  OldLens = {0, 3}
  ImgLen = 2
  Tails = {0, 1, 3, 5}
  Word = 16
  MaxFaults = 2
INVARIANTS TypeOK VerifiedIsSigned LoadContract CopyContract StartContract
PROPERTIES FilesProgress ServiceSpec
CHECK_DEADLOCK FALSE
