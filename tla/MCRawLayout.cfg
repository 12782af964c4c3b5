SPECIFICATION Spec
CONSTANTS
  LenW = 2
  Blk = 4
  Step = 8
  fsbl_sector = 16
  os_sector = 20
  bootsw_sector = 24
  ResLen = 8
  CertLen = 8
  ListLen = 4
  FileLens <- MCFileLens
  CertLens = {0, 3, 6, 8}
INVARIANTS TypeOK PartsKept BanksAligned ConfigRead CopyEdge GapRead
CHECK_DEADLOCK FALSE
