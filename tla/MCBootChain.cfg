CONSTANTS
  InitHeaders <- MCInitHeaders
  ForeignHeaders <- MCForeignHeaders
  StagedHeaders <- MCStagedHeaders
  InitFiles <- MCInitFiles
  GapUsable = TRUE
  MaxFaults = 2
  MaxEdits = 1
SPECIFICATION FairSpec
INVARIANTS TypeOK HandoffChecked NoPendingWorkAtHandoff SealInputsValid ChainInv
PROPERTIES BankSelectionKept ModeSpec UpdateCompletes BootSettles
           BootProgress OnlyFaultsStopUpdate FactoryStays
