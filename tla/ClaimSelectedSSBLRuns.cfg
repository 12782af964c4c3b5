CONSTANTS
  InitHeaders <- MCInitHeaders
  ForeignHeaders <- MCForeignHeaders
  StagedHeaders <- MCStagedHeaders
  InitFiles <- MCInitFiles
  GapUsable = TRUE
  MaxFaults = 2
  MaxEdits = 1
SPECIFICATION Spec
INVARIANT SelectedSSBLRuns
