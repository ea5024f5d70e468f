SPECIFICATION DiagnoseSpec
CONSTANTS
  a = a
  b = b
  none = none
  None <- none
  Units <- TwoUnits
  Diagnostics <- AllDiagnostics
  Setups <- ManySetups
  Works <- ManyWorks
  Reconfigs <- ManyReconfigs
INVARIANTS DiagnoseTypeOK NoneLost ReconfigureExplained NothingInvented QuietFailureExplained
CHECK_DEADLOCK FALSE
