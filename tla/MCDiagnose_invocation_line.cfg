SPECIFICATION DiagnoseSpec
CONSTANTS
  a = a
  b = b
  none = none
  None <- none
  Units <- TwoUnits
  Diagnostics <- AllDiagnostics
  Setups <- ManySetups
  Works <- ManyWorks
  Reconfigs <- ManyReconfigs
INVARIANT FailureExplained
CHECK_DEADLOCK FALSE
