SPECIFICATION FairSpec
CONSTANTS
  LineKinds <- AllLines
  MaxLines = 3
INVARIANTS TypeOK KillReported OutputComplete PanicIsForeign FinalDelivered
PROPERTY TimeoutEndsRunOrOverflow
