SPECIFICATION FairSpec
CONSTANTS
  LineKinds <- AllLines
  MaxLines = 2
PROPERTY TimeoutEndsRun
