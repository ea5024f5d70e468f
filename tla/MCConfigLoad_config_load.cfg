SPECIFICATION LoadSpec
CONSTANTS
  absent = absent
  broken = broken
  malformed = malformed
  Absent <- absent
  Broken <- broken
  Malformed <- malformed
  Cases <- AllCases
  Rank <- Alphabetical
  Mentions <- Compilers
INVARIANTS LoadTypeOK InheritedValues CircularExact LoadGuarantee Precedence RelativeDirsApart
PROPERTY LoadEnds
CHECK_DEADLOCK FALSE
