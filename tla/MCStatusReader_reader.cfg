SPECIFICATION ReaderSpec
CONSTANTS
  h1 = h1
  h2 = h2
  r1 = r1
  cm = cm
  d1 = d1
  None = None
  Handlers <- TwoWorkers
  Insts <- CMakeOnly
  Dirs <- OneDir
  DirOf <- InOneDir
  MakeInsts <- NoInsts
  LegacyGCC <- CMakeOnly
  Menu <- WritersMenu
  Readers <- OneReader
SYMMETRY Workers
INVARIANTS ReaderTypeOK AgreesWithHealth TokenIsReal ExclusiveBuild DirtyBuildCleans NoLateProgress
PROPERTY ConfiguredForGood
