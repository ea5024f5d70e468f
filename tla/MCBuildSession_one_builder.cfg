SPECIFICATION Spec
CONSTANTS
  h1 = h1
  h2 = h2
  cm = cm
  mk = mk
  d1 = d1
  d2 = d2
  None = None
  Handlers <- TwoWorkers
  Insts <- BothInsts
  Dirs <- TwoDirs
  DirOf <- InTwoDirs
  MakeInsts <- MakeOnly
  LegacyGCC <- BothInsts
  Menu <- OneBuilderMenu
INVARIANTS TypeOK KilledBuildRemembered
PROPERTY ImplementsContract
