SPECIFICATION FairSpec
CONSTANTS
  h1 = h1
  h2 = h2
  cm = cm
  mk = mk
  d1 = d1
  d2 = d2
  None = None
  Handlers <- TwoWorkers
  Insts <- MakeOnly
  Dirs <- OneDir
  DirOf <- InOneDir
  MakeInsts <- MakeOnly
  LegacyGCC <- MakeOnly
  Menu <- ToolsMenu
PROPERTY BuildFinishes
