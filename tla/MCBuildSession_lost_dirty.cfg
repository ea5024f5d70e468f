SPECIFICATION Spec
CONSTANTS
  h1 = h1
  h2 = h2
  cm = cm
  mk = mk
  d1 = d1
  d2 = d2
  None = None
  Handlers <- TwoWorkers
  Insts <- CMakeOnly
  Dirs <- OneDir
  DirOf <- InOneDir
  MakeInsts <- NoInsts
  LegacyGCC <- NoInsts
  Menu <- ToolsMenu
INVARIANT KilledBuildRemembered
