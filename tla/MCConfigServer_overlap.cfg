SPECIFICATION ServerSpec
CONSTANTS
  h1 = h1
  h2 = h2
  w1 = w1
  w2 = w2
  i1 = i1
  i2 = i2
  i3 = i3
  i4 = i4
  d1 = d1
  d2 = d2
  a = a
  a2 = a2
  b = b
  bad = bad
  None = None
  Configs <- AllConfigs
  Unsupported <- OnlyBad
  DirIn <- InDir
  Dirs <- TwoDirs
  DirOf <- PoolDir
  Insts <- SwapPool
  ConfigOf <- SwapOf
  MakeInsts <- SwapPool
  LegacyGCC <- SwapPool
  Contents <- SwapContents
  Loaders <- OneLoader
  Handlers <- TwoWorkers
  Menu <- RebuildMenu
SYMMETRY Workers
INVARIANT RegisteredBuildsIsolated
