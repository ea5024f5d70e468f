SPECIFICATION ReadToolsSpec
CONSTANTS
  f = f
  g = g
  gone = gone
  Gone <- gone
  Sources <- TwoFiles
  Contents <- ThreeContents
  Goals <- AllOrOne
  MaxClock = 3
SYMMETRY Files
INVARIANTS ReadToolsTypeOK QueryTells FixShowsLine PanicNeedsShrink
CHECK_DEADLOCK FALSE
