SPECIFICATION Spec
CONSTANTS
  good = good
  other = other
  broken = broken
  rootless = rootless
  small = small
  t1 = t1
  t2 = t2
  NoConfig = NoConfig
  Threads <- MCThreads
  Configs <- MCConfigs
  Parsable <- MCParsable
  Given <- MCGiven
  Directories <- MCDirectories
  IntWorkaround = TRUE
  Uses <- MCUses
  MaxMade = 3
  MaxErrors = 1
SYMMETRY ThreadSymmetry
INVARIANTS
  TypeOK
  NumbersAreOwn
  ClosedIsQuiet
  OneAtATimeServed
PROPERTIES
  OwnEffects
CHECK_DEADLOCK FALSE
