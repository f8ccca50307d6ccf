CONSTANTS
  p1 = p1
  p2 = p2
  p3 = p3
  m1 = m1
  m2 = m2
  Paths <- MCPaths
  Metas <- MCMetas
  NoPath = NoPath
  NoMeta = NoMeta
  MaxBacklog = 1
SPECIFICATION Spec
CHECK_DEADLOCK FALSE
INVARIANT DuplicateKeepsTorrent
