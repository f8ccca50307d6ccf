SPECIFICATION RunSpec
CONSTANTS
  f1 = f1
  f2 = f2
  r1 = r1
  r2 = r2
  Files <- FilesMC
  Bytes <- BytesMC
  Excess = 1
  Readers <- MCRequests
  MaxNotifications = 1
  NoFile = NoFile
  Requests <- MCRequests
  Ranges <- MCRanges
  FileSize = 3
  ChunkSize = 2
INVARIANTS
  BufferIsTrue
  StreamTypeOK
  SubscribersKnow
  RangeIsReady
  OkIsComplete
PROPERTIES
  BufferGrows
  AnnouncedArrives
  AnnouncedWakes
CHECK_DEADLOCK FALSE
