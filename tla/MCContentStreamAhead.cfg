CONSTANTS
  r1 = r1
  r2 = r2
  Requests <- MCRequests
  Ranges <- MCRanges
  FileSize = 3
  ChunkSize = 2
SPECIFICATION StreamSpec
CHECK_DEADLOCK FALSE
INVARIANT OnlyAvaliableSent
