CONSTANTS
  NumFiles = 3
  First <- MCFirst
  Last <- MCLast
  Bytes <- MCBytes
  PieceLength = 2
  MaxPartial = 0
  Window <- MCWindow
SPECIFICATION Spec
CHECK_DEADLOCK FALSE
INVARIANT SequentialBytes
