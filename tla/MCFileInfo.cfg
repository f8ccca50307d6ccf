CONSTANTS
  NumFiles = 3
  First <- MCFirst
  Last <- MCLast
  Bytes <- MCBytes
  PieceLength = 2
  MaxPartial = 0
  Window <- MCWindow
SPECIFICATION FairSpec
CHECK_DEADLOCK FALSE
INVARIANTS
  TypeOK
  NeverPastEnd
  CountsTrue
PROPERTIES
  PublishedGrows
  WholeAnnounced
