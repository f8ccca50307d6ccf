CONSTANTS
  r1 = r1
  r2 = r2
  Receivers <- MCReceivers
  NoRecv = NoRecv
  MaxNotifications = 1
  MaxSent = 3
SPECIFICATION FairSpec
INVARIANTS
  TypeOK
  NothingLost
  NoThreadAfterRemoval
PROPERTIES
  AcceptedIsDelivered
  RemovalReturns
  ImplementsMailboxes
