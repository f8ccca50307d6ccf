CONSTANTS
  w1 = w1
  w2 = w2
  t1 = t1
  QueueSize = 2
  MaxConnections = 3
  Workers <- MCWorkers
  Waiters <- MCWaiters
SPECIFICATION FairSpec
CHECK_DEADLOCK FALSE
INVARIANTS
  QuietAfterStop
  AcceptedKept
  AnsweredOwn
PROPERTIES
  IdleStopReturns
