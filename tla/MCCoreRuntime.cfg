SPECIFICATION FairSpec
CONSTANTS
  Writes = {w1, w2, w3, e1}
  WorkerWrites = {e1}
  NoWrite = NoWrite
  Waiters = {closer}
  Closer = closer
  Callers = {c1}
  WaitingCapacity = 2
INVARIANTS
  WaitersWaitForWork
  NoUseOutsideLifetime
  ClosedLeavesNothing
PROPERTIES
  AcceptedInOrder
  CloseEnds
  WritesAreAnswered
CHECK_DEADLOCK FALSE
