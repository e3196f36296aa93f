SPECIFICATION FairSpec
CONSTANTS
  m1 = m1
  m2 = m2
  Messages <- MCMessages
  First <- MCFirst
  Workers = {w1}
  NoWorker = NoWorker
  Limit = 1
  MaxAttempts = 2
  Disturbances = 1
INVARIANTS
  AutomaticRunIsBounded
PROPERTIES
  SupersededIsNotSent
  JobsEnd
CHECK_DEADLOCK FALSE
