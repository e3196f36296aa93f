SPECIFICATION FairSpec
CONSTANTS
  Entries = {e1}
  Profiles = {p1, p2}
  NoProfile = NoProfile
  Workers = {k1, k2}
  Leases = {l1, l2, l3}
  NoLease = NoLease
  Revisions = 2
  Generations = 2
  MaxAttempts = 2
  MaxJobs = 1
INVARIANTS
  CurrentOrQueued
  ForgottenTextIsGone
PROPERTIES
  QueuedJobIsTried
CHECK_DEADLOCK FALSE
