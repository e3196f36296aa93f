SPECIFICATION Spec
CONSTANTS
  p1 = p1
  p2 = p2
  root = root
  child = child
  Procs = {p1, p2}
  Nodes = {root, child}
  Root = root
  None = None
  Gone = Gone
  Outcomes = {"accepted"}
  Concurrent = 1
  MaxJobs = 2
  Estimate = 1
  Actual = 1
  MaxTokens = 2
  MaxUser = 1
  MaxTrouble = 1
INVARIANTS UsageIsConserved AcceptedMeetsAllConstraints
PROPERTIES UnknownIsNotResent
CHECK_DEADLOCK FALSE
SYMMETRY MCSymmetry
