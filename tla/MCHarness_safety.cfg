CONSTANTS
  Messages = {m1, m2, m3}
  MaxSteps = 2
  StepCap = 1
  MaxCalls = 2
SPECIFICATION FairSpec
INVARIANTS NoStrandedWake EveryMessageAccountedFor
PROPERTIES NoAcceptanceAfterAbort ImplementsContract DisposalReachesIdle PendingRequestIsServed RetainedInputDoesNotSpin
CHECK_DEADLOCK FALSE
