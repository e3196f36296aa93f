CONSTANTS
  Messages = {m1, m2}
  MaxSteps = 2
  StepCap = 1
  MaxCalls = 1
SPECIFICATION Spec
INVARIANT EveryAbortIsRecorded
CHECK_DEADLOCK FALSE
