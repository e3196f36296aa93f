SPECIFICATION FairSpec
CONSTANTS
  Execs = {"exec"}
  Files = {"file"}
  Children = {"child"}
  Source = "source"
  Target = "target"
  MaxGeneration = 2
  MaxCalls = 2
  MaxTurns = 1
  Disturbances = 1
INVARIANT QuietEnd
PROPERTIES StopMeansStopped StopIsConfirmed
CHECK_DEADLOCK FALSE
