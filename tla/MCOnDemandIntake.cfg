SPECIFICATION IntakeSpec
CONSTANTS
  Calls = {c1, c2}
  NoCall = NoCall
  MaxTurns = 2
  MaxRequests = 2
  MaxChanges = 1
INVARIANT JoinersAreServed
PROPERTIES LateCallsRunNothing AdmissionIsCurrent WorkHasItsOwnTask AnswerIsInTime
CHECK_DEADLOCK FALSE
SYMMETRY Symmetry
