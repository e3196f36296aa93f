CONSTANTS
  MaxNodes = 4
  MaxDepth = 2
  MaxReplans = 1
  MaxChanges = 1
  Plans <- SmallPlans
SPECIFICATION FairSpec
INVARIANTS AcceptedRestsOnAccepted NothingIsStuck
PROPERTIES GraphSettles
CHECK_DEADLOCK FALSE
