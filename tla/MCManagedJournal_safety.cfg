SPECIFICATION FairSpec
CONSTANTS
  Ops = {o1, o2}
  Scopes = {s1, s2}
  NoOp = NoOp
  Receipts = {"completed", "unknown"}
  MaxCrash = 1
INVARIANTS
  EffectsAreWrittenAhead
  CompleteEvidenceIsFinal
  AncestorsAreKept
PROPERTIES
  ImplementsLedger
  LispDispatchEnds
CHECK_DEADLOCK FALSE
