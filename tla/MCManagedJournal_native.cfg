SPECIFICATION Spec
CONSTANTS
  Ops = {o1, o2}
  Scopes = {s1, s2}
  NoOp = NoOp
  Receipts = {"completed", "unknown"}
  MaxCrash = 0
PROPERTIES
  NativeUnknownBlocksEffects
CHECK_DEADLOCK FALSE
