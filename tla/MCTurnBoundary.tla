--------------------------- MODULE MCTurnBoundary ----------------------------
EXTENDS TurnBoundary, TLC
CONSTANTS m1, m2
MCMessages == {m1, m2}
MCFirst == m1 :> {"delivery"} @@ m2 :> {"context", "ask", "retry"}
=============================================================================
