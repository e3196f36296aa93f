--------------------------- MODULE MCOnDemandIntake ---------------------------
(* OnDemandIntake with two interchangeable calls over two requests, which may *)
(* be of one native turn or of two.                                          *)
EXTENDS OnDemandIntake, TLC

Symmetry == Permutations(Calls)
=============================================================================
