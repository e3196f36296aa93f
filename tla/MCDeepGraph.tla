----------------------------- MODULE MCDeepGraph -----------------------------
(* Plans for TLC: one child, two independent ones, a chain, a cycle.           *)
EXTENDS DeepGraph

SmallPlans == {<<{}>>, <<{}, {}>>, <<{}, {1}>>, <<{2}, {1}>>}
=============================================================================
