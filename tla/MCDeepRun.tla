------------------------------ MODULE MCDeepRun ------------------------------
(* DeepRun on a run of two nodes under two interchangeable processes.        *)
EXTENDS DeepRun, TLC

CONSTANTS p1, p2, root, child

MCSymmetry == Permutations(Procs)
=============================================================================
