---------------------------- MODULE MCCoreRuntime -----------------------------
(* Model checking of CoreRuntime, with its WriteQueue, on a small instance. *)
EXTENDS CoreRuntime
=============================================================================
