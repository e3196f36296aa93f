------------------------------ MODULE MCHarness ------------------------------
(* KiokukoHarness on small instances.                                       *)
EXTENDS KiokukoHarness
=============================================================================
