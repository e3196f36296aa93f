--------------------------- MODULE MCManagedJournal ---------------------------
(* Model checking of ManagedJournal on small instances.                     *)
EXTENDS ManagedJournal
=============================================================================
