--------------------------- MODULE MCTaskAuthority ---------------------------
(* One command, one file operation and one child of a task that may be      *)
(* handed to one continuation.                                              *)
EXTENDS TaskAuthority
=============================================================================
