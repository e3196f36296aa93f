--------------------------- MODULE MCDatabaseSetup ----------------------------
EXTENDS DatabaseSetup, TLC
CONSTANTS old, new
MCSetups == {old, new}
MCTarget == old :> 1 @@ new :> 2
=============================================================================
