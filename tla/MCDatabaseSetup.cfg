SPECIFICATION Spec
CONSTANTS
  old = old
  new = new
  Setups <- MCSetups
  Target <- MCTarget
  NoSetup = NoSetup
  MaxFiles = 3
  MaxRows = 1
  Crashes = 1
PROPERTIES
  NothingMigratedWithoutBackup
  BackupMissesNothing
CHECK_DEADLOCK FALSE
