\* Any earlier database; crashes between the files, and inside those that
\* neither create the tables nor add two columns.
SPECIFICATION MigrationSpec
CONSTANTS
  Runners = {x1}
  StartVersions <- EveryVersion
  CrashFiles = {2, 3, 4, 6, 7}
  MaxCrashes = 3
INVARIANTS
  ReadyIsComplete
PROPERTIES
  GetsReady
CHECK_DEADLOCK FALSE
