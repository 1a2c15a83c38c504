\* An upload, a command, a crash, any number of installs and rollbacks by the
\* console.  Of the versions one reads the configuration, one says that it does
\* not, one does not and cannot be asked; one file does not run.
CONSTANTS
  v1 = v1
  v2 = v2
  v3 = v3
  x = x
  Versions = {v1, v2, v3}
  Reads = {v1}
  Checks = {v1, v2}
  Junk = {x}
  First = v1
  MaxUploads = 1
  MaxCommands = 1
  MaxCrashes = 1
CHECK_DEADLOCK FALSE
SPECIFICATION FairSpec
INVARIANTS SurvivingCopy ExeSound BackupIsRunning
PROPERTIES VerifiedIsPlaced TakesEffect
