INIT InstallInit
NEXT InstallNext
CONSTANTS
  MaxInstallFaults = 2
  MaxInstallCrashes = 2
INVARIANTS
  RestoreIsRepeatable
CHECK_DEADLOCK FALSE
