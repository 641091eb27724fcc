CONSTANTS
  a = a
  b = b
  Instances = {a, b}
  AutoRestart = {a, b}
  RetryCount = 3
  HasRestartTimeout = TRUE
  HasKillTimeout = FALSE
  Faults = {"crash", "freeze", "initError"}
  UserOps = {"attach", "destroy", "destroyAll", "restart"}
  MaxFaults = 2
  MaxOps = 1
SPECIFICATION FairSpec
INVARIANTS
  OneAutomaticKill
PROPERTIES
  AutoRecover
  GivesUpOnlyAfterFailures
CHECK_DEADLOCK FALSE
