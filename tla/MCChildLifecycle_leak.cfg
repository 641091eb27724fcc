CONSTANTS
  a = a
  b = b
  Instances = {a, b}
  AutoRestart = {a, b}
  RetryCount = 2
  HasRestartTimeout = TRUE
  HasKillTimeout = TRUE
  Faults = {"crash", "freeze", "initError"}
  UserOps = {"attach", "destroy", "destroyAll"}
  MaxFaults = 2
  MaxOps = 2
SPECIFICATION Spec
PROPERTIES
  DestroyedStaysDown
CHECK_DEADLOCK FALSE
