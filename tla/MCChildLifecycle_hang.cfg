CONSTANTS
  a = a
  b = b
  Instances = {a, b}
  AutoRestart = {a, b}
  RetryCount = 2
  HasRestartTimeout = TRUE
  HasKillTimeout = TRUE
  Faults = {"crash"}
  UserOps = {"attach"}
  MaxFaults = 1
  MaxOps = 1
SPECIFICATION FairSpec
PROPERTIES
  RestartSettles
CHECK_DEADLOCK FALSE
