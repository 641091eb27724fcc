CONSTANTS
  a = a
  b = b
  Instances = {a, b}
  AutoRestart = {a}
  RetryCount = 2
  HasRestartTimeout = TRUE
  HasKillTimeout = TRUE
  Faults = {"crash", "freeze", "initError"}
  UserOps = {"attach", "destroy", "destroyAll", "restart", "forceRestart"}
  MaxFaults = 2
  MaxOps = 2
SPECIFICATION Spec
INVARIANTS
  TypeOK
  SingleProcess
  ClosingIsTerminating
  KillsAwaitClose
  KillingRestartIsResumed
  InitBeforeUse
  ResumedRestartCanSend
  ListenerOrTimer
PROPERTIES
  LetGoStaysDown
CHECK_DEADLOCK FALSE
