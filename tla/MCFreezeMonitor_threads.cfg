CONSTANTS
  Configs <- Shared
  Full = 3
  Faults = {"crash", "freeze", "constructor", "slowKill"}
  Commands = {"destroy", "destroyAll", "restart"}
  MaxInstances = 2
  MaxFaults = 2
  MaxCommands = 2
SPECIFICATION FairSpec
INVARIANTS
  TypeOK
  NoOverfill
  IdleOnlyAfterOverlap
  NoLostThread
PROPERTIES
  
  FirstFreezeNoticed
  FreezeNoticedWhileMonitored
CHECK_DEADLOCK FALSE
