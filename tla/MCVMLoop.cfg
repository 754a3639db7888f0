SPECIFICATION FairSpec
CONSTANTS
  vmCount = 3
  FuzzingVMs = 1
  perRepro = 3
  Titles = {t1}
  Straces = TRUE
  maxReproAttempts = 1
  HubQueueCap = 1
  MaxCrashes = 2
INVARIANTS
  VMsAccounted
  FuzzingVMsKept
  IdleOnlyForRepro
  ReproOnce
PROPERTIES
  ShutdownEnds
  QueueDrains
