SPECIFICATION MgrFairSpec
CONSTANTS
  ok = ok
  bad = bad
  dis = dis
  e1 = e1
  e2 = e2
  NoProg = NoProg
  Elems = {e1, e2}
  MaxPrio = 1
  Progs = {ok, bad, dis}
  Calls = {c1}
  VMs = {v1}
  InputSignals <- MCInputSignals
  Broken = {bad}
  Disableable = {dis}
  Leftover <- MCLeftover
  Seeds = {}
  HubProgs = {ok}
  HasHub = TRUE
  PreserveCorpus = TRUE
  FlushFails = TRUE
  ShortWrites = TRUE
  BatchSize = 2
  SatLow = 1
  SatHigh = 2
  InitialDisk <- MCInitialDisk
INVARIANTS
  MgrInv
  CorpusPersisted
PROPERTIES
  DeletedOnlyOnceOffered
  CoverageKept
  PhasesComplete
