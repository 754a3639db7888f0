SPECIFICATION MgrSpec
CONSTANTS
  ok = ok
  bad = bad
  dis = dis
  e1 = e1
  e2 = e2
  NoProg = NoProg
  Elems = {e1, e2}
  MaxPrio = 1
  Progs = {ok, bad, dis}
  Calls = {c1}
  VMs = {v1}
  InputSignals <- MCInputSignals
  Broken = {bad}
  Disableable = {dis}
  Leftover <- MCLeftover
  Seeds = {}
  HubProgs = {ok}
  HasHub = TRUE
  PreserveCorpus = TRUE
  FlushFails = FALSE
  ShortWrites = FALSE
  BatchSize = 2
  SatLow = 1
  SatHigh = 2
  InitialDisk <- MCInitialDisk
PROPERTIES
  TriagedBeforeDeletion
