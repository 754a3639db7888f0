SPECIFICATION Spec
CONSTANTS
  NoProg = NoProg
  e1 = e1
  e2 = e2
  Elems = {e1, e2}
  MaxPrio = 1
  Progs = {p1}
  Calls = {c1}
  VMs = {v1, v2}
  InputSignals <- MCInputSignals
  Broken = {}
  Disableable = {}
  Leftover <- MCLeftover
  Seeds = {p1}
  HubProgs = {p1}
  HasHub = TRUE
  PreserveCorpus = FALSE
  FlushFails = FALSE
  ShortWrites = FALSE
  BatchSize = 2
  SatLow = 2
  SatHigh = 2
  InitialDisk <- MCInitialDisk
  InitialBatch = 1
  SplitSize = 1
  DropDivisor = 2
  MaxCheckFailures = 2
  MaxRequests = 1
SYMMETRY Symmetry
INVARIANTS
  CorpusSignalExact
  InputsReach
  MaxSignalReaches
  RotatedWithinCorpus
