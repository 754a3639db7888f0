SPECIFICATION FairSpec
CONSTANTS
  p1 = p1
  p2 = p2
  NoProg = NoProg
  Elems = {e1}
  MaxPrio = 1
  Procs = {a}
  Progs = {p1, p2}
  Outcomes <- MCOutcomes
  MinimizesTo <- MCMinimizesTo
  signalRuns = 3
  OtherSignals <- MCOtherSignals
  OtherInputs <- MCOtherInputs
  MgrCandidates <- TwoCandidates
PROPERTIES
  TriageDrains
