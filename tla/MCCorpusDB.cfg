SPECIFICATION Spec
CONSTANTS
  Keys = {k1, k2}
  Vals = {a, b}
  NoVal = NoVal
  Torn = Torn
  Versions = {0, 1}
  CompactRatio = 2
  MaxPending = 2
  ShortWrites = FALSE
SYMMETRY Symmetry
INVARIANTS
  CountExact
  FileBounded
PROPERTIES
  ImplementsStore
