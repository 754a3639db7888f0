SPECIFICATION Spec
CONSTANTS
  m1 = m1
  m2 = m2
  p1 = p1
  p2 = p2
  p3 = p3
  r1 = r1
  Mgrs = {m1, m2}
  Progs = {p1, p2, p3}
  Repros = {r1}
  Supports <- MCSupports
  maxRecords = 0
  capRecords = 2
  maxConnect = 1
  maxAttempts = 1
  Earlier <- MCEarlier
  MaxChanges = 2
  MaxFaults = 1
PROPERTIES
  RestartKeepsRepros
