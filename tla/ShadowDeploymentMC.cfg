CONSTANTS
  Configs = {c0, c1}
  Champion = c0
  Horizons = {1, 2}
  Lineages = {d1, d2}
  Prices = {x1, x2}
  MinSamples = 1
  Window = 1
  None = None
  NoLedger = NoLedger
  Missing = Missing
  MaxTime = 3
  MaxSessions = 4
  c0 = c0
  c1 = c1
  d1 = d1
  d2 = d2
  x1 = x1
  x2 = x2
SPECIFICATION Spec
INVARIANT ReadyIsFull
PROPERTY EvidenceStands
PROPERTY FrozenRowsStand
 
SYMMETRY Symmetry
