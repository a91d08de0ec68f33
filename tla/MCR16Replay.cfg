SPECIFICATION Spec
CONSTANTS
  w1 = w1
  w2 = w2
  x = x
  y = y
  None = None
  Workers = {w1, w2}
  LastDay = 4
  SymbolsOf <- MCSymbolsOf
  Window = 1
  Horizon = 2
  Enters = {3}
  Exits = {4}
  Twice = {2}
  MaxOverlaps = 1
SYMMETRY Symmetry
INVARIANTS TypeOK CompleteIsWhole 
PROPERTIES LedgerSpec LatestPathGrows
