CONSTANTS
  r1 = r1
  r2 = r2
  a = a
  b = b
  None = None
  Run <- MCRun
  Refresh = {a, b}
  TtlOf <- MCTtl
  MaxNow = 4
SPECIFICATION RefreshSpec
SYMMETRY Symmetry
INVARIANTS
  RefreshTypeOK
  ProtectedRunOwnsRow
  StatusIsTrue
  
CHECK_DEADLOCK FALSE
