SPECIFICATION Spec
CONSTANTS
  collector = collector
  reconciler = reconciler
  None = None
  a1 = a1
  a2 = a2
  a3 = a3
  Dispatchers = {collector, reconciler}
  Collectors = {collector}
  Artifacts = {a1, a2, a3}
  Current = {a1, a2}
  SideBySide = FALSE
  MaxBuilds = 2
  Crashes = TRUE
INVARIANTS TypeOK SkipsOnlyWhatIsCurrent 
