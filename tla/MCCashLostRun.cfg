SPECIFICATION Spec
CONSTANTS
  collector = collector
  reconciler = reconciler
  None = None
  a1 = a1
  a2 = a2
  a3 = a3
  Dispatchers = {collector, reconciler}
  Collectors = {collector}
  Artifacts = {a1}
  Current = {a1}
  SideBySide = TRUE
  MaxBuilds = 2
  Crashes = FALSE
PROPERTY UnrelatedKeepsRun
