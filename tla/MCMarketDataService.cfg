CONSTANTS
  nse = nse
  web = web
  a = a
  b = b
  c = c
  Run <- MCRun
  Group <- MCGroup
  Request <- MCRequest
  Source = {a, b, c}
  Domain <- MCDomain
  RunOf <- MCRunOf
  PhaseOf <- MCPhaseOf
  DomainOf <- MCDomainOf
  Members <- MCMembers
  GroupOf <- MCGroupOf
  GlobalCap = 2
  DomainCap <- MCDomainCap
  Threshold = 2
  Cooldown = 2
  MaxClock = 3
  StoreFails = TRUE
SPECIFICATION FairSpec
INVARIANTS
  TypeOK
  ReturnedRunIsComplete
  SuccessHasEveryAnswer
PROPERTIES
  SerialCircuitCoolsDown
  EveryRunEnds
CHECK_DEADLOCK FALSE
