CONSTANTS
  r1 = r1
  Requests = {r1}
  MaxStarts = 2
  StoreFails = TRUE
  None = None
SPECIFICATION FairSpec
INVARIANTS
  TypeOK
  RunningHasLoop
  ScheduleIsPersisted
  RunningRowIsLive
PROPERTIES
  StoppedLoopsEnd
