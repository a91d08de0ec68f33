CONSTANTS
  q1 = q1
  preopen = preopen
  gainers = gainers
  Loop = loop
  None = None
  Callers = {q1}
  Source = {preopen, gainers}
  PreOpenSource = preopen
  Widespread = 2
  TripAfter = 2
  RestAfter = 2
  FirstPause = 2
  LaterPause = 3
  Rest = 2
  MaxAge = 1
  MaxLag = 1
SPECIFICATION PanelSpec
INVARIANTS
  PanelTypeOK
  BreakerStopsFetches
PROPERTIES
  PanelsRecover
