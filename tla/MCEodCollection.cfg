CONSTANTS
  cash = cash
  index = index
  Reconciled = {cash, index}
  Polled = {cash}
  Retry = 2
  MaxLag = 1
SPECIFICATION EodSpec
INVARIANTS
  EodTypeOK
  CompleteIsStored
  AskedOncePerPass
PROPERTIES
  PublishedIsCollected
