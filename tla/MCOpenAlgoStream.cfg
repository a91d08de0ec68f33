CONSTANTS
  k1 = k1
  k2 = k2
  b1 = b1
  b2 = b2
  Key <- MCKey
  Body <- MCBody
  Sent <- MCSent
  Reason = {"WAIT_STREAM_INTEGRITY"}
  MaxStamp = 2
  MaxSession = 2
  MaxQueue = 2
  MaxInstruments = 2
SPECIFICATION Spec
SYMMETRY MCSymmetry
INVARIANTS
  TypeOK
  ProviderTimeAdvances
  ReceiptsFollowSessions
  LossIsNeverHidden
