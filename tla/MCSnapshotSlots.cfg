CONSTANTS
  Slot <- MCSlot
  At <- MCAt
  Grace = 1
  EodFrom = 8
  MaxNow = 10
  Failures = TRUE
SPECIFICATION FairSpec
INVARIANTS
  TypeOK
PROPERTIES
  LedgerSpec
  EverySlotSettled
