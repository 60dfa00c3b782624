SPECIFICATION Spec
CONSTANTS
  Runs <- OverlapRuns
  Channel <- OverlapChannel
  Base <- OneBase
  Grouped = FALSE
  PolicyFloor = 0
  MaxAttempts = 1
  MaxByHand = 1
  NoPlan = NoPlan
INVARIANTS UniqueReservations TagsShipOnce ShippedIsReserved OwnDraft
PROPERTIES LedgerGrows
CHECK_DEADLOCK FALSE
