SPECIFICATION Spec
CONSTANTS
  Runs <- SerialRuns
  Channel <- SerialChannel
  Base <- OneBase
  Grouped = TRUE
  PolicyFloor = 1
  MaxAttempts = 2
  MaxByHand = 1
  NoPlan = NoPlan
PROPERTIES NoDowngrade ImplementsNumbers
CHECK_DEADLOCK FALSE
