SPECIFICATION Spec
CONSTANTS
  Settings <- MCSettings
  Draws <- MCDraws
  LastFrame = 1
INVARIANTS
  TypeOK
  DeliveredMatchesCpu
  DispatchReadsItsData
CHECK_DEADLOCK FALSE
