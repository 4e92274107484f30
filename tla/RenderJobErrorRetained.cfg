\* A job that failed no longer shows it.
SPECIFICATION FairSpec
CONSTANTS
  Controls <- AllControls
  Inputs <- AllInputs
PROPERTIES
  ErrorRetained
CHECK_DEADLOCK FALSE
