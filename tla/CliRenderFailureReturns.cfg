\* A failed render on a terminal.
SPECIFICATION FairSpec
CONSTANTS
  s1 = s1
  s2 = s2
  Streamers <- OneStreamer
  Terms <- Terminal
  Inputs <- BrokenInput
PROPERTIES
  FailureReturns
CHECK_DEADLOCK FALSE
