\* Every input, on a terminal and off it.
SPECIFICATION FairSpec
CONSTANTS
  s1 = s1
  s2 = s2
  Streamers <- TwoStreamers
  Terms <- AnyOutput
  Inputs <- AnyInput
INVARIANTS
  TypeOK
  CompleteMeansStopped
PROPERTIES
  VideoReturns
  OutcomeReturned
CHECK_DEADLOCK FALSE
