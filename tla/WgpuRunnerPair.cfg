SPECIFICATION Spec
CONSTANTS
  r1 = r1
  r2 = r2
  Runners <- TwoRunners
  Preferences = {"auto"}
  Kinds <- PairKinds
  InitOutcomes = {"hardware"}
  Faults <- PairFaults
SYMMETRY RunnerSymmetry
INVARIANTS
  FreshPixels
  LeftMappedIsReported
PROPERTY StagingReleased
