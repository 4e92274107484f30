SPECIFICATION FairSpec
CONSTANTS
  r1 = r1
  r2 = r2
  Runners <- OneRunner
  Preferences <- AllPreferences
  Kinds <- FrameKinds
  InitOutcomes <- AllOutcomes
  Faults <- DriverFaults
INVARIANTS
  TypeOK
  SubmitFailuresReported
  FreshPixels
  RuntimeFailuresAreOwn
  FallbackPolicy
  AutoFallsBack
  NoMixedFrame
PROPERTIES
  StagingReleased
  EveryCallReturns
