SPECIFICATION Spec
CONSTANTS
  r1 = r1
  r2 = r2
  Runners <- TwoRunners
  Preferences = {"wgpu"}
  Kinds = {"single"}
  InitOutcomes = {"hardware"}
  Faults = {"submit"}
INVARIANT ExplicitFailuresReported
