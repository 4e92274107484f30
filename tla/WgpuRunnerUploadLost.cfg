SPECIFICATION Spec
CONSTANTS
  r1 = r1
  r2 = r2
  Runners <- OneRunner
  Preferences = {"wgpu"}
  Kinds = {"single"}
  InitOutcomes = {"hardware"}
  Faults = {"upload"}
INVARIANT ExplicitFailuresReported
