---------------------------- MODULE MCWgpuRunner ----------------------------
(* Instances of WgpuRunner for TLC. *)
EXTENDS WgpuRunner, TLC

CONSTANTS r1, r2

OneRunner == {r1}
TwoRunners == {r1, r2}
RunnerSymmetry == Permutations(TwoRunners)

AllPreferences == {"auto", "cpu", "wgpu", "cuda"}
PairKinds == {"single", "fields", "direct"}
PairFaults == {"poll", "lost"}
AllOutcomes == {"hardware", "software", "failed"}
=============================================================================
