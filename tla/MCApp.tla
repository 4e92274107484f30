-------------------------------- MODULE MCApp -------------------------------
(* Users of the application: each does things of a few kinds, a few times.   *)
EXTENDS App

MCSessions == {{"presets"}, {"presets", "effects"}, {"media", "effects"},
               {"media", "audio"}, {"media", "render"}}
MCActs == [s \in MCSessions |-> IF s = {"presets", "effects"} THEN 1 ELSE 2]
=============================================================================
