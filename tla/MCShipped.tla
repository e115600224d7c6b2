----------------------------- MODULE MCShipped -----------------------------
(* The shipped configuration (config/config.yaml) once more, with areas and   *)
(* interfaces that are model values: exchanging the two areas, each with its  *)
(* interface, gNB and F-TEID, is a symmetry.                                  *)
EXTENDS MCAmf

CONSTANTS area1, area2, srgw1, srgw2

MCSAreasOf == g1 :> {area1} @@ g3 :> {area2}
MCSIfaces  == [ctrl |-> {srgw1, srgw2}]
MCSHop1    == [node |-> "ctrl", addr |-> srgw1]
MCSHop2    == [node |-> "ctrl", addr |-> srgw2]
MCSHops    == {MCSHop1, MCSHop2}
MCSPaths   == <<"net", area1>> :> <<MCSHop1>> @@ <<"net", area2>> :> <<MCSHop2>>

Exchange     == area1 :> area2 @@ area2 :> area1 @@ srgw1 :> srgw2 @@ srgw2 :> srgw1 @@
                g1 :> g3 @@ g3 :> g1 @@ f1 :> f3 @@ f3 :> f1
AreaSymmetry == Symmetry \union {s @@ Exchange : s \in Symmetry}
=============================================================================
