------------------------------- MODULE MCAmf -------------------------------
(* Instances of the AMF over the SMF: two areas, each with a UPF-i and an     *)
(* anchor of its own, two gNBs in the first one.                              *)
EXTENDS Amf, TLC

CONSTANTS p1, p2, g1, g2, g3, f1, f2, f3

MCProcs1 == {p1}
MCProcs  == {p1, p2}
MCKeys1  == {[dnn |-> "net", ue |-> "ue1", ip |-> "ip1"]}
MCKeys2  == MCKeys1 \union {[dnn |-> "ims", ue |-> "ue1", ip |-> "ip2"]}

MCSliceUpfs == [net |-> {"x", "y", "w", "z"}]
MCSliceUpfs2 == [net |-> {"x", "y", "w", "z"}, ims |-> {"x", "y", "w", "z"}]
MCIfaces    == [x |-> {"x3"}, y |-> {"y3"}, w |-> {"w9"}, z |-> {"z9"}]
MCAreasOf   == g1 :> {"a"} @@ g2 :> {"a"} @@ g3 :> {"b"}
MCGnbFteid  == g1 :> f1 @@ g2 :> f2 @@ g3 :> f3
MCAreasOf2  == g1 :> {"a"} @@ g2 :> {"b"} @@ g3 :> {"b"}
MCAreasOf4  == g1 :> {"a"} @@ g3 :> {"b"}
MCGnbFteid4 == g1 :> f1 @@ g3 :> f3
\* A gNB that reports no F-TEID and is listed in a second area without a path,
\* and one that is in no area.
MCAreasOf3  == g1 :> {"a"} @@ g2 :> {"b"} @@ "g4" :> {"a", "c"} @@ "g5" :> {}
MCGnbFteid3 == g1 :> f1 @@ g2 :> f2 @@ "g4" :> None @@ "g5" :> f3
X == [node |-> "x", addr |-> "x3"]
Y == [node |-> "y", addr |-> "y3"]
W == [node |-> "w", addr |-> "w9"]
Z == [node |-> "z", addr |-> "z9"]
MCHops  == {X, Y, W, Z}
MCPaths == <<"net", "a">> :> <<X, W>> @@ <<"net", "b">> :> <<Y, Z>>
MCPaths2 == MCPaths @@ <<"ims", "a">> :> <<X, W>> @@ <<"ims", "b">> :> <<Y, Z>>
\* config/config.yaml: one UPF with an interface for each area, paths of one hop.
MCSliceUpfsShipped == [net |-> {"ctrl"}]
MCIfacesShipped    == [ctrl |-> {"srgw1", "srgw2"}]
Srgw1 == [node |-> "ctrl", addr |-> "srgw1"]
Srgw2 == [node |-> "ctrl", addr |-> "srgw2"]
MCHopsShipped  == {Srgw1, Srgw2}
MCPathsShipped == <<"net", "a">> :> <<Srgw1>> @@ <<"net", "b">> :> <<Srgw2>>
\* Which free TEID is drawn makes no difference: none is ever given back.
MCTeids  == 1..6
MCDraw(free) == {t \in free : \A u \in free : t <= u}
MCGnbFteids == {f1, f2, f3}

Symmetry == Permutations(MCProcs)
\* The gNBs of one area differ only by their F-TEIDs.
Neighbours  == g1 :> g2 @@ g2 :> g1 @@ f1 :> f2 @@ f2 :> f1
GnbSymmetry == Symmetry \union {s @@ Neighbours : s \in Symmetry}
=============================================================================
