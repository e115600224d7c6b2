------------------------------- MODULE MCSmf -------------------------------
(* Instances of the SMF: an anchor z, and a UPF-i for each area.  *)
EXTENDS Smf, TLC

CONSTANTS p1, p2, t1, t2, t3, t4, f1, f2

MCProcs  == {p1, p2}
MCKeys1  == {[dnn |-> "net", ue |-> "ue1", ip |-> "ip1"]}
\* A second UE in the slice, and one in a slice whose addresses overlap.
MCKeys   == MCKeys1 \union {[dnn |-> "net", ue |-> "ue2", ip |-> "ip2"],
                            [dnn |-> "ims", ue |-> "ue3", ip |-> "ip1"]}

MCSliceUpfs == [net |-> {"x", "y", "z"}]
MCSliceUpfs2 == [net |-> {"x", "z"}, ims |-> {"x", "z"}]
MCIfaces    == [x |-> {"x3"}, y |-> {"y3"}, z |-> {"z9"}]
MCAreasOf   == [g1 |-> {"a"}, g2 |-> {"b"}]
X == [node |-> "x", addr |-> "x3"]
Y == [node |-> "y", addr |-> "y3"]
Z == [node |-> "z", addr |-> "z9"]
MCHops  == {X, Y, Z}
MCPaths == <<"net", "a">> :> <<X, Z>> @@ <<"net", "b">> :> <<Y, Z>>
\* One area and two slices over the same UPFs.
MCAreasOf2 == [g1 |-> {"a"}]
MCPaths2   == <<"net", "a">> :> <<X, Z>> @@ <<"ims", "a">> :> <<X, Z>>
MCDraw(free) == free
MCTeids == {t1, t2, t3}
\* Which free TEID is drawn makes no difference to what follows, as none is ever
\* given back; the other run draws any.
MCTeidsN == 1..4
MCDrawFirst(free) == {t \in free : \A u \in free : t <= u}
MCGnbFteids == {f1, f2}

Symmetry  == Permutations(MCProcs) \union Permutations(MCTeids)
SymmetryP == Permutations(MCProcs)
=============================================================================
