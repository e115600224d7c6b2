--------------------------- MODULE MCEstablishment ---------------------------
(* Two slices with overlapping prefixes of which the first has one address.   *)
EXTENDS Establishment

CONSTANTS p1, p2, p3

MCProcs    == {p1, p2, p3}
MCUint32   == 0..2
MCPoolAddr == [net |-> 1, ims |-> 1]
MCPrefix   == [net |-> {1, 2}, ims |-> {1, 2, 3}]
=============================================================================
