--------------------------- MODULE MCExpectCache ---------------------------
(* Three keys for two nodes of two flows.  p1 matches a full key before the *)
(* partial ones, p2 comes the other way and matches partial keys only.      *)
EXTENDS ExpectCache

CONSTANTS k1, k2, k3, p1, p2

MCLookup == (p1 :> <<k1, k2, k3>>) @@ (p2 :> <<k3, k2>>)
MCReversed == (p1 :> FALSE) @@ (p2 :> TRUE)
MCCalls == {[dir |-> "both", rev |-> FALSE, proto |-> 1], [dir |-> "both", rev |-> FALSE, proto |-> 2],
            [dir |-> "server", rev |-> TRUE, proto |-> 0]}
MCDataId == <<"a", "a", "b", "b">>
=============================================================================
