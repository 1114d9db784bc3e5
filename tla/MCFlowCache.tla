---------------------------- MODULE MCFlowCache ----------------------------
(* Three keys compete for two or three flows. *)
EXTENDS FlowCache
CONSTANTS k1, k2, k3
MCTcp == [k \in {k1, k2, k3} |-> "tcp"]
=============================================================================
