---------------------------- MODULE MCPacketPath ----------------------------
(* Two messages of one flow, and one context fewer than the packets they    *)
(* and their rebuilt packets need.                                          *)
EXTENDS PacketPath

CONSTANTS m1, m2, f1

MCFlowOf == [m \in {m1, m2} |-> f1]
=============================================================================
