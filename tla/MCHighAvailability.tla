------------------------- MODULE MCHighAvailability -------------------------
(* Two partners with a TCP flow and one of another kind. *)
EXTENDS HighAvailability

MCTypeOf == [k \in Keys |-> IF k = "t" THEN "tcp" ELSE "other"]
=============================================================================
