---------------------------- MODULE MCAiGateway ----------------------------
(* Small instances of AiGateway. *)
EXTENDS AiGateway

CONSTANTS u1, u2, r1, r2
=============================================================================
