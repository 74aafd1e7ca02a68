----------------------------- MODULE MCSession -----------------------------
(* Small instances of Session. *)
EXTENDS Session

CONSTANTS u1, u2, c1, c2
=============================================================================
