----------------------------- MODULE MCHomePage -----------------------------
(* Small instances of HomePage. *)
EXTENDS HomePage

CONSTANTS s1, s2, any, tallinn, house, park, rude
=============================================================================
