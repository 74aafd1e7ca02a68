---------------------------- MODULE MCNavigation ----------------------------
(* Small instances of Navigation. *)
EXTENDS Navigation

CONSTANTS u1, c1, c2, home, login, register, private, generate
=============================================================================
