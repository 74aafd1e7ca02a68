---------------------------- MODULE LatestAnswer ----------------------------
(***************************************************************************)
(* What a view that shows the answer to a query promises, whatever the     *)
(* number of calls behind it and the order of their answers: what it shows *)
(* answers the query that was asked last, and nothing is shown in the      *)
(* meantime.                                                               *)
(***************************************************************************)
CONSTANTS Queries, Pending, Failed  \* Pending and Failed are no queries

VARIABLES
  wanted,  \* the query asked last
  shown    \* the query whose answer is shown, Pending, or Failed

vars == <<wanted, shown>>

Init == wanted \in Queries /\ shown = Pending

Ask(q) == wanted' = q /\ shown' = Pending

Respond == shown = Pending /\ shown' \in {wanted, Failed} /\ UNCHANGED wanted

Next == Respond \/ \E q \in Queries : Ask(q)

Spec == Init /\ [][Next]_vars
=============================================================================
