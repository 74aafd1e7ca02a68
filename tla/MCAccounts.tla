----------------------------- MODULE MCAccounts -----------------------------
(* Small instances of Accounts: one address typed in two cases, and another; *)
(* and of the lifetimes of Durations.                                        *)
EXTENDS Accounts, Durations

CONSTANTS upper, lower, other, p1, p2, i1, i2, r1, r2

MCLower == [e \in RawEmails |-> IF e = upper THEN lower ELSE e]

MCTexts == [value : {0, 1, 2, 999, 1000, 1500}, unit : {"ms", "s", "m", "none"}]

ASSUME LifetimesAssumption ==
  \A text \in MCTexts, issued \in {0, 1, 999, 1000, 1999} : Lasts(text, issued, issued + 1)
=============================================================================
