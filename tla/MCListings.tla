----------------------------- MODULE MCListings -----------------------------
(* Small instances of Listings. *)
EXTENDS ListingsSerial, TLC

CONSTANTS a, b, s1, l1, l2, price, features, r1, r2, r3

Only(f, v) == [g \in Fields |-> IF g = f THEN v ELSE Undefined]

\* PATCH bodies that name one column each, the last one against its NOT NULL.
MCPayloads == {Only(price, 1), Only(features, Null), Only(price, Null)}

\* Edits of two tabs that name different columns.
MCDisjointPayloads == {Only(price, 1), Only(features, Null)}

MCSeedAttrs == [l \in SeedRefs |-> [f \in Fields |-> 0]]

\* No filter, and a search form with one field set.
MCFilters == {Attrs, {x \in Attrs : x[price] = 0}}

Symmetry == Permutations(Slots) \cup Permutations(Users)
=============================================================================
