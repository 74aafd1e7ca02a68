---------------------------- MODULE ListingStore ----------------------------
(***************************************************************************)
(* What the listings API promises its clients: every operation is one      *)
(* step.  A PATCH merges exactly the fields of its body into the row, a    *)
(* DELETE is final, and only the columns' NOT NULL constraints and the     *)
(* owner's existence can refuse a write.                                   *)
(*                                                                         *)
(* Listings implements this when the writes to a listing do not overlap    *)
(* (ListingsSerial), and does not when they do: the runs lost_update and   *)
(* resurrection show the two ways in which it departs.                     *)
(***************************************************************************)
CONSTANTS Users, NoUser, SeedRefs, UserRefs, Fields, Nullable, Values,
          Null, Undefined, Payloads, SeedAttrs, Absent

VARIABLES table, account, creator

vars == <<table, account, creator>>

Refs == SeedRefs \cup UserRefs

Init ==
  /\ table = [l \in Refs |-> Absent]
  /\ account = [u \in Users |-> "none"]
  /\ creator = [l \in Refs |-> NoUser]

Seed ==
  /\ table' = [l \in Refs |->
       IF l \in SeedRefs THEN [owner |-> NoUser, attrs |-> SeedAttrs[l]]
                         ELSE table[l]]
  /\ UNCHANGED <<account, creator>>

Join(u) ==
  /\ account[u] = "none"
  /\ account' = [account EXCEPT ![u] = "live"]
  /\ UNCHANGED <<table, creator>>

\* The listings of a deleted account are detached, not deleted.
Leave(u) ==
  /\ account[u] = "live"
  /\ account' = [account EXCEPT ![u] = "deleted"]
  /\ table' = [l \in Refs |->
       IF table[l] # Absent /\ creator[l] = u
         THEN [table[l] EXCEPT !.owner = NoUser] ELSE table[l]]
  /\ UNCHANGED creator

Publish(u, l, attrs) ==
  /\ account[u] = "live" /\ creator[l] = NoUser
  /\ table' = [table EXCEPT ![l] = [owner |-> u, attrs |-> attrs]]
  /\ creator' = [creator EXCEPT ![l] = u]
  /\ UNCHANGED account

\* The new row differs from the old one in the fields of the body only.
Revise(l, payload) ==
  /\ creator[l] # NoUser /\ table[l] # Absent
  /\ \A f \in Fields \ Nullable : payload[f] # Null
  /\ table' = [table EXCEPT ![l].attrs = [f \in Fields |->
       IF payload[f] = Undefined THEN table[l].attrs[f] ELSE payload[f]]]
  /\ UNCHANGED <<account, creator>>

Withdraw(l) ==
  /\ creator[l] # NoUser
  /\ table' = [table EXCEPT ![l] = Absent]
  /\ UNCHANGED <<account, creator>>

Next ==
  \/ Seed
  \/ \E u \in Users : Join(u) \/ Leave(u)
  \/ \E u \in Users, l \in UserRefs, attrs \in [Fields -> Values] :
       Publish(u, l, attrs)
  \/ \E l \in UserRefs : Withdraw(l) \/ \E payload \in Payloads : Revise(l, payload)

Spec == Init /\ [][Next]_vars
=============================================================================
