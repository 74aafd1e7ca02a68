--------------------------- MODULE ListingsSerial ---------------------------
(***************************************************************************)
(* Listings under the discipline its handlers silently rely on: no two     *)
(* writes to one listing are in flight together, as when its owner edits   *)
(* it in one tab and waits for each answer.  Then the detailed handlers    *)
(* implement the atomic ListingStore.                                      *)
(***************************************************************************)
EXTENDS Listings

OneWriterPerListing ==
  \A r, s \in Slots : r # s /\ req[r].target = req[s].target
                        => req[r].target = NoRef

SerialNext == Next /\ OneWriterPerListing'

SerialSpec == Init /\ [][SerialNext]_vars

FairSerialSpec == SerialSpec /\ Fairness

Store == INSTANCE ListingStore

\* With one writer per listing, the handlers' steps are steps of the atomic
\* store: no lost columns, no resurrection, no write after a refusal.
ImplementsStore == Store!Spec
=============================================================================
