--------------------------- MODULE MCListingPages ---------------------------
(* Small instances of ListingPages. *)
EXTENDS ListingPages

CONSTANTS a, b, s1, s2
=============================================================================
