----------------------------- MODULE MCPlaceSync -----------------------------
(* Instances of PlaceSync for TLC. *)
EXTENDS PlaceSync

\* Three contents of the first type, more than a page, and one of the second.
MCTypeOf == [i \in Ids |-> IF i < 4 THEN 12 ELSE 14]
=============================================================================
