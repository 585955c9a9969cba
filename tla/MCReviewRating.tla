--------------------------- MODULE MCReviewRating ---------------------------
(* Instances of ReviewRating for TLC. *)
EXTENDS ReviewRating, TLC

Symmetry == Permutations(Txns) \cup Permutations(Users) \cup Permutations(Places)
=============================================================================
