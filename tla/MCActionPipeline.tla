--------------------------- MODULE MCActionPipeline ---------------------------
(* Instances of ActionPipeline for TLC. *)
EXTENDS ActionPipeline, TLC

Symmetry == Permutations(Actions) \cup Permutations(Workers)
=============================================================================
