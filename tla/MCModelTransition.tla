------------------------- MODULE MCModelTransition -------------------------
(* Instances of ModelTransition for TLC. *)
EXTENDS ModelTransition
=============================================================================
