---------------------------- MODULE MCSpecStore ----------------------------
(* Instances of SpecStore for TLC. *)
EXTENDS SpecStore, TLC

Symmetry == Permutations(Workers)
=============================================================================
