---------------------------- MODULE MCNasRegistry ----------------------------
(* Instances of NasRegistry for TLC. *)
EXTENDS NasRegistry, TLC

(* Applies are compared for equality only. *)
Symmetry == Permutations(Applies)
=============================================================================
