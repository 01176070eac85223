---------------------------- MODULE MCRouterPolls ----------------------------
(* Instances of RouterPolls for TLC. *)
EXTENDS RouterPolls, TLC

(* NASes, persons and MACs are compared for equality only. *)
Symmetry == Permutations(Nases) \cup Permutations(Persons) \cup Permutations(Macs)
=============================================================================
