-------------------------- MODULE MCMikrotikIngest --------------------------
(* Instances of MikrotikIngest for TLC. *)
EXTENDS MikrotikIngest, TLC

(* NASes are interchangeable. *)
Symmetry == Permutations(Nases)
=============================================================================
