------------------------------ MODULE MCNatPba ------------------------------
(* Instances of NatPba for TLC. *)
EXTENDS NatPba, TLC

(* Subscribers are interchangeable, and so are blocks. *)
Symmetry == Permutations(Subs) \cup Permutations(Blocks)
=============================================================================
