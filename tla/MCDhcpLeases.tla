---------------------------- MODULE MCDhcpLeases ----------------------------
(* Instances of DhcpLeases for TLC. *)
EXTENDS DhcpLeases, TLC

(* MACs and addresses are interchangeable: only equality tells them apart. *)
Symmetry == Permutations(MACs) \cup Permutations(IPs)
=============================================================================
