----------------------------- MODULE MCNatTail -----------------------------
(* Instances of NatTail for TLC. *)
EXTENDS NatTail

(* From a December over a New Year and a 29th of February to the next December. *)
MCBegin == <<1, 3>>
=============================================================================
