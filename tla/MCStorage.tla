------------------------------ MODULE MCStorage ------------------------------
(* Instances of Storage for TLC. *)
EXTENDS Storage

(* A number of months may be negative. *)
AnyDays == {-1}
=============================================================================
