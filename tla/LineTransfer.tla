---------------------------- MODULE LineTransfer ----------------------------
(***************************************************************************)
(* What log ingestion promises about each line on its way from the capture *)
(* file to the database: it may be stored, once, or given up, for good.    *)
(* Nothing is stored twice, nothing given up comes back, and nothing that  *)
(* is stored is taken away again.                                          *)
(***************************************************************************)
CONSTANT Ids     (* the lines that may ever be written *)

VARIABLE fate    (* what has become of each line *)

Fates == {"unwritten", "pending", "stored", "gone"}

(* A line may be lost as it is written: nobody is reading.                 *)
Moves == [unwritten |-> {"unwritten", "pending", "gone"},
          pending   |-> {"pending", "stored", "gone"},
          stored    |-> {"stored"},
          gone      |-> {"gone"}]

Init == fate = [i \in Ids |-> "unwritten"]

Next == fate' \in [Ids -> Fates] /\ \A i \in Ids : fate'[i] \in Moves[fate[i]]

Spec == Init /\ [][Next]_fate
=============================================================================
