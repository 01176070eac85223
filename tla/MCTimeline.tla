----------------------------- MODULE MCTimeline -----------------------------
(* Instances of Timeline for TLC: taken for a pattern, u2's name matches u1.   *)
EXTENDS Timeline

CONSTANTS u1, u2

MCUsers  == {u1, u2}
MCAlike  == {<<u2, u1>>}
=============================================================================
